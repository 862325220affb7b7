---------------------------- MODULE FaceDb_proofs ----------------------------
(***************************************************************************)
(* Proofs about the face database, for every capacity, every build option  *)
(* and every set of users: its variables keep their types; the number of   *)
(* faces it counts is the number of slots in use, as long as the file      *)
(* system removes the files it is asked to remove; a slot in use holds a   *)
(* face; additions and deletions that were answered, and the faces nobody  *)
(* touched, are in flash as the answers say; and, as long as writes        *)
(* succeed, a face marked as saved has its file.                           *)
(***************************************************************************)
EXTENDS FaceDb, FiniteSetTheorems, WellFoundedInduction, TLAPS

(* Least, which picks the next slot of every loop over the slots, returns  *)
(* an element of the set it is given.                                      *)
LEMMA LeastIn ==
  ASSUME NEW S, S \subseteq Slots, S # {}
  PROVE  Least(S) \in S /\ \A other \in S : Least(S) <= other
<1>1. S \subseteq Nat
  BY MaxFacesAssumption DEF Slots
<1>2. PICK x \in S : \A y \in S : ~ (<<y, x>> \in OpToRel(<, Nat))
  BY <1>1, NatLessThanWellFounded, WFMin, Zenon
<1>3. \A y \in S : ~(y < x)
  BY <1>1, <1>2 DEF OpToRel
<1>4. \A y \in S : x <= y
  BY <1>1, <1>3
<1>5. QED
  BY <1>4 DEF Least

(* Sets of slots are finite, and have at most MaxFaces elements. *)
LEMMA SlotsFinite ==
  ASSUME NEW S, S \subseteq Slots
  PROVE  IsFiniteSet(S) /\ Cardinality(S) \in 0 .. MaxFaces
<1>1. IsFiniteSet(Slots) /\ Cardinality(Slots) = MaxFaces
  BY FS_Interval, MaxFacesAssumption DEF Slots
<1>2. IsFiniteSet(S) /\ Cardinality(S) <= MaxFaces
  BY <1>1, FS_Subset
<1>3. Cardinality(S) \in Nat
  BY <1>2, FS_CardinalityType
<1>4. QED
  BY <1>2, <1>3, MaxFacesAssumption

(* The arithmetic on the count stays within 0 .. CountMax. *)
LEMMA CountArithmetic ==
  ASSUME NEW n \in 0 .. CountMax, NEW k \in 0 .. CountMax
  PROVE  Inc(n) \in 0 .. CountMax /\ Sub(n, k) \in 0 .. CountMax /\ Dec(n) \in 0 .. CountMax
BY MaxFacesAssumption DEF Inc, Sub, Dec

(***************************************************************************)
(* Types.                                                                  *)
(***************************************************************************)

(* The records assigned to req, loop and meta have their types. *)
LEMMA RecordTypes ==
  /\ NoReq \in Request
  /\ NoLoop \in Loop
  /\ version \in Versions => DefaultMeta \in Meta
<1>1. NoReq \in Request
  BY DEF NoReq, Request, Ops
<1>2. NoLoop \in Loop
  BY DEF NoLoop, Loop
<1>3. version \in Versions => DefaultMeta \in Meta
  BY MaxFacesAssumption DEF DefaultMeta, Meta
<1>4. QED
  BY <1>1, <1>2, <1>3

(* The record _Facedb_UpdateMetadata writes is one the metadata can hold. *)
LEMMA SnapshotType ==
  ASSUME TypeOK
  PROVE  MetaSnapshot \in Meta
<1>1. Cardinality(RamOnly) \in 0 .. CountMax
  <2>1. RamOnly \subseteq Slots
    BY DEF RamOnly
  <2>2. QED
    BY <2>1, SlotsFinite, MaxFacesAssumption
<1>2. Sub(numberFaces, Cardinality(RamOnly)) \in 0 .. CountMax
  BY <1>1, CountArithmetic DEF TypeOK
<1>3. [id \in Slots |-> mapping[id] \ {"Used"}] \in [Slots -> SUBSET InFlash]
  BY DEF TypeOK, Flags, InFlash
<1>4. QED
  BY <1>2, <1>3 DEF MetaSnapshot, Meta, TypeOK

(* Clearing the database, and saving a face, keep the types. *)
LEMMA ClearedTypes ==
  /\ [id \in Slots |-> NoEntry] \in [Slots -> Entry \cup {NoEntry}]
  /\ [id \in Slots |-> {}] \in [Slots -> SUBSET Flags]
  /\ 0 \in 0 .. CountMax
BY MaxFacesAssumption

(* The entry saved to a file is one the file can hold. *)
LEMMA SaveFileTypes ==
  ASSUME TypeOK, NEW id, SaveFile(id)
  PROVE  /\ entry' \in [Slots -> Entry \cup {NoEntry}]
         /\ mapping' \in [Slots -> SUBSET Flags]
         /\ numberFaces' \in 0 .. CountMax
         /\ dir' \in BOOLEAN
         /\ meta' \in Meta \cup {NoMeta}
         /\ file' \in [Slots -> Entry \cup {NoEntry}]
         /\ version' \in Versions
<1>1. mapping' \in [Slots -> SUBSET Flags]
  BY DEF SaveFile, TypeOK, Flags
<1>2. file' \in [Slots -> Entry \cup {NoEntry}]
  <2>1. CASE id \in Slots
    BY <2>1 DEF SaveFile, TypeOK
  <2>2. CASE id \notin Slots
    <3>1. file' = file
      BY <2>2 DEF SaveFile, TypeOK
    <3>2. QED
      BY <3>1 DEF TypeOK
  <2>3. QED
    BY <2>1, <2>2
<1>3. QED
  BY <1>1, <1>2 DEF SaveFile, TypeOK

(* Every step keeps the types. *)
LEMMA TypeStep == TypeOK /\ [Next]_vars => TypeOK'
<1> SUFFICES ASSUME TypeOK, [Next]_vars
             PROVE  TypeOK'
  OBVIOUS
<1> USE DEF TypeOK
<1>1. CASE Boot
  <2> USE RecordTypes DEF ram, flash, PCs, Cleared
  <2>1. CASE BootMakeDir
    BY <2>1 DEF BootMakeDir
  <2>2. CASE BootMakeDirFails
    BY <2>2 DEF BootMakeDirFails
  <2>3. CASE BootFormat
    BY <2>3, MaxFacesAssumption DEF BootFormat
  <2>4. CASE BootNoMeta
    BY <2>4 DEF BootNoMeta
  <2>5. CASE BootOtherVersion
    BY <2>5 DEF BootOtherVersion
  <2>6. CASE BootLoad
    <3>1. Cardinality(MissingIds) \in 0 .. CountMax
      <4>1. MissingIds \subseteq Slots
        BY DEF MissingIds, StoredIds
      <4>2. QED
        BY <4>1, SlotsFinite, MaxFacesAssumption
    <3>2. meta.numberFaces \in 0 .. CountMax
      BY <2>6 DEF BootLoad, Meta
    <3>3. numberFaces' \in 0 .. CountMax
      BY <2>6, <3>1, <3>2, CountArithmetic DEF BootLoad
    <3>4. QED
      BY <2>6, <3>3 DEF BootLoad, Flags
  <2>7. CASE BootLoadFails
    BY <2>7 DEF BootLoadFails
  <2>8. QED
    BY <1>1, <2>1, <2>2, <2>3, <2>4, <2>5, <2>6, <2>7 DEF Boot
<1>2. CASE Calls
  <2>1. ASSUME NEW op \in Ops, NEW id \in Slots \cup {NoId},
               NEW e \in Entry \cup {NoEntry}, Call(op, id, e)
        PROVE  TypeOK'
    BY <2>1 DEF Call, ram, flash, PCs, Status, Request
  <2>2. CASE CallAdd
    BY <2>1, <2>2 DEF CallAdd, Ops
  <2>3. CASE CallUpdateFace
    BY <2>1, <2>3 DEF CallUpdateFace, UsedIds, Ops
  <2>4. CASE CallUpdateName
    BY <2>1, <2>4 DEF CallUpdateName, Ops
  <2>5. CASE CallDelete
    BY <2>1, <2>5 DEF CallDelete, Ops
  <2>6. CASE CallDeleteName
    BY <2>1, <2>6, LeastIn DEF CallDeleteName, Ops
  <2>7. CASE CallDeleteAll
    BY <2>1, <2>7 DEF CallDeleteAll, Ops
  <2>8. CASE CallSave
    BY <2>1, <2>8 DEF CallSave, Ops
  <2>9. QED
    BY <1>2, <2>2, <2>3, <2>4, <2>5, <2>6, <2>7, <2>8 DEF Calls
<1>3. CASE Step
  <2> USE RecordTypes DEF ram, flash, PCs, Status, Return, Continue, Entering, Cleared
  <2>1. CASE GenIdFull
    BY <2>1 DEF GenIdFull
  <2>2. CASE GenIdNone
    BY <2>2 DEF GenIdNone
  <2>3. CASE GenId
    <3>1. Least(Slots \ UsedIds) \in Slots
      BY <2>3, LeastIn DEF GenId, UsedIds
    <3>2. QED
      BY <2>3, <3>1 DEF GenId, Request
  <2>4. CASE AddFace
    BY <2>4, CountArithmetic DEF AddFace, Request, Flags
  <2>5. CASE AddFile
    <3>1. CASE SaveFile(req.id) /\ Continue("meta") /\ UNCHANGED loop
      BY <3>1, SaveFileTypes
    <3>2. CASE SaveFileFails /\ Return("Failed")
      BY <3>2 DEF SaveFileFails
    <3>3. QED
      BY <2>5, <3>1, <3>2 DEF AddFile
  <2>6. CASE UpdateUnused
    BY <2>6 DEF UpdateUnused
  <2>7. CASE Update
    <3>1. entry' \in [Slots -> Entry \cup {NoEntry}]
      BY <2>7 DEF Update, Request
    <3>2. mapping' \in [Slots -> SUBSET Flags]
      <4>1. CASE Autosave
        BY <2>7, <4>1 DEF Update
      <4>2. CASE ~Autosave
        BY <2>7, <4>2 DEF Update, Flags
      <4>3. QED
        BY <4>1, <4>2
    <3>3. pc' \in PCs /\ resp' \in Status /\ locked' \in BOOLEAN /\ loop' \in Loop /\ req' \in Request
      <4>1. CASE Autosave
        BY <2>7, <4>1 DEF Update
      <4>2. CASE ~Autosave
        BY <2>7, <4>2 DEF Update
      <4>3. QED
        BY <4>1, <4>2
    <3>4. QED
      BY <2>7, <3>1, <3>2, <3>3 DEF Update
  <2>8. CASE UpdateFile
    <3>1. CASE SaveFile(req.id)
      BY <2>8, <3>1, SaveFileTypes DEF UpdateFile
    <3>2. CASE SaveFileFails
      BY <2>8, <3>2 DEF UpdateFile, SaveFileFails
    <3>3. QED
      BY <2>8, <3>1, <3>2 DEF UpdateFile
  <2>9. CASE DeleteUnused
    BY <2>9 DEF DeleteUnused
  <2>10. CASE Delete
    BY <2>10, CountArithmetic DEF Delete, DropFromRam, Request, Flags
  <2>11. CASE DeleteFile
    BY <2>11 DEF DeleteFile, Request, Flags
  <2>12. CASE DeleteFileFails
    BY <2>12 DEF DeleteFileFails
  <2>13. CASE DeleteAll
    BY <2>13 DEF DeleteAll, NoLoop, Loop, UsedIds
  <2>14. CASE DeleteAllRamOnly
    BY <2>14, CountArithmetic DEF DeleteAllRamOnly, DropFromRam, Loop, Flags
  <2>15. CASE DeleteAllFile
    BY <2>15, CountArithmetic DEF DeleteAllFile, DropFromRam, Loop, Flags
  <2>16. CASE DeleteAllFileFails
    BY <2>16, CountArithmetic DEF DeleteAllFileFails, DropFromRam, Loop, Flags
  <2>17. CASE DeleteAllDone
    <3>1. /\ entry' \in [Slots -> Entry \cup {NoEntry}]
          /\ mapping' \in [Slots -> SUBSET Flags]
          /\ numberFaces' \in 0 .. CountMax
      BY <2>17, ClearedTypes DEF DeleteAllDone
    <3>2. /\ pc' \in PCs /\ resp' \in Status /\ locked' \in BOOLEAN
          /\ req' \in Request /\ loop' \in Loop
      BY <2>17 DEF DeleteAllDone
    <3>3. QED
      BY <2>17, <3>1, <3>2 DEF DeleteAllDone
  <2>18. CASE Save
    BY <2>18 DEF Save, NoLoop, Loop, UsedIds
  <2>19. CASE SaveNext
    <3> DEFINE id == Least(loop.todo)
    <3>1. CASE SaveFile(id) /\ loop' = [todo |-> loop.todo \ {id}, last |-> "Success", dirty |-> TRUE]
      <4>1. loop' \in Loop
        BY <3>1 DEF Loop
      <4>2. QED
        BY <2>19, <3>1, <4>1, SaveFileTypes DEF SaveNext
    <3>2. CASE SaveFileFails /\ loop' = [loop EXCEPT !.todo = @ \ {id}, !.last = "Fail"]
      <4>1. loop' \in Loop
        BY <3>2 DEF Loop
      <4>2. QED
        BY <2>19, <3>2, <4>1 DEF SaveNext, SaveFileFails
    <3>3. QED
      BY <2>19, <3>1, <3>2 DEF SaveNext
  <2>20. CASE SaveDone
    BY <2>20 DEF SaveDone
  <2>21. CASE WriteMeta
    BY <2>21, SnapshotType DEF WriteMeta
  <2>22. QED
    BY <1>3, <2>1, <2>2, <2>3, <2>4, <2>5, <2>6, <2>7, <2>8, <2>9, <2>10, <2>11,
       <2>12, <2>13, <2>14, <2>15, <2>16, <2>17, <2>18, <2>19, <2>20, <2>21 DEF Step
<1>4. CASE PowerLoss
  BY <1>4, RecordTypes, ClearedTypes DEF PowerLoss, flash, PCs, Status, Cleared
<1>5. CASE UNCHANGED vars
  BY <1>5 DEF vars
<1>6. QED
  BY <1>1, <1>2, <1>3, <1>4, <1>5 DEF Next

(* The variables of the database keep their types. *)
THEOREM TypeCorrect == Spec => []TypeOK
<1>1. Init => TypeOK
  BY RecordTypes, ClearedTypes DEF Init, TypeOK, PCs, Status
<1>2. QED
  BY <1>1, TypeStep, PTL DEF Spec

(***************************************************************************)
(* The count of faces.                                                     *)
(***************************************************************************)

(* One slot more or less in use changes the number of slots in use by one, *)
(* and the 16 bit count follows it without wrapping.                       *)
LEMMA OneMore ==
  ASSUME NEW S, S \subseteq Slots, NEW id \in Slots \ S
  PROVE  Inc(Cardinality(S)) = Cardinality(S \cup {id})
<1>1. IsFiniteSet(S) /\ Cardinality(S) \in 0 .. MaxFaces
  BY SlotsFinite
<1>2. Cardinality(S \cup {id}) = Cardinality(S) + 1
  BY <1>1, FS_AddElement
<1>3. QED
  BY <1>1, <1>2, MaxFacesAssumption DEF Inc

(* The count less the size of a set of slots in use does not wrap. *)
LEMMA Fewer ==
  ASSUME NEW S, S \subseteq Slots, NEW T, T \subseteq S
  PROVE  Sub(Cardinality(S), Cardinality(T)) = Cardinality(S \ T)
<1>1. /\ IsFiniteSet(S) /\ Cardinality(S) \in 0 .. MaxFaces
      /\ IsFiniteSet(T) /\ Cardinality(T) \in 0 .. MaxFaces
  BY SlotsFinite
<1>2. Cardinality(T) <= Cardinality(S)
  BY <1>1, FS_Subset
<1>3. Cardinality(S \ T) = Cardinality(S) - Cardinality(T)
  <2>1. S \cap T = T
    OBVIOUS
  <2>2. QED
    BY <1>1, <2>1, FS_Difference
<1>4. QED
  BY <1>1, <1>2, <1>3, MaxFacesAssumption DEF Sub

(* Taking a slot out of use takes one off the count. *)
LEMMA OneLess ==
  ASSUME NEW S, S \subseteq Slots, NEW id \in S
  PROVE  Dec(Cardinality(S)) = Cardinality(S \ {id})
<1>1. Cardinality({id}) = 1
  BY FS_Singleton
<1>2. QED
  BY <1>1, Fewer DEF Dec

(* What CountCorrect and MetaCounted read. *)
LEMMA SameCount ==
  ASSUME CountCorrect, UNCHANGED numberFaces, UsedIds' = UsedIds
  PROVE  CountCorrect'
BY DEF CountCorrect

(* A step that leaves the metadata file alone leaves it well counted. *)
LEMMA SameMeta ==
  ASSUME MetaCounted, UNCHANGED meta
  PROVE  MetaCounted'
BY DEF MetaCounted, StoredIds, Stored

(* A step that changes neither the slots nor the metadata file keeps the  *)
(* invariant if it keeps what the call knows.                              *)
LEMMA SameRam ==
  ASSUME CountInv, UNCHANGED <<mapping, numberFaces, meta>>, pc # "deleteFile"
  PROVE  CountCorrect' /\ MetaCounted' /\ NoZombie'
<1>1. UsedIds' = UsedIds
  BY DEF UsedIds, Used
<1>2. NoZombie'
  BY DEF CountInv, NoZombie, Stored, Used
<1>3. QED
  BY <1>1, <1>2, SameCount, SameMeta DEF CountInv

(* A cleared database counts no face. *)
LEMMA ClearedCounts ==
  ASSUME Cleared
  PROVE  CountCorrect' /\ NoZombie' /\ UsedIds' = {}
<1>1. UsedIds' = {}
  BY DEF UsedIds, Used, Cleared
<1>2. CountCorrect'
  BY <1>1, FS_EmptySet DEF CountCorrect, Cleared
<1>3. NoZombie'
  BY DEF NoZombie, Stored, Cleared
<1>4. QED
  BY <1>1, <1>2, <1>3

(* The metadata of an empty database. *)
LEMMA DefaultCounted ==
  ASSUME meta' = DefaultMeta
  PROVE  MetaCounted'
<1>1. StoredIds' = {}
  BY DEF StoredIds, Stored, DefaultMeta
<1>2. meta'.numberFaces = 0
  BY DEF DefaultMeta
<1>3. QED
  BY <1>1, <1>2, FS_EmptySet DEF MetaCounted

(* A face saved to flash was in use, and is no zombie. *)
LEMMA SavedCounts ==
  ASSUME TypeOK, CountInv, NEW id \in UsedIds, SaveFile(id), pc # "deleteFile"
  PROVE  /\ CountCorrect' /\ MetaCounted' /\ UsedIds' = UsedIds
         /\ \A other \in Slots : Stored(mapping', other) => other \in UsedIds
<1>1. UsedIds' = UsedIds
  BY DEF UsedIds, Used, SaveFile, TypeOK
<1>2. CountCorrect' /\ MetaCounted'
  BY <1>1, SameCount, SameMeta DEF SaveFile, CountInv
<1>3. ASSUME NEW other \in Slots, Stored(mapping', other), other # id
      PROVE  other \in UsedIds
  <2>1. mapping'[other] = mapping[other]
    BY <1>3 DEF SaveFile, TypeOK
  <2>2. QED
    BY <1>3, <2>1 DEF CountInv, NoZombie, UsedIds, Stored
<1>4. QED
  BY <1>1, <1>2, <1>3

(* Each step keeps the invariant when no removal of a file fails.          *)
LEMMA CountBoot ==
  ASSUME TypeOK, CountInv, Boot
  PROVE  CountInv'
<1> USE DEF ram, flash
<1>1. CASE BootMakeDir
  BY <1>1, SameRam DEF BootMakeDir, CountInv, CallKnows
<1>2. CASE BootMakeDirFails
  BY <1>2, SameRam DEF BootMakeDirFails, CountInv, CallKnows
<1>3. CASE BootFormat
  <2>1. MetaCounted'
    BY <1>3, DefaultCounted, SameMeta DEF BootFormat, CountInv
  <2>2. QED
    BY <1>3, <2>1, ClearedCounts DEF BootFormat, CountInv, CallKnows
<1>4. CASE BootNoMeta
  BY <1>4, SameRam DEF BootNoMeta, CountInv, CallKnows
<1>5. CASE BootOtherVersion
  <2>1. MetaCounted'
    BY <1>5, DefaultCounted, SameMeta DEF BootOtherVersion, CountInv
  <2>2. UsedIds' = UsedIds
    BY <1>5 DEF BootOtherVersion, UsedIds, Used
  <2>3. CountCorrect'
    BY <1>5, <2>2, SameCount DEF BootOtherVersion, CountInv
  <2>4. NoZombie'
    BY <1>5 DEF BootOtherVersion, CountInv, NoZombie, Stored, Used
  <2>5. QED
    BY <1>5, <2>1, <2>3, <2>4 DEF BootOtherVersion, CountInv, CallKnows
<1>6. CASE BootLoad
  <2>1. UsedIds' = StoredIds \ MissingIds
    BY <1>6 DEF BootLoad, UsedIds, Used, StoredIds, MissingIds
  <2>2. CountCorrect'
    <3>1. StoredIds \subseteq Slots /\ MissingIds \subseteq StoredIds
      BY DEF StoredIds, MissingIds
    <3>2. numberFaces' = Sub(Cardinality(StoredIds), Cardinality(MissingIds))
      BY <1>6 DEF BootLoad, CountInv, MetaCounted
    <3>3. QED
      BY <2>1, <3>1, <3>2, Fewer DEF CountCorrect
  <2>3. MetaCounted'
    BY <1>6, SameMeta DEF BootLoad, CountInv
  <2>4. NoZombie'
    <3>1. ASSUME NEW id \in Slots, Stored(mapping', id)
          PROVE  "Used" \in mapping'[id]
      BY <1>6, <3>1 DEF BootLoad, Stored
    <3>2. QED
      BY <3>1 DEF NoZombie, Used, Stored
  <2>5. QED
    BY <1>6, <2>2, <2>3, <2>4 DEF BootLoad, CountInv, CallKnows
<1>7. CASE BootLoadFails
  BY <1>7, SameRam DEF BootLoadFails, CountInv, CallKnows
<1>8. QED
  BY <1>1, <1>2, <1>3, <1>4, <1>5, <1>6, <1>7 DEF Boot

(* Starting a call changes no slot. *)
LEMMA CountCalls ==
  ASSUME TypeOK, CountInv, Calls
  PROVE  CountInv'
<1>1. ASSUME NEW op, NEW id, NEW e, Call(op, id, e),
             op \in {"update", "delete"} => id # NoId,
             op = "add" => id = NoId
      PROVE  CountInv'
  BY <1>1, SameRam DEF Call, ram, flash, CountInv, CallKnows, Used
<1>2. \A id \in Slots : id # NoId
  BY SentinelAssumption DEF Slots
<1>3. CASE CallAdd
  BY <1>1, <1>3 DEF CallAdd
<1>4. CASE CallUpdateFace
  BY <1>1, <1>2, <1>4 DEF CallUpdateFace, UsedIds
<1>5. CASE CallUpdateName
  BY <1>1, <1>2, <1>5 DEF CallUpdateName
<1>6. CASE CallDelete
  BY <1>1, <1>2, <1>6 DEF CallDelete
<1>7. CASE CallDeleteName
  BY <1>1, <1>2, <1>7, LeastIn DEF CallDeleteName
<1>8. CASE CallDeleteAll
  BY <1>1, <1>8 DEF CallDeleteAll
<1>9. CASE CallSave
  BY <1>1, <1>9 DEF CallSave
<1>10. QED
  BY <1>3, <1>4, <1>5, <1>6, <1>7, <1>8, <1>9 DEF Calls, CountInv

(* Where a step leaves every stored slot in use. *)
LEMMA CountAdd ==
  ASSUME TypeOK, CountInv, GenIdFull \/ GenIdNone \/ GenId \/ AddFace \/ AddFile
  PROVE  CountInv'
<1> USE DEF ram, flash, Return, Continue, Entering
<1>1. CASE GenIdFull \/ GenIdNone
  BY <1>1, SameRam DEF GenIdFull, GenIdNone, CountInv, CallKnows
<1>2. CASE GenId
  <2>1. Least(Slots \ UsedIds) \in Slots \ UsedIds
    BY <1>2, LeastIn DEF GenId, UsedIds
  <2>2. req'.op = "add" /\ ~Used(req.id)'
    BY <1>2, <2>1 DEF GenId, TypeOK, Request, UsedIds, Used
  <2>3. QED
    BY <1>2, <2>2, SameRam DEF GenId, CountInv, CallKnows
<1>3. CASE AddFace
  <2>1. req.id \in Slots \ UsedIds
    BY <1>3 DEF AddFace, TypeOK, Request, CountInv, CallKnows, UsedIds
  <2>2. UsedIds' = UsedIds \cup {req.id}
    BY <1>3, <2>1 DEF AddFace, TypeOK, UsedIds, Used
  <2>3. CountCorrect'
    BY <1>3, <2>1, <2>2, OneMore DEF AddFace, CountInv, CountCorrect, UsedIds
  <2>4. MetaCounted'
    BY <1>3, SameMeta DEF AddFace, CountInv
  <2>5. \A id \in Slots : Stored(mapping', id) => id \in UsedIds
    BY <1>3, <2>1 DEF AddFace, TypeOK, CountInv, NoZombie, Stored, InFlash, UsedIds
  <2>6. NoZombie'
    BY <2>2, <2>5 DEF NoZombie, UsedIds, Stored
  <2>7. CallKnows'
    BY <1>3, <2>1, <2>2 DEF AddFace, CallKnows, UsedIds
  <2>8. QED
    BY <2>3, <2>4, <2>6, <2>7 DEF CountInv
<1>4. CASE AddFile
  <2>1. req.id \in UsedIds
    BY <1>4 DEF AddFile, TypeOK, Request, CountInv, CallKnows, UsedIds
  <2>2. CASE SaveFile(req.id) /\ Continue("meta") /\ UNCHANGED loop
    BY <1>4, <2>1, <2>2, SavedCounts
       DEF AddFile, CountInv, CallKnows, NoZombie, UsedIds, Stored
  <2>3. CASE SaveFileFails /\ Return("Failed")
    BY <1>4, <2>3, SameRam DEF AddFile, SaveFileFails, CountInv, CallKnows
  <2>4. QED
    BY <1>4, <2>2, <2>3 DEF AddFile
<1>5. QED
  BY <1>1, <1>2, <1>3, <1>4

(* An update keeps the set of slots in use. *)
LEMMA CountUpdate ==
  ASSUME TypeOK, CountInv, UpdateUnused \/ Update \/ UpdateFile
  PROVE  CountInv'
<1> USE DEF ram, flash, Return, Continue, Entering
<1>1. CASE UpdateUnused
  BY <1>1, SameRam DEF UpdateUnused, CountInv, CallKnows
<1>2. CASE Update
  <2>1. /\ req.id \in UsedIds
        /\ pc # "deleteFile"
    BY <1>2 DEF Update, TypeOK, Request, CountInv, CallKnows, UsedIds
  <2>2. UsedIds' = UsedIds
    BY <1>2, <2>1 DEF Update, TypeOK, UsedIds, Used
  <2>3. \A id \in Slots : Stored(mapping', id) => id \in UsedIds
    BY <1>2, <2>1 DEF Update, TypeOK, CountInv, NoZombie, Stored, InFlash, UsedIds
  <2>4. CountCorrect' /\ MetaCounted'
    BY <1>2, <2>2, SameCount, SameMeta DEF Update, CountInv
  <2>5. NoZombie'
    BY <2>2, <2>3 DEF NoZombie, UsedIds, Stored
  <2>6. CallKnows'
    BY <1>2, <2>1, <2>2 DEF Update, CountInv, CallKnows, UsedIds
  <2>7. QED
    BY <2>4, <2>5, <2>6 DEF CountInv
<1>3. CASE UpdateFile
  <2>1. req.id \in UsedIds
    BY <1>3 DEF UpdateFile, TypeOK, Request, CountInv, CallKnows, UsedIds
  <2>2. CASE SaveFile(req.id)
    BY <1>3, <2>1, <2>2, SavedCounts
       DEF UpdateFile, CountInv, CallKnows, NoZombie, UsedIds, Stored
  <2>3. CASE SaveFileFails
    BY <1>3, <2>3, SameRam DEF UpdateFile, SaveFileFails, CountInv, CallKnows
  <2>4. QED
    BY <1>3, <2>2, <2>3 DEF UpdateFile
<1>4. QED
  BY <1>1, <1>2, <1>3

(* A removal takes one slot out of use and out of the count. *)
LEMMA CountDelete ==
  ASSUME TypeOK, CountInv, "remove" \notin Faults,
         DeleteUnused \/ Delete \/ DeleteFile \/ DeleteFileFails
  PROVE  CountInv'
<1> USE DEF ram, flash, Return, Continue, Entering
<1>1. CASE DeleteUnused
  BY <1>1, SameRam DEF DeleteUnused, CountInv, CallKnows
<1>2. CASE Delete
  <2>1. req.id \in UsedIds
    BY <1>2 DEF Delete, TypeOK, Request, CountInv, CallKnows, UsedIds
  <2>2. UsedIds' = UsedIds \ {req.id}
    BY <1>2, <2>1 DEF Delete, TypeOK, UsedIds, Used
  <2>3. CountCorrect'
    BY <1>2, <2>1, <2>2, OneLess DEF Delete, DropFromRam, CountInv, CountCorrect, UsedIds
  <2>4. MetaCounted'
    BY <1>2, SameMeta DEF Delete, CountInv
  <2>5. NoZombie'
    <3>1. ASSUME NEW id \in Slots, Stored(mapping', id), id # req.id
          PROVE  id \in UsedIds'
      BY <1>2, <2>2, <3>1 DEF Delete, TypeOK, CountInv, NoZombie, Stored, UsedIds
    <3>2. Stored(mapping', req.id) => pc' = "deleteFile" /\ req'.id = req.id
      BY <1>2, <2>1 DEF Delete, TypeOK, Stored, InFlash, UsedIds
    <3>3. QED
      BY <3>1, <3>2 DEF NoZombie, UsedIds, Stored
  <2>6. CallKnows'
    BY <1>2, <2>1, <2>2 DEF Delete, CountInv, CallKnows, UsedIds
  <2>7. QED
    BY <2>3, <2>4, <2>5, <2>6 DEF CountInv
<1>3. CASE DeleteFile
  <2>1. req.id \in Slots \ UsedIds
    BY <1>3 DEF DeleteFile, TypeOK, Request, CountInv, CallKnows, UsedIds
  <2>2. UsedIds' = UsedIds
    BY <1>3, <2>1 DEF DeleteFile, TypeOK, UsedIds, Used, InFlash
  <2>3. CountCorrect' /\ MetaCounted'
    BY <1>3, <2>2, SameCount, SameMeta DEF DeleteFile, CountInv
  <2>4. NoZombie'
    <3>1. ASSUME NEW id \in Slots, Stored(mapping', id)
          PROVE  id \in UsedIds'
      BY <1>3, <2>1, <2>2, <3>1
         DEF DeleteFile, TypeOK, CountInv, NoZombie, Stored, UsedIds
    <3>2. QED
      BY <3>1 DEF NoZombie, UsedIds, Stored
  <2>5. QED
    BY <1>3, <2>3, <2>4 DEF DeleteFile, CountInv, CallKnows
<1>4. CASE DeleteFileFails
  BY <1>4 DEF DeleteFileFails
<1>5. QED
  BY <1>1, <1>2, <1>3, <1>4

(* The removal of all faces takes the slots out one by one. *)
LEMMA CountDeleteAll ==
  ASSUME TypeOK, CountInv, "remove" \notin Faults,
         \/ DeleteAll \/ DeleteAllRamOnly \/ DeleteAllFile \/ DeleteAllFileFails
         \/ DeleteAllDone
  PROVE  CountInv'
<1> USE DEF ram, flash, Return, Continue, Entering
<1>1. CASE DeleteAll
  <2>1. UsedIds' = UsedIds
    BY <1>1 DEF DeleteAll, UsedIds, Used
  <2>2. loop'.todo = UsedIds
    BY <1>1 DEF DeleteAll, NoLoop
  <2>3. QED
    BY <1>1, <2>1, <2>2, SameRam DEF DeleteAll, CountInv, CallKnows
<1>2. CASE DeleteAllRamOnly \/ DeleteAllFile
  <2> DEFINE id == Least(loop.todo)
  <2>1. id \in UsedIds /\ loop.todo = UsedIds /\ pc = "deleteAll" /\ pc' = pc
    BY <1>2, LeastIn DEF DeleteAllRamOnly, DeleteAllFile, CountInv, CallKnows, UsedIds
  <2>2. UsedIds' = UsedIds \ {id} /\ loop'.todo = UsedIds \ {id}
    <3>1. CASE DeleteAllRamOnly
      BY <2>1, <3>1 DEF DeleteAllRamOnly, TypeOK, UsedIds, Used, Loop
    <3>2. CASE DeleteAllFile
      BY <2>1, <3>2 DEF DeleteAllFile, TypeOK, UsedIds, Used, Loop
    <3>3. QED
      BY <1>2, <3>1, <3>2
  <2>3. CountCorrect'
    BY <1>2, <2>1, <2>2, OneLess
       DEF DeleteAllRamOnly, DeleteAllFile, DropFromRam, CountInv, CountCorrect, UsedIds
  <2>4. MetaCounted'
    BY <1>2, SameMeta DEF DeleteAllRamOnly, DeleteAllFile, CountInv
  <2>5. NoZombie'
    <3>1. ASSUME NEW other \in Slots, Stored(mapping', other)
          PROVE  other \in UsedIds \ {id}
      <4>1. CASE DeleteAllRamOnly
        BY <2>1, <3>1, <4>1
           DEF DeleteAllRamOnly, TypeOK, CountInv, NoZombie, Stored, UsedIds
      <4>2. CASE DeleteAllFile
        BY <2>1, <3>1, <4>2
           DEF DeleteAllFile, TypeOK, CountInv, NoZombie, Stored, UsedIds
      <4>3. QED
        BY <1>2, <4>1, <4>2
    <3>2. QED
      BY <2>2, <3>1 DEF NoZombie, UsedIds, Stored
  <2>6. QED
    BY <2>1, <2>2, <2>3, <2>4, <2>5 DEF CountInv, CallKnows
<1>3. CASE DeleteAllFileFails
  BY <1>3 DEF DeleteAllFileFails
<1>4. CASE DeleteAllDone
  <2>1. CASE Cleared
    BY <1>4, <2>1, ClearedCounts, SameMeta DEF DeleteAllDone, CountInv, CallKnows
  <2>2. CASE UNCHANGED ram
    BY <1>4, <2>2, SameRam DEF DeleteAllDone, CountInv, CallKnows
  <2>3. QED
    BY <1>4, <2>1, <2>2 DEF DeleteAllDone
<1>5. QED
  BY <1>1, <1>2, <1>3, <1>4

(* The record written to the metadata file counts the slots it stores. *)
LEMMA SnapshotCounts ==
  ASSUME TypeOK, CountInv, pc # "deleteFile"
  PROVE  MetaSnapshot.numberFaces =
           Cardinality({id \in Slots : Stored(MetaSnapshot.mapping, id)})
<1>1. RamOnly \subseteq UsedIds
  BY DEF RamOnly, UsedIds, Used
<1>2. UsedIds \ RamOnly = {id \in Slots : Stored(MetaSnapshot.mapping, id)}
  <2>1. ASSUME NEW id \in Slots
        PROVE  id \in UsedIds \ RamOnly <=> Stored(MetaSnapshot.mapping, id)
    <3>1. Stored(MetaSnapshot.mapping, id) <=> Stored(mapping, id)
      BY DEF MetaSnapshot, Stored, InFlash
    <3>2. Stored(mapping, id) => id \in UsedIds
      BY DEF CountInv, NoZombie, UsedIds
    <3>3. id \in UsedIds => (Stored(mapping, id) <=> id \notin RamOnly)
      BY DEF UsedIds, Used, RamOnly, Stored, InFlash, TypeOK, Flags
    <3>4. QED
      BY <3>1, <3>2, <3>3
  <2>2. QED
    BY <2>1 DEF UsedIds
<1>3. QED
  BY <1>1, <1>2, Fewer DEF MetaSnapshot, CountInv, CountCorrect, UsedIds

(* Saving changes no slot's use, and the metadata written counts them. *)
LEMMA CountSave ==
  ASSUME TypeOK, CountInv, Save \/ SaveNext \/ SaveDone \/ WriteMeta
  PROVE  CountInv'
<1> USE DEF ram, flash, Continue, Entering
<1>1. CASE Save
  <2>1. UsedIds' = UsedIds
    BY <1>1 DEF Save, UsedIds, Used
  <2>2. loop'.todo \subseteq UsedIds
    BY <1>1 DEF Save, NoLoop
  <2>3. QED
    BY <1>1, <2>1, <2>2, SameRam DEF Save, CountInv, CallKnows
<1>2. CASE SaveNext
  <2> DEFINE id == Least(loop.todo)
  <2>1. id \in UsedIds /\ pc = "saveAll" /\ loop.todo \subseteq UsedIds
    BY <1>2, LeastIn DEF SaveNext, CountInv, CallKnows, UsedIds
  <2>2. loop'.todo \subseteq UsedIds
    <3>1. CASE loop' = [todo |-> loop.todo \ {id}, last |-> "Success", dirty |-> TRUE]
      BY <2>1, <3>1
    <3>2. CASE loop' = [loop EXCEPT !.todo = @ \ {id}, !.last = "Fail"]
      BY <2>1, <3>2 DEF TypeOK, Loop
    <3>3. QED
      BY <1>2, <3>1, <3>2 DEF SaveNext
  <2>3. CASE SaveFile(id)
    BY <1>2, <2>1, <2>2, <2>3, SavedCounts
       DEF SaveNext, CountInv, CallKnows, NoZombie, UsedIds, Stored
  <2>4. CASE SaveFileFails
    <3>1. UsedIds' = UsedIds
      BY <2>4 DEF SaveFileFails, UsedIds, Used
    <3>2. QED
      BY <1>2, <2>1, <2>2, <2>4, <3>1, SameRam
         DEF SaveNext, SaveFileFails, CountInv, CallKnows
  <2>5. QED
    BY <1>2, <2>3, <2>4 DEF SaveNext
<1>3. CASE SaveDone
  BY <1>3, SameRam DEF SaveDone, CountInv, CallKnows
<1>4. CASE WriteMeta
  <2>1. UsedIds' = UsedIds
    BY <1>4 DEF WriteMeta, UsedIds, Used
  <2>2. CountCorrect'
    BY <1>4, <2>1, SameCount DEF WriteMeta, CountInv
  <2>3. MetaCounted'
    BY <1>4, SnapshotCounts DEF WriteMeta, MetaCounted, StoredIds
  <2>4. NoZombie'
    BY <1>4 DEF WriteMeta, CountInv, NoZombie, Stored, Used
  <2>5. QED
    BY <1>4, <2>2, <2>3, <2>4 DEF WriteMeta, CountInv, CallKnows
<1>5. QED
  BY <1>1, <1>2, <1>3, <1>4

(* When the file system removes the files it is asked to remove, the       *)
(* count of faces is the number of slots in use, the stored count is the   *)
(* number of stored slots and no slot is stored that is not in use: at     *)
(* every step of every call, through power losses, failed writes and       *)
(* failed reads, and for every capacity and build option.                  *)
THEOREM CountInvariant ==
  ASSUME "remove" \notin Faults
  PROVE  Spec => []CountInv
<1>1. Init => CountInv
  <2> SUFFICES ASSUME Init PROVE CountInv
    OBVIOUS
  <2>1. UsedIds = {}
    BY DEF Init, UsedIds, Used
  <2>2. CountCorrect
    BY <2>1, FS_EmptySet DEF Init, CountCorrect
  <2>3. QED
    BY <2>2 DEF Init, CountInv, MetaCounted, NoZombie, CallKnows, Stored
<1>2. TypeOK /\ CountInv /\ [Next]_vars => CountInv'
  <2> SUFFICES ASSUME TypeOK, CountInv, [Next]_vars PROVE CountInv'
    OBVIOUS
  <2>1. CASE Boot
    BY <2>1, CountBoot
  <2>2. CASE Calls
    BY <2>2, CountCalls
  <2>3. CASE Step
    BY <2>3, CountAdd, CountUpdate, CountDelete, CountDeleteAll, CountSave DEF Step
  <2>4. CASE PowerLoss
    <3>1. MetaCounted'
      BY <2>4, SameMeta DEF PowerLoss, flash, CountInv
    <3>2. CallKnows'
      BY <2>4 DEF PowerLoss, CallKnows
    <3>3. QED
      BY <2>4, <3>1, <3>2, ClearedCounts DEF PowerLoss, CountInv
  <2>5. CASE UNCHANGED vars
    <3>1. UNCHANGED <<mapping, numberFaces, meta, pc, req, loop>>
      BY <2>5 DEF vars
    <3>2. UsedIds' = UsedIds
      BY <3>1 DEF UsedIds, Used
    <3>3. QED
      BY <3>1, <3>2, SameCount, SameMeta
         DEF CountInv, NoZombie, CallKnows, Stored, Used
  <2>6. QED
    BY <2>1, <2>2, <2>3, <2>4, <2>5 DEF Next
<1>3. QED
  BY <1>1, <1>2, TypeCorrect, PTL DEF Spec

(* The count the callers read is right. *)
COROLLARY CountIsCorrect ==
  ASSUME "remove" \notin Faults
  PROVE  Spec => []CountCorrect
<1>1. CountInv => CountCorrect
  BY DEF CountInv
<1>2. QED
  BY <1>1, CountInvariant, PTL

-----------------------------------------------------------------------------
(***************************************************************************)
(* What is in flash: a slot in use holds a face, a registration that       *)
(* succeeded is in flash, a removal that succeeded lasts, no stored face   *)
(* is lost, and what is reported as saved is stored.                       *)
(***************************************************************************)

Booting == {"off", "format", "load", "failed"}

(* The call under way at each point, and what it was given. *)
PointOfCall ==
  /\ pc \in Booting => req.op = "none"
  /\ pc = "addFile" => req.op = "add" /\ req.id \in Slots
  /\ pc = "updateFile" => req.op = "update"
  /\ pc = "deleteFile" => req.op = "delete"
  /\ pc = "deleteAll" => req.op = "deleteAll"
  /\ pc = "saveAll" => req.op = "save"

Given ==
  /\ req.op \in {"update", "delete"} => req.id \in Slots
  /\ req.op \in {"add", "update"} => req.entry \in Entry

(* Only slots in use are saved. *)
SavesUsed ==
  /\ pc \in {"addFile", "updateFile"} => Used(req.id)
  /\ pc = "saveAll" => loop.todo \subseteq UsedIds

FaceInv == PointOfCall /\ Given /\ SavesUsed /\ UsedHasFace

(* A registration on its way to success is in its file. *)
AddFiled ==
  /\ pc = "addFile" => entry[req.id] = req.entry
  /\ pc = "meta" /\ req.op = "add" =>
       /\ req.id \in Slots
       /\ file[req.id] = req.entry
       /\ "Saved" \in mapping[req.id]

(* Once the database is open, a face in flash is marked so in RAM; while   *)
(* it is formatted there is none.                                          *)
FlashKnown ==
  /\ ~dir => meta = NoMeta
  /\ pc \notin {"off", "failed"} => dir
  /\ pc = "format" => \A id \in Slots : StoredFaces[id] = NoEntry
  /\ pc \notin Booting =>
       \A id \in Slots : StoredFaces[id] # NoEntry => Stored(mapping, id)

(* A removal on its way to success has removed the file. *)
DeleteFiled == pc = "meta" /\ req.op = "delete" => file[req.id] = NoEntry

-----------------------------------------------------------------------------
(* Metadata is a record, so that it is not the missing file. *)
LEMMA NoMetaIsNone == NoMeta \notin Meta
BY SentinelAssumption DEF Meta, Slots, InFlash

(* An entry is not the cleared one. *)
LEMMA NoEntryIsNone == NoEntry \notin Entry
BY SentinelAssumption DEF Entry

(***************************************************************************)
(* A slot in use holds a face.                                             *)
(***************************************************************************)
LEMMA FaceBoot ==
  ASSUME TypeOK, FaceInv, Boot
  PROVE  FaceInv'
<1> USE DEF FaceInv, PointOfCall, Given, SavesUsed, Booting, ram, flash
<1>1. CASE BootMakeDir
  BY <1>1 DEF BootMakeDir, UsedHasFace, Used
<1>2. CASE BootMakeDirFails
  BY <1>2 DEF BootMakeDirFails, UsedHasFace, Used
<1>3. CASE BootFormat
  BY <1>3 DEF BootFormat, Cleared, UsedHasFace, Used
<1>4. CASE BootNoMeta
  BY <1>4 DEF BootNoMeta, UsedHasFace, Used
<1>5. CASE BootOtherVersion
  BY <1>5 DEF BootOtherVersion, UsedHasFace, Used
<1>6. CASE BootLoad
  <2>1. UsedHasFace'
    BY <1>6 DEF BootLoad, UsedHasFace, Used, MissingIds, StoredIds
  <2>2. pc' \in {"meta", "idle"} /\ req' = req
    BY <1>6 DEF BootLoad
  <2>3. QED
    BY <1>6, <2>1, <2>2 DEF BootLoad
<1>7. CASE BootLoadFails
  BY <1>7 DEF BootLoadFails, UsedHasFace, Used
<1>8. QED
  BY <1>1, <1>2, <1>3, <1>4, <1>5, <1>6, <1>7 DEF Boot

(* A call is given a slot and, where it needs one, a face. *)
LEMMA FaceCalls ==
  ASSUME TypeOK, FaceInv, Calls
  PROVE  FaceInv'
<1>1. ASSUME NEW op, NEW id, NEW e, Call(op, id, e),
             op \in {"update", "delete"} => id \in Slots,
             op \in {"add", "update"} => e \in Entry
      PROVE  FaceInv'
  BY <1>1 DEF Call, ram, flash, FaceInv, PointOfCall, Given, SavesUsed, Booting,
              UsedHasFace, Used
<1>2. CASE CallAdd
  BY <1>1, <1>2 DEF CallAdd
<1>3. CASE CallUpdateFace
  BY <1>1, <1>3 DEF CallUpdateFace, UsedIds
<1>4. CASE CallUpdateName
  BY <1>1, <1>4 DEF CallUpdateName
<1>5. CASE CallDelete
  BY <1>1, <1>5 DEF CallDelete
<1>6. CASE CallDeleteName
  BY <1>1, <1>6, LeastIn DEF CallDeleteName
<1>7. CASE CallDeleteAll
  BY <1>1, <1>7 DEF CallDeleteAll
<1>8. CASE CallSave
  BY <1>1, <1>8 DEF CallSave
<1>9. QED
  BY <1>2, <1>3, <1>4, <1>5, <1>6, <1>7, <1>8, Zenon DEF Calls

(* Saving a slot in use to its file. *)
LEMMA FaceSaved ==
  ASSUME TypeOK, UsedHasFace, NEW id \in UsedIds, SaveFile(id)
  PROVE  UsedHasFace' /\ UsedIds' = UsedIds
BY DEF TypeOK, UsedHasFace, UsedIds, Used, SaveFile

(* The steps of a registration. *)
LEMMA FaceAdd ==
  ASSUME TypeOK, FaceInv, GenIdFull \/ GenIdNone \/ GenId \/ AddFace \/ AddFile
  PROVE  FaceInv'
<1> USE DEF FaceInv, PointOfCall, Given, SavesUsed, Booting, ram, flash, Return,
            Continue, Entering
<1>1. CASE GenIdFull \/ GenIdNone
  BY <1>1 DEF GenIdFull, GenIdNone, UsedHasFace, Used
<1>2. CASE GenId
  BY <1>2 DEF GenId, UsedHasFace, Used, TypeOK, Request
<1>3. CASE AddFace
  <2>1. req.id \in Slots /\ req.entry \in Entry
    BY <1>3 DEF AddFace, TypeOK, Request
  <2>2. UsedHasFace' /\ Used(req.id)'
    BY <1>3, <2>1, NoEntryIsNone DEF AddFace, UsedHasFace, Used, TypeOK
  <2>3. pc' \in {"addFile", "idle"} /\ req' = req
    BY <1>3 DEF AddFace
  <2>4. QED
    BY <1>3, <2>1, <2>2, <2>3 DEF AddFace
<1>4. CASE AddFile
  <2>1. req.id \in UsedIds
    BY <1>4 DEF AddFile, UsedIds
  <2>2. UsedHasFace'
    BY <1>4, <2>1, FaceSaved DEF AddFile, SaveFileFails, UsedHasFace, Used
  <2>3. pc' \in {"meta", "idle"} /\ req' = req
    BY <1>4 DEF AddFile
  <2>4. QED
    BY <1>4, <2>2, <2>3 DEF AddFile
<1>5. QED
  BY <1>1, <1>2, <1>3, <1>4

(* The steps of an update; an update gives the slot a face again. *)
LEMMA FaceUpdate ==
  ASSUME TypeOK, FaceInv, UpdateUnused \/ Update \/ UpdateFile
  PROVE  FaceInv'
<1> USE DEF FaceInv, PointOfCall, Given, SavesUsed, Booting, ram, flash, Return,
            Continue, Entering
<1>1. CASE UpdateUnused
  BY <1>1 DEF UpdateUnused, UsedHasFace, Used
<1>2. CASE Update
  <2>1. req.id \in Slots /\ req.entry \in Entry /\ Used(req.id)
    BY <1>2 DEF Update
  <2>2. \A id \in Slots : Used(id)' <=> Used(id)
    BY <1>2, <2>1 DEF Update, TypeOK, Used
  <2>3. UsedHasFace'
    BY <1>2, <2>1, <2>2, NoEntryIsNone DEF Update, UsedHasFace, TypeOK
  <2>4. pc' \in {"updateFile", "idle"} /\ req' = req
    BY <1>2 DEF Update
  <2>5. QED
    BY <1>2, <2>1, <2>2, <2>3, <2>4 DEF Update
<1>3. CASE UpdateFile
  <2>1. req.id \in UsedIds
    BY <1>3 DEF UpdateFile, UsedIds
  <2>2. UsedHasFace'
    BY <1>3, <2>1, FaceSaved DEF UpdateFile, SaveFileFails, UsedHasFace, Used
  <2>3. QED
    BY <1>3, <2>2 DEF UpdateFile
<1>4. QED
  BY <1>1, <1>2, <1>3

(* The steps of the removals, which clear a slot and its use at once. *)
LEMMA FaceDelete ==
  ASSUME TypeOK, FaceInv,
         \/ DeleteUnused \/ Delete \/ DeleteFile \/ DeleteFileFails \/ DeleteAll
         \/ DeleteAllRamOnly \/ DeleteAllFile \/ DeleteAllFileFails \/ DeleteAllDone
  PROVE  FaceInv'
<1> USE DEF FaceInv, PointOfCall, Given, SavesUsed, Booting, ram, flash, Return,
            Continue, Entering
<1>1. CASE DeleteUnused
  BY <1>1 DEF DeleteUnused, UsedHasFace, Used
<1>2. CASE Delete
  <2>1. UsedHasFace'
    BY <1>2 DEF Delete, DropFromRam, UsedHasFace, Used, TypeOK
  <2>2. pc' \in {"deleteFile", "idle"} /\ req' = req
    BY <1>2 DEF Delete
  <2>3. QED
    BY <1>2, <2>1, <2>2 DEF Delete
<1>3. CASE DeleteFile
  <2>1. UsedHasFace'
    BY <1>3 DEF DeleteFile, UsedHasFace, Used, TypeOK, InFlash
  <2>2. QED
    BY <1>3, <2>1 DEF DeleteFile
<1>4. CASE DeleteFileFails
  BY <1>4 DEF DeleteFileFails, UsedHasFace, Used
<1>5. CASE DeleteAll
  BY <1>5 DEF DeleteAll, UsedHasFace, Used
<1>6. CASE DeleteAllRamOnly \/ DeleteAllFile \/ DeleteAllFileFails
  <2>1. UsedHasFace'
    <3>1. Least(loop.todo) \in Slots
      BY <1>6, LeastIn DEF DeleteAllRamOnly, DeleteAllFile, DeleteAllFileFails, TypeOK, Loop
    <3>2. CASE DeleteAllRamOnly
      BY <3>1, <3>2 DEF DeleteAllRamOnly, DropFromRam, UsedHasFace, Used, TypeOK
    <3>3. CASE DeleteAllFile
      BY <3>1, <3>3 DEF DeleteAllFile, DropFromRam, UsedHasFace, Used, TypeOK
    <3>4. CASE DeleteAllFileFails
      BY <3>1, <3>4 DEF DeleteAllFileFails, DropFromRam, UsedHasFace, Used, TypeOK
    <3>5. QED
      BY <1>6, <3>2, <3>3, <3>4
  <2>2. QED
    BY <1>6, <2>1 DEF DeleteAllRamOnly, DeleteAllFile, DeleteAllFileFails
<1>7. CASE DeleteAllDone
  <2>1. UsedHasFace'
    BY <1>7 DEF DeleteAllDone, Cleared, UsedHasFace, Used
  <2>2. pc' \in {"meta", "idle"} /\ req' = req
    BY <1>7 DEF DeleteAllDone
  <2>3. QED
    BY <1>7, <2>1, <2>2
<1>8. QED
  BY <1>1, <1>2, <1>3, <1>4, <1>5, <1>6, <1>7

(* The save of all faces, whose list holds slots in use, and the metadata. *)
LEMMA FaceSave ==
  ASSUME TypeOK, FaceInv, Save \/ SaveNext \/ SaveDone \/ WriteMeta
  PROVE  FaceInv'
<1> USE DEF FaceInv, PointOfCall, Given, SavesUsed, Booting, ram, flash,
            Continue, Entering
<1>1. CASE Save
  <2>1. loop'.todo \subseteq UsedIds
    BY <1>1 DEF Save, NoLoop
  <2>2. QED
    BY <1>1, <2>1 DEF Save, UsedHasFace, UsedIds, Used
<1>2. CASE SaveNext
  <2>1. Least(loop.todo) \in UsedIds /\ loop.todo \subseteq UsedIds
    BY <1>2, LeastIn DEF SaveNext, UsedIds
  <2>2. UsedHasFace' /\ UsedIds' = UsedIds
    BY <1>2, <2>1, FaceSaved DEF SaveNext, SaveFileFails, UsedHasFace, UsedIds, Used
  <2>3. loop'.todo \subseteq UsedIds
    <3> DEFINE id == Least(loop.todo)
    <3>1. CASE loop' = [todo |-> loop.todo \ {id}, last |-> "Success", dirty |-> TRUE]
      BY <2>1, <3>1
    <3>2. CASE loop' = [loop EXCEPT !.todo = @ \ {id}, !.last = "Fail"]
      BY <2>1, <3>2 DEF TypeOK, Loop
    <3>3. QED
      BY <1>2, <3>1, <3>2 DEF SaveNext
  <2>4. QED
    BY <1>2, <2>2, <2>3 DEF SaveNext
<1>3. CASE SaveDone
  <2>1. pc' \in {"meta", "idle"} /\ req' = req
    BY <1>3 DEF SaveDone
  <2>2. QED
    BY <1>3, <2>1 DEF SaveDone, UsedHasFace, Used
<1>4. CASE WriteMeta
  BY <1>4 DEF WriteMeta, UsedHasFace, Used
<1>5. QED
  BY <1>1, <1>2, <1>3, <1>4

(* Every step keeps the faces of the slots in use. *)
LEMMA FaceStep == TypeOK /\ FaceInv /\ [Next]_vars => FaceInv'
<1> SUFFICES ASSUME TypeOK, FaceInv, [Next]_vars PROVE FaceInv'
  OBVIOUS
<1>1. CASE Boot
  BY <1>1, FaceBoot
<1>2. CASE Calls
  BY <1>2, FaceCalls
<1>3. CASE Step
  BY <1>3, FaceAdd, FaceUpdate, FaceDelete, FaceSave DEF Step
<1>4. CASE PowerLoss
  BY <1>4 DEF PowerLoss, Cleared, NoReq, FaceInv, PointOfCall, Given, SavesUsed,
              Booting, UsedHasFace, Used
<1>5. CASE UNCHANGED vars
  BY <1>5 DEF vars, FaceInv, PointOfCall, Given, SavesUsed, UsedHasFace, UsedIds, Used
<1>6. QED
  BY <1>1, <1>2, <1>3, <1>4, <1>5 DEF Next

(* The invariant, whatever fails and whenever power is lost. *)
LEMMA FaceInvariant == Spec => []FaceInv
<1>1. Init => FaceInv
  BY DEF Init, NoReq, FaceInv, PointOfCall, Given, SavesUsed, Booting, UsedHasFace, Used
<1>2. QED
  BY <1>1, FaceStep, TypeCorrect, PTL DEF Spec

(* A slot in use never holds a cleared entry, whatever flash operations    *)
(* fail.                                                                   *)
THEOREM UsedHoldsFace == Spec => []UsedHasFace
<1>1. FaceInv => UsedHasFace
  BY DEF FaceInv
<1>2. QED
  BY <1>1, FaceInvariant, PTL

(***************************************************************************)
(* A registration that succeeded is in flash.                              *)
(***************************************************************************)

(* A step that writes nothing and leaves the slots of a call alone.        *)
LEMMA SameFlash ==
  ASSUME UNCHANGED flash
  PROVE  StoredFaces' = StoredFaces
BY DEF flash, StoredFaces, StoredIds, Stored

(* What WriteMeta writes for a slot. *)
LEMMA WrittenSlot ==
  ASSUME TypeOK, WriteMeta, NEW id \in Slots
  PROVE  StoredFaces'[id] = IF Stored(mapping, id) THEN file[id] ELSE NoEntry
<1>1. meta' # NoMeta
  BY SnapshotType, NoMetaIsNone DEF WriteMeta
<1>2. Stored(meta'.mapping, id) <=> Stored(mapping, id)
  BY DEF WriteMeta, MetaSnapshot, Stored, InFlash
<1>3. QED
  BY <1>1, <1>2 DEF StoredFaces, StoredIds, WriteMeta

AddInv == AddFiled /\ AddIsDurable

(* The steps that are no part of a registration. *)
LEMMA AddOther ==
  ASSUME TypeOK, FaceInv, AddInv, [Next]_vars,
         ~ (AddFace \/ AddFile \/ WriteMeta \/ UNCHANGED vars)
  PROVE  AddInv'
<1> USE DEF ram, flash, AddInv, AddFiled, AddIsDurable, Returned, FaceInv,
            PointOfCall, Booting
<1>1. CASE Boot
  <2>1. req' = req /\ req.op = "none"
    BY <1>1 DEF Boot, BootMakeDir, BootMakeDirFails, BootFormat, BootNoMeta,
                BootOtherVersion, BootLoad, BootLoadFails
  <2>2. pc' # "addFile"
    BY <1>1 DEF Boot, BootMakeDir, BootMakeDirFails, BootFormat, BootNoMeta,
                BootOtherVersion, BootLoad, BootLoadFails
  <2>3. QED
    BY <2>1, <2>2
<1>2. CASE Calls
  <2>1. pc' = "enter"
    BY <1>2 DEF Calls, CallAdd, CallUpdateFace, CallUpdateName, CallDelete,
                CallDeleteName, CallDeleteAll, CallSave, Call
  <2>2. QED
    BY <2>1
<1>3. CASE PowerLoss
  BY <1>3 DEF PowerLoss, NoReq
<1>4. CASE GenIdFull \/ GenIdNone \/ GenId
  BY <1>4 DEF GenIdFull, GenIdNone, GenId, Return, Entering
<1>5. CASE UpdateUnused \/ Update \/ UpdateFile
  BY <1>5 DEF UpdateUnused, Update, UpdateFile, Return, Continue, Entering
<1>6. CASE DeleteUnused \/ Delete \/ DeleteFile \/ DeleteFileFails
  BY <1>6 DEF DeleteUnused, Delete, DeleteFile, DeleteFileFails, Return, Continue,
              Entering
<1>7. CASE DeleteAll \/ DeleteAllRamOnly \/ DeleteAllFile \/ DeleteAllFileFails
           \/ DeleteAllDone
  BY <1>7 DEF DeleteAll, DeleteAllRamOnly, DeleteAllFile, DeleteAllFileFails,
              DeleteAllDone, Return, Continue, Entering
<1>8. CASE Save \/ SaveNext \/ SaveDone
  BY <1>8 DEF Save, SaveNext, SaveDone, Return, Continue, Entering
<1>9. QED
  BY <1>1, <1>2, <1>3, <1>4, <1>5, <1>6, <1>7, <1>8 DEF Next, Step

(* Every step keeps what is known of a registration. *)
LEMMA AddStep == TypeOK /\ FaceInv /\ AddInv /\ [Next]_vars => AddInv'
<1> SUFFICES ASSUME TypeOK, FaceInv, AddInv, [Next]_vars PROVE AddInv'
  OBVIOUS
<1> USE DEF AddInv, AddFiled, AddIsDurable, Returned
<1>1. CASE AddFace
  <2>1. /\ entry'[req.id] = req.entry /\ req' = req
        /\ pc' \in {"addFile", "idle"} /\ (pc' = "idle" => ~Autosave')
    BY <1>1 DEF AddFace, Entering, TypeOK, Request, Return, Continue, Autosave
  <2>2. QED
    BY <2>1
<1>2. CASE AddFile
  <2>1. req.id \in Slots /\ req' = req
    BY <1>2 DEF AddFile, FaceInv, PointOfCall, Return, Continue
  <2>2. CASE SaveFile(req.id) /\ Continue("meta")
    <3>1. file'[req.id] = req.entry /\ "Saved" \in mapping'[req.id]
      BY <1>2, <2>1, <2>2 DEF AddFile, SaveFile, TypeOK
    <3>2. QED
      BY <2>1, <2>2, <3>1 DEF Continue
  <2>3. CASE Return("Failed")
    BY <2>3 DEF Return
  <2>4. QED
    BY <1>2, <2>2, <2>3 DEF AddFile
<1>3. CASE WriteMeta
  <2>1. pc' = "idle" /\ req' = req /\ pc = "meta"
    BY <1>3 DEF WriteMeta
  <2>2. ASSUME req.op = "add"
        PROVE  StoredFaces'[req.id] = req.entry
    BY <1>3, <2>1, <2>2, WrittenSlot DEF Stored, InFlash
  <2>3. QED
    BY <2>1, <2>2
<1>4. CASE UNCHANGED vars
  <2>1. StoredFaces' = StoredFaces /\ Autosave' = Autosave
    BY <1>4, SameFlash DEF vars, flash, Autosave
  <2>2. QED
    BY <1>4, <2>1 DEF vars
<1>5. QED
  BY <1>1, <1>2, <1>3, <1>4, AddOther DEF AddInv

(* A registration that was answered with success survives a reboot of a    *)
(* firmware that saves at once, whatever flash operations fail: the file   *)
(* comes before the metadata, and a file that is not written is reported.  *)
THEOREM AddLasts == Spec => []AddIsDurable
<1>1. Init => AddInv
  BY DEF Init, AddInv, AddFiled, AddIsDurable, Returned
<1>2. AddInv => AddIsDurable
  BY DEF AddInv
<1>3. QED
  BY <1>1, <1>2, AddStep, FaceInvariant, TypeCorrect, PTL DEF Spec

(***************************************************************************)
(* A removal that succeeded lasts, and no stored face is lost.             *)
(***************************************************************************)
FlashInv == FlashKnown /\ DeleteFiled /\ DeleteIsDurable

(* The boot, up to the open database. *)
LEMMA FlashBoot ==
  ASSUME TypeOK, CountInv, FaceInv, FlashInv, Boot
  PROVE  FlashInv'
<1> USE DEF FlashInv, FlashKnown, Booting
<1>1. req' = req /\ req.op = "none"
  BY DEF FaceInv, PointOfCall, Boot, BootMakeDir, BootMakeDirFails, BootFormat,
         BootNoMeta, BootOtherVersion, BootLoad, BootLoadFails
<1>2. DeleteFiled' /\ DeleteIsDurable'
  BY <1>1 DEF DeleteFiled, DeleteIsDurable, Returned
<1>3. FlashKnown'
  <2>1. CASE BootMakeDir
    <3>1. meta' = meta /\ pc' \in {"format", "load"} /\ dir'
      BY <2>1 DEF BootMakeDir
    <3>2. pc' = "format" => meta' = NoMeta
      BY <2>1 DEF BootMakeDir
    <3>3. QED
      BY <3>1, <3>2 DEF StoredFaces
  <2>2. CASE BootMakeDirFails \/ BootNoMeta \/ BootLoadFails
    BY <2>2 DEF BootMakeDirFails, BootNoMeta, BootLoadFails, flash
  <2>3. CASE BootFormat
    <3>1. \A id \in Slots : StoredFaces'[id] = NoEntry
      <4>1. CASE meta' = DefaultMeta
        BY <4>1 DEF StoredFaces, StoredIds, Stored, DefaultMeta
      <4>2. CASE meta' = meta
        BY <2>3, <4>2, SameFlash DEF BootFormat, flash
      <4>3. QED
        BY <2>3, <4>1, <4>2 DEF BootFormat
    <3>2. dir'
      BY <2>3 DEF BootFormat
    <3>3. QED
      BY <2>3, <3>1, <3>2 DEF BootFormat
  <2>4. CASE BootOtherVersion
    <3>1. dir'
      BY <2>4 DEF BootOtherVersion, TypeOK
    <3>2. \A id \in Slots : StoredFaces'[id] = NoEntry
      <4>1. CASE meta.numberFaces = 0
        <5>1. StoredIds = {}
          BY <2>4, <4>1, SlotsFinite, FS_EmptySet
             DEF BootOtherVersion, CountInv, MetaCounted, StoredIds
        <5>2. meta' = meta
          BY <2>4, <4>1 DEF BootOtherVersion
        <5>3. QED
          BY <5>1, <5>2 DEF StoredFaces, StoredIds, Stored
      <4>2. CASE meta.numberFaces # 0
        <5>1. meta' = DefaultMeta
          BY <2>4, <4>2 DEF BootOtherVersion
        <5>2. QED
          BY <5>1 DEF StoredFaces, StoredIds, Stored, DefaultMeta
      <4>3. QED
        BY <4>1, <4>2
    <3>3. QED
      BY <2>4, <3>1, <3>2 DEF BootOtherVersion
  <2>5. CASE BootLoad
    <3>1. \A id \in Slots : StoredFaces[id] # NoEntry => Stored(mapping', id)
      BY <2>5 DEF BootLoad, StoredFaces, StoredIds, MissingIds, Stored, InFlash
    <3>2. StoredFaces' = StoredFaces /\ dir' /\ pc' \in {"meta", "idle"}
      BY <2>5, SameFlash DEF BootLoad, flash
    <3>3. QED
      BY <3>1, <3>2
  <2>6. QED
    BY <2>1, <2>2, <2>3, <2>4, <2>5 DEF Boot
<1>4. QED
  BY <1>2, <1>3

(* A step between two open states that leaves every stored slot stored.    *)
LEMMA FlashStays ==
  ASSUME FlashKnown, pc \notin Booting, pc' \notin Booting, UNCHANGED dir,
         \A id \in Slots : StoredFaces'[id] # NoEntry =>
           Stored(mapping', id) \/ (StoredFaces[id] # NoEntry /\ mapping'[id] = mapping[id])
  PROVE  FlashKnown'
BY DEF FlashKnown, Booting, Stored

(* The steps that change no flag of a slot but "Used", and write nothing.  *)
LEMMA FlashRam ==
  ASSUME TypeOK, FlashKnown, pc \notin Booting, pc' \notin Booting, UNCHANGED flash,
         \A id \in Slots : Stored(mapping, id) => Stored(mapping', id)
  PROVE  FlashKnown'
BY SameFlash DEF FlashKnown, flash, Booting

(* A slot that is not in use is not in flash. *)
LEMMA UnusedIsGone ==
  ASSUME CountInv, FlashKnown, pc \notin Booting, pc # "deleteFile",
         NEW id \in Slots, ~Used(id)
  PROVE  StoredFaces[id] = NoEntry /\ ~Stored(mapping, id)
BY DEF CountInv, NoZombie, FlashKnown

(* Saving a face to its file leaves the other slots alone.                 *)
LEMMA FlashSaved ==
  ASSUME TypeOK, FlashKnown, pc \notin Booting, pc' \notin Booting,
         NEW id \in Slots, SaveFile(id)
  PROVE  FlashKnown'
<1>1. \A other \in Slots : Stored(mapping, other) => Stored(mapping', other)
  BY DEF SaveFile, TypeOK, Stored, InFlash
<1>2. \A other \in Slots : StoredFaces'[other] # NoEntry =>
         other = id \/ StoredFaces[other] # NoEntry
  BY DEF SaveFile, TypeOK, StoredFaces, StoredIds, Stored
<1>3. Stored(mapping', id)
  BY DEF SaveFile, TypeOK, Stored, InFlash
<1>4. QED
  BY <1>1, <1>2, <1>3 DEF FlashKnown, SaveFile, Booting

(* The steps of a registration and of an update. *)
LEMMA FlashAddUpdate ==
  ASSUME TypeOK, CountInv, FaceInv, FlashInv,
         \/ GenIdFull \/ GenIdNone \/ GenId \/ AddFace \/ AddFile
         \/ UpdateUnused \/ Update \/ UpdateFile
  PROVE  FlashInv'
<1> USE DEF FlashInv, Booting, ram, flash, Return, Continue, Entering
<1>1. req.op \in {"add", "update"} /\ req'.op = req.op
  BY DEF GenIdFull, GenIdNone, GenId, AddFace, AddFile, UpdateUnused, Update,
         UpdateFile, FaceInv, PointOfCall, TypeOK, Request
<1>2. DeleteFiled' /\ DeleteIsDurable'
  BY <1>1 DEF DeleteFiled, DeleteIsDurable, Returned
<1>3. CASE GenIdFull \/ GenIdNone \/ GenId \/ UpdateUnused
  BY <1>2, <1>3, FlashRam DEF GenIdFull, GenIdNone, GenId, UpdateUnused, Stored
<1>4. CASE AddFace
  <2>1. req.id \in Slots /\ ~Used(req.id)
    BY <1>4 DEF AddFace, TypeOK, Request, CountInv, CallKnows
  <2>2. ~Stored(mapping, req.id)
    BY <1>4, <2>1, UnusedIsGone DEF AddFace
  <2>3. \A id \in Slots : Stored(mapping, id) => Stored(mapping', id)
    BY <1>4, <2>1, <2>2 DEF AddFace, TypeOK, Stored
  <2>4. pc' \in {"addFile", "idle"}
    BY <1>4 DEF AddFace
  <2>5. QED
    BY <1>2, <1>4, <2>3, <2>4, FlashRam DEF AddFace
<1>5. CASE Update
  <2>1. req.id \in Slots
    BY <1>5 DEF Update, FaceInv, Given
  <2>2. \A id \in Slots : Stored(mapping, id) => Stored(mapping', id)
    BY <1>5, <2>1 DEF Update, TypeOK, Stored, InFlash
  <2>3. pc' \in {"updateFile", "idle"}
    BY <1>5 DEF Update
  <2>4. QED
    BY <1>2, <1>5, <2>2, <2>3, FlashRam DEF Update
<1>6. CASE AddFile \/ UpdateFile
  <2>1. req.id \in Slots /\ pc' \in {"meta", "idle"}
    BY <1>6 DEF AddFile, UpdateFile, FaceInv, PointOfCall, Given
  <2>2. CASE SaveFile(req.id)
    BY <1>2, <1>6, <2>1, <2>2, FlashSaved DEF AddFile, UpdateFile
  <2>3. CASE SaveFileFails
    BY <1>2, <1>6, <2>1, <2>3, FlashRam DEF AddFile, UpdateFile, SaveFileFails, Stored
  <2>4. QED
    BY <1>6, <2>2, <2>3 DEF AddFile, UpdateFile
<1>7. QED
  BY <1>3, <1>4, <1>5, <1>6

(* One user's removal: the slot is out of use, then its file is gone, then *)
(* the metadata says so.                                                   *)
LEMMA FlashDelete ==
  ASSUME TypeOK, CountInv, FaceInv, FlashInv, "remove" \notin Faults,
         DeleteUnused \/ Delete \/ DeleteFile \/ DeleteFileFails
  PROVE  FlashInv'
<1> USE DEF FlashInv, Booting, ram, flash, Return, Continue, Entering
<1>1. req' = req /\ req.id \in Slots
  BY DEF DeleteUnused, Delete, DeleteFile, DeleteFileFails, FaceInv, PointOfCall, Given
<1>2. CASE DeleteUnused
  <2>1. StoredFaces[req.id] = NoEntry
    BY <1>1, <1>2, UnusedIsGone DEF DeleteUnused
  <2>2. StoredFaces' = StoredFaces
    BY <1>2, SameFlash DEF DeleteUnused
  <2>3. FlashKnown'
    BY <1>2, FlashRam DEF DeleteUnused, Stored
  <2>4. QED
    BY <1>1, <1>2, <2>1, <2>2, <2>3
       DEF DeleteUnused, DeleteFiled, DeleteIsDurable, Returned
<1>3. CASE Delete
  <2>1. StoredFaces' = StoredFaces
    BY <1>3, SameFlash DEF Delete
  <2>2. pc' \in {"deleteFile", "idle"}
    BY <1>3 DEF Delete
  <2>3. \A id \in Slots : Stored(mapping, id) => Stored(mapping', id)
    BY <1>1, <1>3 DEF Delete, TypeOK, Stored, InFlash
  <2>4. FlashKnown'
    BY <1>3, <2>2, <2>3, FlashRam DEF Delete
  <2>5. pc' = "idle" => StoredFaces[req.id] = NoEntry
    BY <1>1, <1>3 DEF Delete, FlashKnown
  <2>6. QED
    BY <1>1, <2>1, <2>2, <2>4, <2>5 DEF DeleteFiled, DeleteIsDurable, Returned
<1>4. CASE DeleteFile
  <2>1. file' = [file EXCEPT ![req.id] = NoEntry] /\ pc' = "meta" /\ meta' = meta
    BY <1>4 DEF DeleteFile
  <2>2. file'[req.id] = NoEntry
    BY <1>1, <2>1 DEF TypeOK
  <2>3. \A id \in Slots : StoredFaces'[id] # NoEntry =>
           StoredFaces[id] # NoEntry /\ mapping'[id] = mapping[id]
    BY <1>1, <1>4, <2>1, <2>2 DEF DeleteFile, TypeOK, StoredFaces, StoredIds, Stored
  <2>4. FlashKnown'
    BY <1>4, <2>1, <2>3, FlashStays DEF DeleteFile
  <2>5. QED
    BY <1>1, <2>1, <2>2, <2>4 DEF DeleteFiled, DeleteIsDurable, Returned
<1>5. CASE DeleteFileFails
  BY <1>5 DEF DeleteFileFails
<1>6. QED
  BY <1>2, <1>3, <1>4, <1>5

(* The removal of all users. *)
LEMMA FlashDeleteAll ==
  ASSUME TypeOK, CountInv, FaceInv, FlashInv, "remove" \notin Faults,
         \/ DeleteAll \/ DeleteAllRamOnly \/ DeleteAllFile \/ DeleteAllFileFails
         \/ DeleteAllDone
  PROVE  FlashInv'
<1> USE DEF FlashInv, Booting, ram, flash, Return, Continue, Entering
<1>1. req' = req /\ req.op = "deleteAll"
  BY DEF DeleteAll, DeleteAllRamOnly, DeleteAllFile, DeleteAllFileFails,
         DeleteAllDone, FaceInv, PointOfCall
<1>2. DeleteFiled' /\ DeleteIsDurable'
  BY <1>1 DEF DeleteFiled, DeleteIsDurable, Returned
<1>3. CASE DeleteAll
  BY <1>2, <1>3, FlashRam DEF DeleteAll, Stored
<1>4. CASE DeleteAllRamOnly
  <2>1. \A id \in Slots : Stored(mapping, id) => Stored(mapping', id)
    BY <1>4 DEF DeleteAllRamOnly, TypeOK, Stored, InFlash
  <2>2. QED
    BY <1>2, <1>4, <2>1, FlashRam DEF DeleteAllRamOnly
<1>5. CASE DeleteAllFile
  <2> DEFINE gone == Least(loop.todo)
  <2>1. gone \in Slots
    BY <1>5, LeastIn DEF DeleteAllFile, TypeOK, Loop
  <2>2. /\ file' = [file EXCEPT ![gone] = NoEntry]
        /\ mapping' = [mapping EXCEPT ![gone] = {}]
        /\ meta' = meta /\ dir' = dir /\ pc' = pc /\ pc = "deleteAll"
    BY <1>5 DEF DeleteAllFile
  <2> HIDE DEF gone
  <2>3. \A id \in Slots : StoredFaces'[id] # NoEntry =>
           StoredFaces[id] # NoEntry /\ mapping'[id] = mapping[id]
    BY <2>1, <2>2 DEF TypeOK, StoredFaces, StoredIds, Stored
  <2>4. QED
    BY <1>2, <2>2, <2>3, FlashStays
<1>6. CASE DeleteAllFileFails
  BY <1>6 DEF DeleteAllFileFails
<1>7. CASE DeleteAllDone
  <2>1. UsedIds = {}
    BY <1>7 DEF DeleteAllDone, CountInv, CallKnows
  <2>2. \A id \in Slots : ~Stored(mapping, id)
    BY <1>7, <2>1, UnusedIsGone DEF DeleteAllDone, UsedIds
  <2>3. pc' \in {"meta", "idle"}
    BY <1>7 DEF DeleteAllDone
  <2>4. QED
    BY <1>2, <1>7, <2>2, <2>3, FlashRam DEF DeleteAllDone
<1>8. QED
  BY <1>3, <1>4, <1>5, <1>6, <1>7

(* The save of all faces, and the metadata. *)
LEMMA FlashSave ==
  ASSUME TypeOK, CountInv, FaceInv, FlashInv, Save \/ SaveNext \/ SaveDone \/ WriteMeta
  PROVE  FlashInv'
<1> USE DEF FlashInv, Booting, ram, flash, Continue, Entering
<1>1. CASE Save
  BY <1>1, FlashRam DEF Save, Stored, DeleteFiled, DeleteIsDurable, Returned
<1>2. CASE SaveNext
  <2>1. Least(loop.todo) \in Slots
    BY <1>2, LeastIn DEF SaveNext, TypeOK, Loop
  <2>2. DeleteFiled' /\ DeleteIsDurable'
    BY <1>2 DEF SaveNext, DeleteFiled, DeleteIsDurable, Returned
  <2>3. FlashKnown'
    <3>1. CASE SaveFile(Least(loop.todo))
      BY <1>2, <2>1, <3>1, FlashSaved DEF SaveNext
    <3>2. CASE SaveFileFails
      BY <1>2, <3>2, FlashRam DEF SaveNext, SaveFileFails, Stored
    <3>3. QED
      BY <1>2, <3>1, <3>2 DEF SaveNext
  <2>4. QED
    BY <2>2, <2>3
<1>3. CASE SaveDone
  <2>1. pc' \in {"meta", "idle"} /\ req' = req /\ req.op = "save"
    BY <1>3 DEF SaveDone, FaceInv, PointOfCall
  <2>2. QED
    BY <1>3, <2>1, FlashRam DEF SaveDone, Stored, DeleteFiled, DeleteIsDurable, Returned
<1>4. CASE WriteMeta
  <2>1. pc = "meta" /\ pc' = "idle" /\ req' = req /\ UNCHANGED <<mapping, dir, file>>
    BY <1>4 DEF WriteMeta
  <2>2. \A id \in Slots :
           StoredFaces'[id] = IF Stored(mapping, id) THEN file[id] ELSE NoEntry
    BY <1>4, WrittenSlot
  <2>3. DeleteIsDurable' /\ DeleteFiled'
    BY <2>1, <2>2 DEF FaceInv, Given, DeleteFiled, DeleteIsDurable, Returned
  <2>4. dir
    BY <2>1 DEF FlashKnown
  <2>5. QED
    BY <2>1, <2>2, <2>3, <2>4 DEF FlashKnown, Stored
<1>5. QED
  BY <1>1, <1>2, <1>3, <1>4

(* The start of a call. *)
LEMMA FlashCalls ==
  ASSUME TypeOK, FlashInv, Calls
  PROVE  FlashInv'
<1>1. pc = "idle" /\ pc' = "enter" /\ UNCHANGED <<ram, flash>>
  BY DEF Calls, CallAdd, CallUpdateFace, CallUpdateName, CallDelete, CallDeleteName,
         CallDeleteAll, CallSave, Call
<1>2. FlashKnown'
  BY <1>1, FlashRam DEF FlashInv, Booting, Stored, ram
<1>3. QED
  BY <1>1, <1>2 DEF FlashInv, DeleteFiled, DeleteIsDurable, Returned

(* Every step keeps what is known of the flash. *)
LEMMA FlashStep ==
  ASSUME "remove" \notin Faults, TypeOK, CountInv, FaceInv, FlashInv, [Next]_vars
  PROVE  FlashInv'
<1>1. CASE Boot
  BY <1>1, FlashBoot
<1>2. CASE Calls
  BY <1>2, FlashCalls
<1>3. CASE Step
  BY <1>3, FlashAddUpdate, FlashDelete, FlashDeleteAll, FlashSave DEF Step
<1>4. CASE PowerLoss
  <2>1. pc' = "off" /\ UNCHANGED <<dir, meta>>
    BY <1>4 DEF PowerLoss, flash
  <2>2. QED
    BY <2>1 DEF FlashInv, FlashKnown, Booting, DeleteFiled, DeleteIsDurable, Returned
<1>5. CASE UNCHANGED vars
  <2>1. StoredFaces' = StoredFaces
    BY <1>5, SameFlash DEF vars, flash
  <2>2. QED
    BY <1>5, <2>1 DEF vars, FlashInv, FlashKnown, Booting, Stored, DeleteFiled,
                      DeleteIsDurable, Returned
<1>6. QED
  BY <1>1, <1>2, <1>3, <1>4, <1>5 DEF Next

(* The invariant, if a file that is to be removed is removed. *)
LEMMA FlashInvariant ==
  ASSUME "remove" \notin Faults
  PROVE  Spec => []FlashInv
<1>1. Init => FlashInv
  BY DEF Init, FlashInv, FlashKnown, Booting, DeleteFiled, DeleteIsDurable, Returned
<1>2. TypeOK /\ CountInv /\ FaceInv /\ FlashInv /\ [Next]_vars => FlashInv'
  BY FlashStep
<1>3. QED
  BY <1>1, <1>2, TypeCorrect, CountInvariant, FaceInvariant, PTL DEF Spec

(* A user whose removal was answered with success is not back after a      *)
(* reboot, also when files cannot be written or read, as long as they can  *)
(* be removed.                                                             *)
THEOREM DeleteLasts ==
  ASSUME "remove" \notin Faults
  PROVE  Spec => []DeleteIsDurable
<1>1. FlashInv => DeleteIsDurable
  BY DEF FlashInv
<1>2. QED
  BY <1>1, FlashInvariant, PTL

(* The step StoredFaceKept allows. *)
Kept(id) ==
  StoredFaces[id] # NoEntry /\ StoredFaces'[id] = NoEntry =>
    \/ req.op = "delete" /\ req.id = id
    \/ req.op = "deleteAll"
    \/ meta.version # version

(* No step but a removal takes a stored face away. *)
LEMMA KeptStep ==
  ASSUME TypeOK, CountInv, FaceInv, FlashInv, [Next]_vars, NEW id \in Slots
  PROVE  Kept(id)
<1> USE DEF Kept
<1>1. CASE UNCHANGED flash
  BY <1>1, SameFlash
<1>2. CASE BootMakeDir
  BY <1>2 DEF BootMakeDir, StoredFaces, StoredIds, Stored
<1>3. CASE BootFormat
  BY <1>3 DEF BootFormat, FlashInv, FlashKnown
<1>4. CASE BootOtherVersion
  BY <1>4 DEF BootOtherVersion
<1>5. ASSUME NEW saved \in UsedIds, SaveFile(saved)
      PROVE  Kept(id)
  <2>1. entry[saved] # NoEntry /\ saved \in Slots
    BY <1>5 DEF FaceInv, UsedHasFace, UsedIds
  <2>2. QED
    BY <1>5, <2>1 DEF SaveFile, TypeOK, StoredFaces, StoredIds, Stored
<1>6. CASE AddFile \/ UpdateFile
  <2>1. req.id \in UsedIds
    BY <1>6 DEF AddFile, UpdateFile, FaceInv, PointOfCall, Given, SavesUsed, UsedIds
  <2>2. QED
    BY <1>1, <1>5, <1>6, <2>1 DEF AddFile, UpdateFile, SaveFileFails
<1>7. CASE SaveNext
  <2>1. Least(loop.todo) \in UsedIds
    BY <1>7, LeastIn DEF SaveNext, FaceInv, SavesUsed, UsedIds
  <2>2. QED
    BY <1>1, <1>5, <1>7, <2>1 DEF SaveNext, SaveFileFails
<1>8. CASE DeleteFile
  <2>1. req.op = "delete"
    BY <1>8 DEF DeleteFile, FaceInv, PointOfCall
  <2>2. id # req.id => StoredFaces'[id] = StoredFaces[id]
    BY <1>8 DEF DeleteFile, TypeOK, StoredFaces, StoredIds, Stored
  <2>3. QED
    BY <2>1, <2>2
<1>9. CASE DeleteAllFile
  BY <1>9 DEF DeleteAllFile, FaceInv, PointOfCall
<1>10. CASE WriteMeta
  <2>1. StoredFaces'[id] = IF Stored(mapping, id) THEN file[id] ELSE NoEntry
    BY <1>10, WrittenSlot
  <2>2. StoredFaces[id] # NoEntry => Stored(mapping, id) /\ StoredFaces[id] = file[id]
    BY <1>10 DEF WriteMeta, FlashInv, FlashKnown, Booting, StoredFaces
  <2>3. QED
    BY <2>1, <2>2
<1>11. UNCHANGED flash \/ BootMakeDir \/ BootFormat \/ BootOtherVersion \/ AddFile
       \/ UpdateFile \/ SaveNext \/ DeleteFile \/ DeleteAllFile \/ WriteMeta
  <2> USE DEF ram, flash
  <2>1. CASE Boot
    BY <2>1 DEF Boot, BootMakeDirFails, BootNoMeta, BootLoad, BootLoadFails
  <2>2. CASE Calls
    BY <2>2 DEF Calls, CallAdd, CallUpdateFace, CallUpdateName, CallDelete,
                CallDeleteName, CallDeleteAll, CallSave, Call
  <2>3. CASE Step
    BY <2>3 DEF Step, GenIdFull, GenIdNone, GenId, AddFace, UpdateUnused, Update,
                DeleteUnused, Delete, DeleteFileFails, DeleteAll, DeleteAllRamOnly,
                DeleteAllFileFails, DeleteAllDone, Save, SaveDone
  <2>4. CASE PowerLoss \/ UNCHANGED vars
    BY <2>4 DEF PowerLoss, vars
  <2>5. QED
    BY <2>1, <2>2, <2>3, <2>4 DEF Next
<1>12. QED
  BY <1>1, <1>2, <1>3, <1>4, <1>6, <1>7, <1>8, <1>9, <1>10, <1>11

(* A stored face disappears only by a removal that asks for it or with the *)
(* metadata of another version: no failed write, no power loss between a   *)
(* file and the metadata, and no save takes one away.                      *)
THEOREM FacesAreKept ==
  ASSUME "remove" \notin Faults
  PROVE  Spec => StoredFaceKept
<1>1. TypeOK /\ CountInv /\ FaceInv /\ FlashInv /\ [Next]_vars
        => [\A id \in Slots : Kept(id)]_vars
  BY KeptStep
<1>2. QED
  BY <1>1, TypeCorrect, CountInvariant, FaceInvariant, FlashInvariant, PTL
     DEF Spec, StoredFaceKept, Kept

(***************************************************************************)
(* What is reported as saved is stored.  The flag "Saved" of a slot in use *)
(* says that its file holds its entry, except between the two steps of an  *)
(* update (FileHolds); that flag is in the metadata, except while a write  *)
(* of the metadata is still to come (Listed).  An update writes no         *)
(* metadata: a firmware that saves at once has none but stored faces       *)
(* (SavesAtOnce), and one that does not takes the flag away.               *)
(***************************************************************************)
Writing == pc = "meta" \/ (pc = "saveAll" /\ loop.dirty)

NothingInUse == pc \in Booting => UsedIds = {}

FileHolds ==
  \A id \in UsedIds :
    "Saved" \in mapping[id] => file[id] = entry[id] \/ (pc = "updateFile" /\ id = req.id)

Listed ==
  ~Writing => \A id \in UsedIds :
                Stored(mapping, id) => meta # NoMeta /\ Stored(meta.mapping, id)

SavesAtOnce ==
  /\ pc \in {"addFile", "updateFile"} => Autosave
  /\ Autosave => \A id \in UsedIds : Stored(mapping, id) \/ (pc = "addFile" /\ id = req.id)

SavedSoFar ==
  /\ pc = "saveAll" => /\ loop.last = "Success"
                       /\ \A id \in UsedIds \ loop.todo : "Saved" \in mapping[id]
  /\ (pc = "meta" /\ req.op = "save") \/ Returned("save", "Success") =>
       \A id \in UsedIds : "Saved" \in mapping[id]

(* A removal has taken its slot out of use before it removes the file. *)
OutOfUse == pc = "deleteFile" => ~Used(req.id)

SavedInv == NothingInUse /\ OutOfUse /\ FileHolds /\ Listed /\ SavesAtOnce /\ SavedSoFar

(* Every write of a file or of the metadata succeeds. *)
WritesSucceed == "write" \notin Faults

(* The flags of a slot in use that is in flash. *)
LEMMA SavedIsStoredFlag ==
  ASSUME NEW id, "Saved" \in mapping[id]
  PROVE  Stored(mapping, id)
BY DEF Stored, InFlash

(* A boot ends with the slots whose file was read. *)
LEMMA SavedBoot ==
  ASSUME TypeOK, FaceInv, SavedInv, WritesSucceed, Boot
  PROVE  SavedInv'
<1> USE DEF SavedInv, NothingInUse, OutOfUse, FileHolds, Listed, SavesAtOnce, SavedSoFar, Writing,
            Booting, ram, flash, UsedIds, Used
<1>1. req.op = "none" /\ UsedIds = {}
  BY DEF Boot, BootMakeDir, BootMakeDirFails, BootFormat, BootNoMeta, BootOtherVersion,
         BootLoad, BootLoadFails, FaceInv, PointOfCall
<1>2. req' = req
  BY DEF Boot, BootMakeDir, BootMakeDirFails, BootFormat, BootNoMeta, BootOtherVersion,
         BootLoad, BootLoadFails
<1>3. CASE BootLoad
  <2>1. \A id \in UsedIds' : /\ id \in StoredIds /\ mapping'[id] = {"Saved", "Used"}
                             /\ entry'[id] = file[id]
    BY <1>3 DEF BootLoad, MissingIds, StoredIds
  <2>2. meta # NoMeta /\ meta' = meta /\ file' = file /\ pc' \in {"meta", "idle"}
    BY <1>3 DEF BootLoad
  <2>3. \A id \in UsedIds' : Stored(mapping', id) /\ Stored(meta'.mapping, id)
    BY <2>1, <2>2 DEF StoredIds, Stored, InFlash
  <2>4. QED
    BY <1>1, <1>2, <2>1, <2>2, <2>3 DEF Returned
<1>4. CASE Boot /\ ~BootLoad
  <2>1. UsedIds' = {} /\ pc' # "saveAll"
    BY <1>1, <1>4 DEF Boot, BootMakeDir, BootMakeDirFails, BootFormat, BootNoMeta,
         BootOtherVersion, BootLoadFails, Cleared
  <2>2. pc' \notin {"addFile", "updateFile", "deleteFile"}
    BY <1>1, <1>4 DEF Boot, BootMakeDir, BootMakeDirFails, BootFormat, BootNoMeta,
         BootOtherVersion, BootLoadFails, Cleared
  <2>3. QED
    BY <1>1, <1>2, <2>1, <2>2
<1>5. QED
  BY <1>3, <1>4

(* A call that begins changes neither slots nor flash. *)
LEMMA SavedCalls ==
  ASSUME TypeOK, SavedInv, Calls
  PROVE  SavedInv'
<1>1. pc = "idle" /\ pc' = "enter" /\ UNCHANGED <<ram, flash, version>>
  BY DEF Calls, CallAdd, CallUpdateFace, CallUpdateName, CallDelete, CallDeleteName,
         CallDeleteAll, CallSave, Call
<1>2. QED
  BY <1>1 DEF SavedInv, NothingInUse, OutOfUse, FileHolds, Listed, SavesAtOnce, SavedSoFar, Writing,
              Booting, ram, flash, UsedIds, Used, Autosave, Returned, Stored

(* Saving the file of a slot in use. *)
LEMMA SavedFile ==
  ASSUME TypeOK, NEW id \in UsedIds, SaveFile(id),
         \A x \in UsedIds : x # id /\ "Saved" \in mapping[x] => file[x] = entry[x]
  PROVE  /\ UsedIds' = UsedIds
         /\ \A x \in UsedIds : "Saved" \in mapping'[x] => file'[x] = entry'[x]
         /\ "Saved" \in mapping'[id]
         /\ \A x \in UsedIds : x # id => mapping'[x] = mapping[x]
BY DEF TypeOK, UsedIds, Used, SaveFile

(* The steps of a registration. *)
LEMMA SavedAdd ==
  ASSUME TypeOK, FaceInv, SavedInv, WritesSucceed,
         GenIdFull \/ GenIdNone \/ GenId \/ AddFace \/ AddFile
  PROVE  SavedInv'
<1> USE DEF SavedInv, NothingInUse, OutOfUse, FileHolds, Listed, SavesAtOnce, SavedSoFar, Writing,
            Booting, ram, flash, Entering, Returned
<1>1. CASE GenIdFull \/ GenIdNone \/ GenId
  <2>1. pc = "enter" /\ pc' \in {"enter", "idle"} /\ UNCHANGED <<ram, flash, version>>
    BY <1>1 DEF GenIdFull, GenIdNone, GenId, Return
  <2>2. UsedIds' = UsedIds /\ Autosave' = Autosave /\ req'.op = "add"
    BY <1>1, <2>1 DEF GenIdFull, GenIdNone, GenId, Return, UsedIds, Used, Autosave, TypeOK,
                      Request
  <2>3. QED
    BY <2>1, <2>2 DEF Stored
<1>2. CASE AddFace
  <2>1. /\ pc = "enter" /\ req' = req /\ req.op = "add" /\ UNCHANGED <<flash, version>>
        /\ pc' = IF Autosave THEN "addFile" ELSE "idle"
    BY <1>2 DEF AddFace, Return, Continue
  <2>2. req.id \in Slots /\ mapping'[req.id] = {"Used"}
    BY <1>2 DEF AddFace, TypeOK, Request
  <2>3. \A id \in UsedIds' : id # req.id =>
          id \in UsedIds /\ mapping'[id] = mapping[id] /\ entry'[id] = entry[id]
    BY <1>2, <2>2 DEF AddFace, TypeOK, UsedIds, Used
  <2>4. ~Stored(mapping', req.id) /\ Autosave' = Autosave
    BY <2>1, <2>2 DEF Stored, InFlash, Autosave
  <2>5. FileHolds' /\ Listed'
    BY <2>1, <2>2, <2>3, <2>4 DEF Stored
  <2>6. SavesAtOnce'
    BY <2>1, <2>3, <2>4 DEF Stored
  <2>7. QED
    BY <2>1, <2>5, <2>6
<1>3. CASE AddFile
  <2>1. req.id \in UsedIds /\ SaveFile(req.id) /\ pc = "addFile" /\ pc' = "meta"
    BY <1>3 DEF AddFile, SaveFileFails, WritesSucceed, Continue, FaceInv, PointOfCall,
                SavesUsed, UsedIds
  <2>2. req' = req /\ req.op = "add" /\ Autosave' = Autosave
    BY <1>3, <2>1 DEF AddFile, SaveFileFails, WritesSucceed, Continue, FaceInv,
                      PointOfCall, SaveFile, Autosave
  <2>3. /\ UsedIds' = UsedIds
        /\ \A x \in UsedIds : "Saved" \in mapping'[x] => file'[x] = entry'[x]
        /\ "Saved" \in mapping'[req.id]
        /\ \A x \in UsedIds : x # req.id => mapping'[x] = mapping[x]
    BY <2>1, SavedFile
  <2>4. SavesAtOnce'
    BY <2>1, <2>2, <2>3 DEF Stored, InFlash
  <2>5. QED
    BY <2>1, <2>2, <2>3, <2>4
<1>4. QED
  BY <1>1, <1>2, <1>3

(* The steps of an update. *)
LEMMA SavedUpdate ==
  ASSUME TypeOK, FaceInv, SavedInv, WritesSucceed, UpdateUnused \/ Update \/ UpdateFile
  PROVE  SavedInv'
<1> USE DEF SavedInv, NothingInUse, OutOfUse, FileHolds, Listed, SavesAtOnce, SavedSoFar, Writing,
            Booting, ram, flash, Entering, Returned
<1>1. CASE UpdateUnused
  <2>1. /\ pc = "enter" /\ pc' = "idle" /\ UNCHANGED <<ram, flash, version>>
        /\ req' = req /\ req.op = "update"
    BY <1>1 DEF UpdateUnused, Return
  <2>2. QED
    BY <2>1 DEF Stored, UsedIds, Used, Autosave
<1>2. CASE Update
  <2>1. /\ pc = "enter" /\ req' = req /\ req.op = "update" /\ UNCHANGED <<flash, version>>
        /\ pc' = IF Autosave THEN "updateFile" ELSE "idle"
    BY <1>2 DEF Update, Return, Continue
  <2>2. req.id \in Slots /\ Used(req.id)
    BY <1>2, <2>1 DEF Update, FaceInv, Given
  <2>3. \A id \in Slots : id # req.id => mapping'[id] = mapping[id] /\ entry'[id] = entry[id]
    BY <1>2, <2>2 DEF Update, TypeOK
  <2>4. /\ Used(req.id)'
        /\ Autosave => mapping' = mapping
        /\ ~Autosave => "Saved" \notin mapping'[req.id]
        /\ Stored(mapping', req.id) <=> Stored(mapping, req.id)
    <3>1. CASE Autosave
      BY <1>2, <2>1, <2>2, <3>1 DEF Update, Used, Stored
    <3>2. CASE ~Autosave /\ "Saved" \in mapping[req.id]
      <4>1. mapping'[req.id] = (mapping[req.id] \ {"Saved"}) \cup {"Updated"}
        BY <1>2, <2>2, <3>2 DEF Update, TypeOK
      <4>2. QED
        BY <2>1, <2>2, <3>2, <4>1 DEF Used, Stored, InFlash
    <3>3. CASE ~Autosave /\ "Saved" \notin mapping[req.id]
      BY <1>2, <2>1, <2>2, <3>3 DEF Update, Used, Stored
    <3>4. QED
      BY <3>1, <3>2, <3>3
  <2>5. UsedIds' = UsedIds /\ Autosave' = Autosave
    BY <2>1, <2>2, <2>3, <2>4 DEF UsedIds, Used, Autosave
  <2>6. \A id \in UsedIds : Stored(mapping', id) <=> Stored(mapping, id)
    BY <2>3, <2>4 DEF UsedIds, Stored
  <2>7. FileHolds'
    BY <2>1, <2>3, <2>4, <2>5 DEF UsedIds
  <2>8. Listed' /\ SavesAtOnce'
    BY <2>1, <2>5, <2>6
  <2>9. QED
    BY <2>1, <2>7, <2>8
<1>3. CASE UpdateFile
  <2>1. /\ req.id \in UsedIds /\ SaveFile(req.id) /\ pc = "updateFile" /\ pc' = "idle"
        /\ req' = req /\ req.op = "update"
    BY <1>3 DEF UpdateFile, SaveFileFails, WritesSucceed, Return, FaceInv, PointOfCall,
                Given, SavesUsed, UsedIds
  <2>2. Autosave /\ Autosave' /\ meta' = meta
    BY <2>1 DEF SaveFile, Autosave
  <2>3. /\ UsedIds' = UsedIds
        /\ \A x \in UsedIds : "Saved" \in mapping'[x] => file'[x] = entry'[x]
        /\ "Saved" \in mapping'[req.id]
        /\ \A x \in UsedIds : x # req.id => mapping'[x] = mapping[x]
    BY <2>1, SavedFile
  <2>4. \A x \in UsedIds : Stored(mapping, x) /\ meta # NoMeta /\ Stored(meta.mapping, x)
    BY <2>1, <2>2
  <2>5. \A x \in UsedIds : Stored(mapping', x)
    BY <2>3, <2>4 DEF Stored, InFlash
  <2>6. QED
    BY <2>1, <2>2, <2>3, <2>4, <2>5
<1>4. QED
  BY <1>1, <1>2, <1>3

(* A slot that is dropped is no longer in use; the others stay as they are.*)
LEMMA SavedDropped ==
  ASSUME SavedInv, NEW id,
         \A x \in UsedIds' : x \in UsedIds /\ mapping'[x] = mapping[x]
                             /\ entry'[x] = entry[x] /\ file'[x] = file[x],
         meta' = meta, version' = version, req' = req, req.op # "save",
         ~Writing, pc \notin {"addFile", "updateFile"},
         pc' \notin Booting, pc' = "deleteFile" => ~Used(req.id)',
         pc' \notin {"addFile", "updateFile", "saveAll"}
  PROVE  SavedInv'
BY DEF SavedInv, NothingInUse, OutOfUse, FileHolds, Listed, SavesAtOnce, SavedSoFar, Writing,
       Returned, Stored, Autosave

(* The steps of the removals. *)
LEMMA SavedDelete ==
  ASSUME TypeOK, FaceInv, SavedInv,
         \/ DeleteUnused \/ Delete \/ DeleteFile \/ DeleteFileFails \/ DeleteAll
         \/ DeleteAllRamOnly \/ DeleteAllFile \/ DeleteAllFileFails \/ DeleteAllDone
  PROVE  SavedInv'
<1> USE DEF Writing, Booting, ram, flash, Entering, Return, Continue
<1>1. /\ pc \in {"enter", "deleteFile", "deleteAll"}
      /\ pc' \in {"idle", "deleteFile", "deleteAll", "meta"}
      /\ req' = req /\ req.op # "save" /\ meta' = meta /\ version' = version
  BY DEF DeleteUnused, Delete, DeleteFile, DeleteFileFails, DeleteAll, DeleteAllRamOnly,
         DeleteAllFile, DeleteAllFileFails, DeleteAllDone, FaceInv, PointOfCall
<1>2. \A x \in UsedIds' : x \in UsedIds /\ mapping'[x] = mapping[x]
                          /\ entry'[x] = entry[x] /\ file'[x] = file[x]
  <2>1. CASE DeleteUnused \/ DeleteFileFails \/ DeleteAll
    BY <2>1 DEF DeleteUnused, DeleteFileFails, DeleteAll, UsedIds, Used
  <2>2. CASE Delete
    BY <2>2 DEF Delete, DropFromRam, UsedIds, Used, TypeOK
  <2>3. CASE DeleteFile
    BY <2>3 DEF DeleteFile, SavedInv, OutOfUse, UsedIds, Used, TypeOK, InFlash
  <2>4. CASE DeleteAllRamOnly \/ DeleteAllFile \/ DeleteAllFileFails
    <3>1. Least(loop.todo) \in Slots
      BY <2>4, LeastIn DEF DeleteAllRamOnly, DeleteAllFile, DeleteAllFileFails, TypeOK, Loop
    <3>2. CASE DeleteAllRamOnly
      BY <3>1, <3>2 DEF DeleteAllRamOnly, DropFromRam, UsedIds, Used, TypeOK
    <3>3. CASE DeleteAllFile
      BY <3>1, <3>3 DEF DeleteAllFile, DropFromRam, UsedIds, Used, TypeOK
    <3>4. CASE DeleteAllFileFails
      BY <3>1, <3>4 DEF DeleteAllFileFails, DropFromRam, UsedIds, Used, TypeOK
    <3>5. QED
      BY <2>4, <3>2, <3>3, <3>4
  <2>5. CASE DeleteAllDone
    BY <2>5 DEF DeleteAllDone, Cleared, UsedIds, Used
  <2>6. QED
    BY <2>1, <2>2, <2>3, <2>4, <2>5
<1>3. pc' = "deleteFile" => ~Used(req.id)'
  <2>1. CASE Delete
    BY <1>1, <2>1 DEF Delete, Used, TypeOK, FaceInv, Given
  <2>2. CASE ~Delete
    BY <1>1, <2>2 DEF DeleteUnused, DeleteFile, DeleteFileFails, DeleteAll,
       DeleteAllRamOnly, DeleteAllFile, DeleteAllFileFails, DeleteAllDone
  <2>3. QED
    BY <2>1, <2>2
<1>4. QED
  BY <1>1, <1>2, <1>3, SavedDropped

(* The save of all faces. *)
LEMMA SavedSave ==
  ASSUME TypeOK, FaceInv, SavedInv, WritesSucceed, Save \/ SaveNext \/ SaveDone
  PROVE  SavedInv'
<1> USE DEF SavedInv, NothingInUse, OutOfUse, FileHolds, Listed, SavesAtOnce, SavedSoFar, Writing,
            Booting, ram, flash, Entering, Returned
<1>1. CASE Save
  <2>1. /\ pc = "enter" /\ pc' = "saveAll" /\ UNCHANGED <<ram, flash, version>>
        /\ loop' = [NoLoop EXCEPT !.todo = {id \in UsedIds : "Saved" \notin mapping[id]}]
    BY <1>1 DEF Save, Continue
  <2>2. loop'.last = "Success" /\ loop'.todo = {id \in UsedIds : "Saved" \notin mapping[id]}
    BY <2>1 DEF NoLoop
  <2>3. QED
    BY <2>1, <2>2 DEF UsedIds, Used, Autosave, Stored
<1>2. CASE SaveNext
  <2> DEFINE id == Least(loop.todo)
  <2>1. /\ id \in UsedIds /\ SaveFile(id) /\ pc = "saveAll" /\ pc' = pc /\ req' = req
        /\ loop' = [todo |-> loop.todo \ {id}, last |-> "Success", dirty |-> TRUE]
    BY <1>2, LeastIn DEF SaveNext, SaveFileFails, WritesSucceed, FaceInv, SavesUsed, UsedIds
  <2>2. loop'.todo = loop.todo \ {id} /\ loop'.last = "Success" /\ loop'.dirty
    BY <2>1
  <2>3. /\ UsedIds' = UsedIds
        /\ \A x \in UsedIds : "Saved" \in mapping'[x] => file'[x] = entry'[x]
        /\ "Saved" \in mapping'[id]
        /\ \A x \in UsedIds : x # id => mapping'[x] = mapping[x]
    BY <2>1, SavedFile
  <2>4. SavesAtOnce'
    BY <2>1, <2>3 DEF Stored, InFlash, SaveFile, Autosave
  <2>5. SavedSoFar'
    BY <2>1, <2>2, <2>3
  <2>6. NothingInUse' /\ OutOfUse' /\ FileHolds' /\ Listed'
    BY <2>1, <2>2, <2>3
  <2>7. QED
    BY <2>4, <2>5, <2>6
<1>3. CASE SaveDone
  <2>1. /\ pc = "saveAll" /\ loop.todo = {} /\ req' = req
        /\ UNCHANGED <<ram, flash, version>>
        /\ pc' = IF loop.dirty THEN "meta" ELSE "idle"
    BY <1>3 DEF SaveDone, Continue
  <2>2. \A id \in UsedIds : "Saved" \in mapping[id]
    BY <2>1
  <2>3. UsedIds' = UsedIds /\ Autosave' = Autosave
    BY <2>1 DEF UsedIds, Used, Autosave
  <2>4. QED
    BY <2>1, <2>2, <2>3 DEF Stored
<1>4. QED
  BY <1>1, <1>2, <1>3

(* The metadata gets the flags of every slot. *)
LEMMA SavedMeta ==
  ASSUME TypeOK, SavedInv, WriteMeta
  PROVE  SavedInv'
<1>1. pc = "meta" /\ pc' = "idle" /\ req' = req /\ UNCHANGED <<ram, file, version>>
  BY DEF WriteMeta
<1>2. meta' # NoMeta /\ \A id \in Slots : Stored(mapping, id) => Stored(meta'.mapping, id)
  <2>1. meta' # NoMeta
    BY SnapshotType, NoMetaIsNone DEF WriteMeta
  <2>2. QED
    BY <2>1 DEF WriteMeta, MetaSnapshot, Stored, InFlash
<1>3. QED
  BY <1>1, <1>2 DEF SavedInv, NothingInUse, OutOfUse, FileHolds, Listed, SavesAtOnce, SavedSoFar,
                    Writing, Booting, ram, UsedIds, Used, Autosave, Returned, Stored

(* Every step keeps what is known of the saved faces. *)
LEMMA SavedStep ==
  ASSUME WritesSucceed
  PROVE  TypeOK /\ FaceInv /\ SavedInv /\ [Next]_vars => SavedInv'
<1> SUFFICES ASSUME TypeOK, FaceInv, SavedInv, [Next]_vars PROVE SavedInv'
  OBVIOUS
<1>1. CASE Boot
  BY <1>1, SavedBoot
<1>2. CASE Calls
  BY <1>2, SavedCalls
<1>3. CASE Step
  BY <1>3, SavedAdd, SavedUpdate, SavedDelete, SavedSave, SavedMeta DEF Step
<1>4. CASE PowerLoss
  BY <1>4 DEF PowerLoss, Cleared, NoReq, SavedInv, NothingInUse, OutOfUse, FileHolds, Listed,
              SavesAtOnce, SavedSoFar, Booting, UsedIds, Used, Returned
<1>5. CASE UNCHANGED vars
  BY <1>5 DEF vars, SavedInv, NothingInUse, OutOfUse, FileHolds, Listed, SavesAtOnce, SavedSoFar,
              Writing, UsedIds, Used, Autosave, Returned, Stored
<1>6. QED
  BY <1>1, <1>2, <1>3, <1>4, <1>5 DEF Next

(* What HAL_Facedb_GetSaveStatus reports as saved between two calls, and   *)
(* what HAL_Facedb_SaveFace has saved, a reboot brings back: for every     *)
(* mix of firmwares with and without AUTOSAVE, with power lost anywhere    *)
(* and removals and reads that fail, as long as writes succeed.            *)
THEOREM SavedIsInFlash ==
  ASSUME WritesSucceed
  PROVE  Spec => []SavedIsStored
<1>1. Init => SavedInv
  BY DEF Init, NoReq, SavedInv, NothingInUse, OutOfUse, FileHolds, Listed, SavesAtOnce, SavedSoFar,
         UsedIds, Used, Returned
<1>2. SavedInv => SavedIsStored
  <2> SUFFICES ASSUME SavedInv, pc = "idle" PROVE SavedMeansStored /\ SaveIsDurable
    BY DEF SavedIsStored, SavedMeansStored, SaveIsDurable, Returned
  <2>1. ASSUME NEW id \in UsedIds, "Saved" \in mapping[id]
        PROVE  StoredFaces[id] = entry[id]
    BY <2>1, SavedIsStoredFlag DEF SavedInv, FileHolds, Listed, Writing, StoredFaces,
       StoredIds, UsedIds
  <2>2. QED
    BY <2>1 DEF SavedMeansStored, SaveIsDurable, SavedInv, SavedSoFar
<1>3. QED
  BY <1>1, <1>2, SavedStep, FaceInvariant, TypeCorrect, PTL DEF Spec
=============================================================================
