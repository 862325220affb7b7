-------------------------- MODULE ConfigStore_proofs --------------------------
(***************************************************************************)
(* Proofs about ConfigStore, for every number of tasks and settings, every *)
(* range of values, every sequence of firmwares and every choice of        *)
(* failing flash operations.                                               *)
(***************************************************************************)
EXTENDS ConfigStore, TLAPS

(* Each point of a call has its request, and the holder of the file        *)
(* system's lock is the task that copies.                                  *)
Requested == \A t \in Tasks : pc[t] # "idle" => req[t] \in Request
Holds     == \A t \in Tasks : pc[t] = "copy" <=> holder = t

(* The tasks do nothing before the store is open. *)
BootAlone == boot # "up" => \A t \in Tasks : pc[t] = "idle"

(* A version in the metadata, in RAM or in flash, means that there is a    *)
(* file of that version.                                                   *)
Backed ==
  /\ \A name \in Files : metadata[name] # 0 => file[name] # NoFile
  /\ meta # NoFile => \A name \in Files : meta[name] # 0 => file[name] # NoFile

Current(name) == file[name] = Restricted(name)

(* What the boot has read or written so far. *)
BootKnows ==
  /\ boot \in {"mkdir", "loadMeta", "saveFwk", "createMeta", "saveMeta", "loadFwk",
               "loadApp"} => appVersion = 0
  /\ boot = "loadFwk" => metadata["fwk"] # 0
  /\ boot = "saveAppMeta" => file["app"] # NoFile
  /\ boot \in {"createMeta", "saveMeta", "loadApp", "initApp", "saveAppMeta"}
       => "fwk" \in unsaved \/ Current("fwk")
  /\ boot = "saveAppMeta" \/ (boot = "initApp" /\ appVersion # 0)
       => "app" \in unsaved \/ Current("app")

(* A setting that was changed after it had been copied has a task of its   *)
(* file behind the lock, which will copy it again.                         *)
Saver(name) == \E u \in Tasks : pc[u] = "save" /\ Name(u) = name
CopyCurrent ==
  \A t \in Tasks : pc[t] = "copy" =>
    /\ Copied \subseteq In(Name(t))
    /\ \A f \in Copied : buffer[f] = config[f] \/ Saver(Name(t))

Safe == Requested /\ Holds /\ BootAlone /\ Backed /\ BootKnows /\ CopyCurrent
        /\ FileIsCurrent

(* A boot that has not failed so far has seen no failure. *)
SoundBoot == (~spoiled => status) /\ FailsUnformattedOnly

SafeInv == Safe /\ SoundBoot

-----------------------------------------------------------------------------
(* Every setting is in exactly one file. *)
LEMMA FilesSplit ==
  /\ \A f \in Fields : FileOf[f] \in Files /\ f \in In(FileOf[f])
  /\ \A name \in Files : \A f \in In(name) : f \in Fields /\ FileOf[f] = name
BY FieldsAssumption DEF Fields, Files, FileOf, In

(* The settings of a file, in RAM and as the firmware has them. *)
LEMMA ContentsTypes ==
  ASSUME NEW name \in Files, TypeOK
  PROVE  /\ Restricted(name) \in [In(name) -> Values]
         /\ [f \in In(name) |-> Default[f]] \in [In(name) -> Values]
         /\ WithDefaults(config, name) \in [Fields -> Values]
         /\ Loaded(name, FALSE) \in [Fields -> Values]
         /\ file[name] # NoFile => Loaded(name, TRUE) \in [Fields -> Values]
<1>1. In(name) \subseteq Fields
  BY FilesSplit
<1>2. config \in [Fields -> Values] /\ file[name] \in [In(name) -> Values] \cup {NoFile}
  BY DEF TypeOK
<1> QED
  BY <1>1, <1>2, ValuesAssumption DEF Restricted, WithDefaults, Loaded

(* A flash operation succeeds or fails. *)
LEMMA OutcomeIsBoolean == \A kind : Outcomes(kind) \subseteq BOOLEAN
BY DEF Outcomes

-----------------------------------------------------------------------------
(* Every step keeps the types. *)
LEMMA TypeInit == Init => TypeOK
<1> SUFFICES ASSUME Init PROVE TypeOK
  OBVIOUS
<1>1. config \in [Fields -> Values]
  BY ValuesAssumption DEF Init, Fields
<1>2. metadata \in Meta /\ appVersion \in 0 .. MaxVersion
  BY VersionAssumption DEF Init, NoVersion, Meta
<1>3. buffer = [f \in Copied |-> buffer[f]] /\ Copied = {}
  BY DEF Init, NothingRead, Copied
<1> QED
  BY <1>1, <1>2, <1>3 DEF Init, TypeOK, Files

(* The steps of a boot keep the types. *)
LEMMA TypeBoot ==
  ASSUME TypeOK, Backed, BootKnows, Boot
  PROVE  TypeOK'
<1> USE DEF ram, flash, task, ghost
<1>0. /\ 0 \in 0 .. MaxVersion
      /\ \A name \in Files : version[name] \in 0 .. MaxVersion /\ version[name] # 0
      /\ {"fwk", "app"} \subseteq Files
  BY VersionAssumption DEF TypeOK, Files
<1>1. CASE MakeDir
  BY <1>1, OutcomeIsBoolean DEF MakeDir, TypeOK, Copied
<1>2. CASE LoadMeta
  BY <1>0, <1>2, OutcomeIsBoolean DEF LoadMeta, NotedMeta, TypeOK, NoVersion, Meta, Copied
<1>3. CASE SaveFwk
  <2>1. PICK ok \in BOOLEAN :
          /\ file' = IF ok THEN [file EXCEPT !["fwk"] = Restricted("fwk")] ELSE file
          /\ metadata' = IF ok THEN [metadata EXCEPT !.fwk = version.fwk] ELSE metadata
          /\ boot' = IF ~ok THEN "loadApp"
                     ELSE IF meta = NoFile THEN "createMeta" ELSE "saveMeta"
          /\ status' = ok
          /\ Noted("fwk", ok)
    BY <1>3, OutcomeIsBoolean DEF SaveFwk
  <2>2. metadata' \in Meta
    BY <1>0, <2>1 DEF TypeOK, Meta
  <2>3. /\ \A name \in Files : file'[name] \in [In(name) -> Values] \cup {NoFile}
        /\ file' = [name \in Files |-> file'[name]]
    BY <1>0, <2>1, ContentsTypes DEF TypeOK
  <2>4. unsaved' \subseteq Files /\ spoiled' \in BOOLEAN
    BY <1>0, <2>1 DEF TypeOK, Noted
  <2> QED
    BY <1>3, <2>1, <2>2, <2>3, <2>4 DEF SaveFwk, TypeOK, Copied
<1>4. CASE CreateMeta
  BY <1>0, <1>4 DEF CreateMeta, TypeOK, NoVersion, Meta, Copied
<1>5. CASE SaveMeta
  BY <1>5, OutcomeIsBoolean DEF SaveMeta, NotedMeta, TypeOK, Copied
<1>6. CASE LoadFwk
  <2>1. file["fwk"] # NoFile
    BY <1>0, <1>6 DEF LoadFwk, BootKnows, Backed
  <2>2. PICK ok \in BOOLEAN :
          config' = Loaded("fwk", ok) /\ status' = ok /\ Noted("fwk", ok)
    BY <1>6, OutcomeIsBoolean DEF LoadFwk
  <2>3. config' \in [Fields -> Values]
    BY <1>0, <2>1, <2>2, ContentsTypes
  <2> QED
    BY <1>0, <1>6, <2>2, <2>3 DEF LoadFwk, Noted, TypeOK, Copied
<1>7. CASE LoadApp
  <2>1. file["app"] # NoFile
    BY <1>0, <1>7 DEF LoadApp, Backed
  <2>2. PICK ok \in BOOLEAN :
          /\ config' = Loaded("app", ok) /\ status' = ok /\ Noted("app", ok)
          /\ boot' = IF ok THEN "initApp" ELSE "failed"
    BY <1>7, OutcomeIsBoolean DEF LoadApp
  <2>3. config' \in [Fields -> Values] /\ appVersion' \in 0 .. MaxVersion
    BY <1>0, <1>7, <2>1, <2>2, ContentsTypes DEF LoadApp, TypeOK, Meta
  <2> QED
    BY <1>0, <1>7, <2>2, <2>3 DEF LoadApp, Noted, TypeOK, Copied
<1>8. CASE NoAppYet \/ AppIsCurrent
  BY <1>8 DEF NoAppYet, AppIsCurrent, TypeOK, Copied
<1>9. CASE SetAppData
  <2>1. PICK ok \in BOOLEAN :
          /\ file' = IF ok THEN [file EXCEPT !["app"] = [f \in AppFields |-> Default[f]]]
                     ELSE file
          /\ boot' = IF ok THEN "saveAppMeta" ELSE "up"
          /\ Noted("app", ok)
    BY <1>9, OutcomeIsBoolean DEF SetAppData
  <2>2. config' \in [Fields -> Values] /\ appVersion' \in 0 .. MaxVersion
    BY <1>0, <1>9, ContentsTypes DEF SetAppData
  <2>3. In("app") = AppFields
    BY DEF In
  <2>4. /\ \A name \in Files : file'[name] \in [In(name) -> Values] \cup {NoFile}
        /\ file' = [name \in Files |-> file'[name]]
    BY <1>0, <2>1, <2>3, ContentsTypes DEF TypeOK
  <2> QED
    BY <1>0, <1>9, <2>1, <2>2, <2>4 DEF SetAppData, Noted, TypeOK, Copied
<1>10. CASE SaveAppMeta
  <2>1. metadata' \in Meta
    BY <1>0, <1>10 DEF SaveAppMeta, TypeOK, Meta
  <2> QED
    BY <1>10, <2>1, OutcomeIsBoolean DEF SaveAppMeta, NotedMeta, TypeOK, Copied
<1> QED
  BY <1>1, <1>2, <1>3, <1>4, <1>5, <1>6, <1>7, <1>8, <1>9, <1>10 DEF Boot

(* A power loss keeps the types. *)
LEMMA TypePowerLoss == TypeOK /\ PowerLoss => TypeOK'
<1> SUFFICES ASSUME TypeOK, PowerLoss PROVE TypeOK'
  OBVIOUS
<1>1. config' \in [Fields -> Values]
  BY ValuesAssumption DEF PowerLoss, PowerOn, Fields
<1>2. metadata' \in Meta /\ appVersion' \in 0 .. MaxVersion
  BY VersionAssumption DEF PowerLoss, PowerOn, NoVersion, Meta
<1>3. buffer' = [f \in Copied' |-> buffer'[f]] /\ Copied' = {}
  BY DEF PowerLoss, PowerOn, NothingRead, Copied
<1> QED
  BY <1>1, <1>2, <1>3 DEF PowerLoss, PowerOn, TypeOK, flash

(* The steps of a task keep the types. *)
LEMMA TypeTask ==
  ASSUME TypeOK, Requested, CopyCurrent, NEW t \in Tasks,
         Call(t) \/ Refuse(t) \/ Repeat(t) \/ Assign(t)
           \/ Lock(t) \/ Copy(t) \/ Close(t) \/ Answer(t)
  PROVE  TypeOK'
<1> USE DEF ram, flash, ghost, Step
<1>1. CASE Call(t)
  <2>1. \A f \in Sets[t] : f \in Fields
    BY FieldsAssumption
  <2> QED
    BY <1>1, <2>1 DEF Call, TypeOK, Request, Copied
<1>2. CASE Refuse(t)
  BY <1>2 DEF Refuse, TypeOK, Copied
<1>3. CASE Repeat(t)
  BY <1>3 DEF Repeat, TypeOK, Copied
<1>4. CASE Assign(t)
  <2>1. req[t] \in Request
    BY <1>4 DEF Assign, Requested
  <2>2. config' \in [Fields -> Values]
    BY <1>4, <2>1 DEF Assign, TypeOK, Request
  <2> QED
    BY <1>4, <2>2 DEF Assign, TypeOK, Copied
<1>5. CASE Lock(t)
  BY <1>5 DEF Lock, TypeOK, NothingRead, Copied
<1>6. CASE Copy(t)
  <2>1. PICK f \in In(Name(t)) :
          buffer' = [g \in Copied \cup {f} |-> IF g = f THEN config[f] ELSE buffer[g]]
    BY <1>6 DEF Copy
  <2>2. f \in Fields
    BY <1>6, FilesSplit DEF Copy, Requested, Name, Request
  <2>3. /\ Copied' = Copied \cup {f}
        /\ \A g \in Copied' : buffer'[g] = IF g = f THEN config[f] ELSE buffer[g]
        /\ buffer' = [g \in Copied' |-> buffer'[g]]
    BY <2>1 DEF Copied
  <2> QED
    BY <1>6, <2>2, <2>3 DEF Copy, TypeOK
<1>7. CASE Close(t)
  <2>1. Name(t) \in Files
    BY <1>7, FilesSplit DEF Close, Requested, Name, Request
  <2>2. buffer \in [In(Name(t)) -> Values]
    BY <1>7 DEF Close, TypeOK, Copied
  <2>3. PICK ok \in BOOLEAN :
          /\ file' = IF ok THEN [file EXCEPT ![Name(t)] = buffer] ELSE file
          /\ Noted(Name(t), ok)
    BY <1>7, OutcomeIsBoolean DEF Close
  <2>4. /\ \A name \in Files : file'[name] \in [In(name) -> Values] \cup {NoFile}
        /\ file' = [name \in Files |-> file'[name]]
    BY <2>1, <2>2, <2>3 DEF TypeOK
  <2>5. unsaved' \subseteq Files /\ spoiled' \in BOOLEAN
    BY <2>1, <2>3 DEF Noted, TypeOK
  <2> QED
    BY <1>7, <2>4, <2>5 DEF Close, TypeOK, NothingRead, Copied
<1>8. CASE Answer(t)
  BY <1>8 DEF Answer, TypeOK, Copied
<1> QED
  BY <1>1, <1>2, <1>3, <1>4, <1>5, <1>6, <1>7, <1>8

-----------------------------------------------------------------------------
(* Every step keeps the rest of the invariant. *)
LEMMA SafeInit == Init => SafeInv
<1> SUFFICES ASSUME Init PROVE SafeInv
  OBVIOUS
<1>1. Holds
  BY SentinelAssumption DEF Init, Holds
<1>2. Backed
  BY DEF Init, Backed, NoVersion, Files
<1> QED
  BY <1>1, <1>2 DEF Init, SafeInv, Safe, SoundBoot, Requested, BootAlone, BootKnows,
     CopyCurrent, FileIsCurrent, FailsUnformattedOnly

(* Power may go at any point. *)
LEMMA SafePowerLoss == TypeOK /\ SafeInv /\ PowerLoss => SafeInv'
<1> SUFFICES ASSUME TypeOK, SafeInv, PowerLoss PROVE SafeInv'
  OBVIOUS
<1> USE DEF flash
<1>1. Holds'
  BY SentinelAssumption DEF PowerLoss, PowerOn, Holds
<1>2. Backed'
  BY DEF SafeInv, Safe, PowerLoss, PowerOn, Backed, NoVersion, Files
<1> QED
  BY <1>1, <1>2 DEF PowerLoss, PowerOn, SafeInv, Safe, SoundBoot, Requested, BootAlone,
     BootKnows, CopyCurrent, FileIsCurrent, FailsUnformattedOnly

(* During the boot the tasks have nothing to disturb. *)
LEMMA QuietBoot ==
  ASSUME BootAlone, Requested, Holds, boot # "up", UNCHANGED task
  PROVE  BootAlone' /\ Requested' /\ Holds' /\ CopyCurrent'
BY DEF BootAlone, Requested, Holds, CopyCurrent, task

(* The steps of a boot. *)
LEMMA SafeBoot ==
  ASSUME TypeOK, SafeInv, Boot
  PROVE  SafeInv'
<1> USE DEF ram, flash, task, ghost
<1>0. /\ {"fwk", "app"} \subseteq Files /\ Files = {"fwk", "app"}
      /\ In("fwk") = FwkFields /\ In("app") = AppFields
      /\ version["fwk"] # 0 /\ version["app"] # 0
  BY DEF TypeOK, Files, In
<1>a. NoFile \notin [FwkFields -> Values] /\ NoFile \notin [AppFields -> Values]
  BY SentinelAssumption
<1>b. /\ Restricted("fwk") # NoFile /\ Restricted("app") # NoFile
      /\ [f \in AppFields |-> Default[f]] # NoFile
  BY <1>0, <1>a, ContentsTypes
<1>c. FwkFields \cup AppFields = Fields /\ FwkFields \cap AppFields = {}
  BY FieldsAssumption DEF Fields
<1>1. CASE MakeDir
  <2>1. boot = "mkdir" /\ UNCHANGED task /\ boot' \in {"loadMeta", "saveFwk", "failed"}
    BY <1>1, OutcomeIsBoolean DEF MakeDir
  <2>2. BootAlone' /\ Requested' /\ Holds' /\ CopyCurrent'
    BY <2>1, QuietBoot DEF SafeInv, Safe
  <2>3. Backed' /\ BootKnows' /\ FileIsCurrent'
    BY <1>1, <2>1 DEF MakeDir, SafeInv, Safe, Backed, BootKnows, FileIsCurrent
  <2>4. SoundBoot'
    BY <1>1, OutcomeIsBoolean DEF MakeDir, SafeInv, SoundBoot, FailsUnformattedOnly
  <2> QED
    BY <2>2, <2>3, <2>4 DEF SafeInv, Safe
<1>2. CASE LoadMeta
  <2>1. boot = "loadMeta" /\ UNCHANGED task /\ boot' \in {"loadFwk", "saveFwk", "failed"}
    BY <1>2 DEF LoadMeta
  <2>2. BootAlone' /\ Requested' /\ Holds' /\ CopyCurrent'
    BY <2>1, QuietBoot DEF SafeInv, Safe
  <2>3. PICK ok \in BOOLEAN :
          /\ metadata' = IF ok /\ meta # NoFile THEN meta ELSE NoVersion
          /\ boot' = IF ~ok \/ meta = NoFile THEN "failed"
                     ELSE IF meta.fwk # version.fwk THEN "saveFwk" ELSE "loadFwk"
          /\ NotedMeta(ok)
    BY <1>2, OutcomeIsBoolean DEF LoadMeta
  <2>4. Backed'
    BY <1>0, <1>2, <2>3 DEF LoadMeta, SafeInv, Safe, Backed, NoVersion
  <2>5. BootKnows' /\ FileIsCurrent'
    BY <1>0, <1>2, <2>1, <2>3 DEF LoadMeta, SafeInv, Safe, BootKnows, FileIsCurrent
  <2>6. SoundBoot'
    BY <1>2, <2>3 DEF LoadMeta, NotedMeta, SafeInv, SoundBoot, FailsUnformattedOnly
  <2> QED
    BY <2>2, <2>4, <2>5, <2>6 DEF SafeInv, Safe
<1>3. CASE SaveFwk
  <2>1. boot = "saveFwk" /\ UNCHANGED task
    BY <1>3 DEF SaveFwk
  <2>2. BootAlone' /\ Requested' /\ Holds' /\ CopyCurrent'
    BY <2>1, QuietBoot DEF SafeInv, Safe
  <2>3. PICK ok \in BOOLEAN :
          /\ file' = IF ok THEN [file EXCEPT !["fwk"] = Restricted("fwk")] ELSE file
          /\ metadata' = IF ok THEN [metadata EXCEPT !.fwk = version.fwk] ELSE metadata
          /\ boot' = IF ~ok THEN "loadApp"
                     ELSE IF meta = NoFile THEN "createMeta" ELSE "saveMeta"
          /\ status' = ok
          /\ Noted("fwk", ok)
    BY <1>3, OutcomeIsBoolean DEF SaveFwk
  <2>4. /\ file'["app"] = file["app"]
        /\ file'["fwk"] = IF ok THEN Restricted("fwk") ELSE file["fwk"]
        /\ metadata'["app"] = metadata["app"]
        /\ ~ok => metadata'["fwk"] = metadata["fwk"]
    BY <1>0, <2>3 DEF TypeOK, Meta
  <2>5. Backed'
    BY <1>0, <1>3, <1>b, <2>4 DEF SaveFwk, SafeInv, Safe, Backed
  <2>6. BootKnows'
    <3>1. Restricted("fwk")' = Restricted("fwk")
      BY <1>3 DEF SaveFwk, Restricted
    <3>2. "fwk" \in unsaved' \/ Current("fwk")'
      BY <2>3, <2>4, <3>1 DEF Noted, Current
    <3> QED
      BY <1>3, <2>1, <2>3, <3>2 DEF SaveFwk, SafeInv, Safe, BootKnows
  <2>7. FileIsCurrent' /\ SoundBoot'
    BY <1>3, <2>1, <2>3 DEF SaveFwk, Noted, SafeInv, SoundBoot, FailsUnformattedOnly,
       FileIsCurrent
  <2> QED
    BY <2>2, <2>5, <2>6, <2>7 DEF SafeInv, Safe
<1>4. CASE CreateMeta \/ SaveMeta
  <2>1. /\ boot \in {"createMeta", "saveMeta"} /\ boot' \in {"saveMeta", "loadApp"}
        /\ UNCHANGED <<task, config, metadata, appVersion, dir, file, version, unsaved>>
        /\ meta' \in {meta, metadata, NoVersion}
        /\ ~spoiled' => status'
    <3>1. CASE CreateMeta
      BY <3>1 DEF CreateMeta, SafeInv, SoundBoot
    <3>2. CASE SaveMeta
      <4>1. PICK ok \in BOOLEAN : /\ meta' = IF ok THEN metadata ELSE meta
                                  /\ status' = ok /\ NotedMeta(ok)
        BY <3>2, OutcomeIsBoolean DEF SaveMeta
      <4> QED
        BY <3>2, <4>1 DEF SaveMeta, NotedMeta
    <3> QED
      BY <1>4, <3>1, <3>2
  <2>2. BootAlone' /\ Requested' /\ Holds' /\ CopyCurrent'
    BY <2>1, QuietBoot DEF SafeInv, Safe
  <2>3. Backed'
    BY <1>0, <2>1 DEF SafeInv, Safe, Backed, NoVersion
  <2>4. BootKnows' /\ FileIsCurrent' /\ SoundBoot'
    BY <2>1 DEF SafeInv, Safe, BootKnows, Current, Restricted, FileIsCurrent, SoundBoot,
       FailsUnformattedOnly
  <2> QED
    BY <2>2, <2>3, <2>4 DEF SafeInv, Safe
<1>5. CASE LoadFwk
  <2>1. boot = "loadFwk" /\ boot' = "loadApp" /\ UNCHANGED task
    BY <1>5 DEF LoadFwk
  <2>2. BootAlone' /\ Requested' /\ Holds' /\ CopyCurrent'
    BY <2>1, QuietBoot DEF SafeInv, Safe
  <2>3. PICK ok \in BOOLEAN :
          config' = Loaded("fwk", ok) /\ status' = ok /\ Noted("fwk", ok)
    BY <1>5, OutcomeIsBoolean DEF LoadFwk
  <2>4. file["fwk"] \in [FwkFields -> Values]
    BY <1>0, <1>5 DEF LoadFwk, SafeInv, Safe, BootKnows, Backed, TypeOK
  <2>5. ok => Current("fwk")'
    BY <1>0, <1>5, <1>c, <2>3, <2>4 DEF LoadFwk, Loaded, Current, Restricted
  <2>6. BootKnows'
    BY <1>5, <2>1, <2>3, <2>5 DEF LoadFwk, SafeInv, Safe, BootKnows, Noted
  <2>7. Backed' /\ FileIsCurrent' /\ SoundBoot'
    BY <1>5, <2>1, <2>3 DEF LoadFwk, SafeInv, Safe, Backed, Noted, FileIsCurrent,
       SoundBoot, FailsUnformattedOnly
  <2> QED
    BY <2>2, <2>6, <2>7 DEF SafeInv, Safe
<1>6. CASE LoadApp
  <2>1. boot = "loadApp" /\ boot' \in {"initApp", "failed"} /\ UNCHANGED task
    BY <1>6 DEF LoadApp
  <2>2. BootAlone' /\ Requested' /\ Holds' /\ CopyCurrent'
    BY <2>1, QuietBoot DEF SafeInv, Safe
  <2>3. PICK ok \in BOOLEAN :
          /\ config' = Loaded("app", ok) /\ status' = ok /\ Noted("app", ok)
          /\ boot' = IF ok THEN "initApp" ELSE "failed"
    BY <1>6, OutcomeIsBoolean DEF LoadApp
  <2>4. file["app"] \in [AppFields -> Values]
    BY <1>0, <1>6 DEF LoadApp, SafeInv, Safe, Backed, TypeOK
  <2>5. ok => Current("app")'
    BY <1>0, <1>6, <1>c, <2>3, <2>4 DEF LoadApp, Loaded, Current, Restricted
  <2>6. Restricted("fwk")' = Restricted("fwk")
    BY <1>0, <1>c, <2>3 DEF Loaded, Restricted
  <2>7. BootKnows'
    BY <1>6, <2>1, <2>3, <2>5, <2>6 DEF LoadApp, SafeInv, Safe, BootKnows, Noted, Current
  <2>8. Backed' /\ FileIsCurrent' /\ SoundBoot'
    BY <1>6, <2>1, <2>3 DEF LoadApp, SafeInv, Safe, Backed, Noted, FileIsCurrent,
       SoundBoot, FailsUnformattedOnly
  <2> QED
    BY <2>2, <2>7, <2>8 DEF SafeInv, Safe
<1>7. CASE NoAppYet
  <2>1. boot = "loadApp" /\ boot' \in {"initApp", "failed"} /\ UNCHANGED task
    BY <1>7 DEF NoAppYet
  <2>2. BootAlone' /\ Requested' /\ Holds' /\ CopyCurrent'
    BY <2>1, QuietBoot DEF SafeInv, Safe
  <2> QED
    BY <1>7, <2>1, <2>2 DEF NoAppYet, SafeInv, Safe, Backed, BootKnows, Current, Restricted,
       FileIsCurrent, SoundBoot, FailsUnformattedOnly
<1>8. CASE AppIsCurrent
  <2>1. boot = "initApp" /\ boot' = "up" /\ UNCHANGED task /\ appVersion # 0
    BY <1>0, <1>8 DEF AppIsCurrent
  <2>2. BootAlone' /\ Requested' /\ Holds' /\ CopyCurrent'
    BY <2>1, QuietBoot DEF SafeInv, Safe
  <2>3. FileIsCurrent'
    BY <1>0, <1>8, <2>1 DEF AppIsCurrent, SafeInv, Safe, BootKnows, Current, Restricted,
       FileIsCurrent
  <2> QED
    BY <1>8, <2>1, <2>2, <2>3 DEF AppIsCurrent, SafeInv, Safe, Backed, BootKnows,
       SoundBoot, FailsUnformattedOnly
<1>9. CASE SetAppData
  <2>1. boot = "initApp" /\ boot' \in {"saveAppMeta", "up"} /\ UNCHANGED task
    BY <1>9 DEF SetAppData
  <2>2. BootAlone' /\ Requested' /\ Holds' /\ CopyCurrent'
    BY <2>1, QuietBoot DEF SafeInv, Safe
  <2>3. PICK ok \in BOOLEAN :
          /\ file' = IF ok THEN [file EXCEPT !["app"] = [f \in AppFields |-> Default[f]]]
                     ELSE file
          /\ boot' = IF ok THEN "saveAppMeta" ELSE "up"
          /\ Noted("app", ok)
    BY <1>9, OutcomeIsBoolean DEF SetAppData
  <2>4. /\ file'["fwk"] = file["fwk"]
        /\ file'["app"] = IF ok THEN [f \in AppFields |-> Default[f]] ELSE file["app"]
    BY <1>0, <2>3 DEF TypeOK
  <2>5. /\ Restricted("fwk")' = Restricted("fwk")
        /\ Restricted("app")' = [f \in AppFields |-> Default[f]]
    BY <1>0, <1>9, <1>c DEF SetAppData, WithDefaults, Restricted
  <2>6. /\ "fwk" \in unsaved' \/ Current("fwk")'
        /\ "app" \in unsaved' \/ Current("app")'
    BY <1>9, <2>1, <2>3, <2>4, <2>5 DEF SafeInv, Safe, BootKnows, Noted, Current
  <2>7. Backed'
    BY <1>0, <1>9, <1>b, <2>4 DEF SetAppData, SafeInv, Safe, Backed
  <2>8. BootKnows' /\ FileIsCurrent'
    BY <1>0, <1>b, <2>1, <2>3, <2>4, <2>6 DEF BootKnows, FileIsCurrent, Current
  <2>9. SoundBoot'
    BY <1>9, <2>1, <2>3 DEF SetAppData, Noted, SafeInv, SoundBoot, FailsUnformattedOnly
  <2> QED
    BY <2>2, <2>7, <2>8, <2>9 DEF SafeInv, Safe
<1>10. CASE SaveAppMeta
  <2>1. /\ boot = "saveAppMeta" /\ boot' = "up"
        /\ UNCHANGED <<task, config, file, status, unsaved>>
        /\ metadata' = [metadata EXCEPT !.app = version.app]
        /\ meta' \in {meta, metadata'}
        /\ spoiled => spoiled'
    BY <1>10, OutcomeIsBoolean DEF SaveAppMeta, NotedMeta
  <2>2. BootAlone' /\ Requested' /\ Holds' /\ CopyCurrent'
    BY <2>1, QuietBoot DEF SafeInv, Safe
  <2>3. metadata'["fwk"] = metadata["fwk"] /\ file["app"] # NoFile
    BY <1>10, <2>1 DEF SafeInv, Safe, BootKnows, TypeOK, Meta
  <2>4. Backed'
    BY <1>0, <2>1, <2>3 DEF SafeInv, Safe, Backed
  <2>5. BootKnows' /\ FileIsCurrent' /\ SoundBoot'
    BY <1>0, <2>1 DEF SafeInv, Safe, BootKnows, Current, Restricted, FileIsCurrent,
       SoundBoot, FailsUnformattedOnly
  <2> QED
    BY <2>2, <2>4, <2>5 DEF SafeInv, Safe
<1> QED
  BY <1>1, <1>2, <1>3, <1>4, <1>5, <1>6, <1>7, <1>8, <1>9, <1>10 DEF Boot

(* The calls of the tasks, one lemma for each step that a file, the lock or *)
(* the copied settings depend on.                                          *)
LEMMA SafeAssign ==
  ASSUME TypeOK, SafeInv, NEW t \in Tasks, Assign(t)
  PROVE  SafeInv'
<1> USE DEF flash, ghost, Step
<1>1. /\ boot = "up" /\ boot' = "up" /\ pc[t] = "set" /\ req' = req
      /\ pc' = [pc EXCEPT ![t] = "save"]
      /\ UNCHANGED <<metadata, appVersion, meta, file, status, holder, buffer,
                     unsaved, spoiled>>
      /\ req[t] \in Request
  BY DEF Assign, SafeInv, Safe, Requested
<1>2. /\ pc'[t] = "save" /\ \A u \in Tasks \ {t} : pc'[u] = pc[u]
      /\ \A u \in Tasks : Name(u)' = Name(u)
      /\ Name(t) \in Files /\ req[t].field \in In(Name(t))
  BY <1>1, FilesSplit DEF TypeOK, Name, Request
<1>3. \A f \in Fields : FileOf[f] # Name(t) => config'[f] = config[f]
  BY DEF Assign, TypeOK, Name
<1>4. Requested' /\ Holds' /\ BootAlone'
  BY <1>1, <1>2 DEF SafeInv, Safe, Requested, Holds, BootAlone
<1>5. CopyCurrent'
  <2> SUFFICES ASSUME NEW u \in Tasks, pc'[u] = "copy", NEW f \in Copied,
                      ~Saver(Name(u))'
               PROVE  f \in In(Name(u)) /\ buffer[f] = config'[f]
    BY <1>1, <1>2 DEF CopyCurrent, Copied, SafeInv, Safe
  <2>1. pc[u] = "copy" /\ u # t /\ Name(u) # Name(t) /\ ~Saver(Name(u))
    BY <1>1, <1>2 DEF Saver
  <2>2. f \in In(Name(u)) /\ buffer[f] = config[f]
    BY <2>1 DEF SafeInv, Safe, CopyCurrent
  <2>3. f \in Fields /\ FileOf[f] = Name(u)
    BY <2>1, <2>2, FilesSplit DEF SafeInv, Safe, Requested, Name, Request
  <2> QED
    BY <1>3, <2>1, <2>2, <2>3
<1>6. FileIsCurrent'
  <2> SUFFICES ASSUME NEW name \in Files \ unsaved, Changing(name)' = {}
               PROVE  file[name] = Restricted(name)'
    BY <1>1 DEF FileIsCurrent
  <2>1. name # Name(t) /\ Changing(name) = {}
    BY <1>1, <1>2 DEF Changing
  <2>2. \A f \in In(name) : config'[f] = config[f]
    BY <1>3, <2>1, FilesSplit
  <2> QED
    BY <1>1, <2>1, <2>2 DEF SafeInv, Safe, FileIsCurrent, Restricted
<1> QED
  BY <1>1, <1>4, <1>5, <1>6 DEF SafeInv, Safe, Backed, BootKnows, SoundBoot,
     FailsUnformattedOnly

(* A task takes the lock of the file system, or copies what it will write. *)
LEMMA SafeLockCopy ==
  ASSUME TypeOK, SafeInv, NEW t \in Tasks, Lock(t) \/ Copy(t)
  PROVE  SafeInv'
<1> USE DEF ram, flash, ghost, Step
<1>1. /\ boot = "up" /\ boot' = "up" /\ pc[t] \in {"save", "copy"}
      /\ pc' = [pc EXCEPT ![t] = "copy"] /\ holder' = t
      /\ holder \in {t, Nobody}
      /\ UNCHANGED <<ram, meta, file, status, req, unsaved, spoiled>>
  BY SentinelAssumption DEF Lock, Copy, SafeInv, Safe, Holds, TypeOK
<1>2. /\ pc'[t] = "copy" /\ \A u \in Tasks \ {t} : pc'[u] = pc[u] /\ pc[u] # "copy"
      /\ \A u \in Tasks : Name(u)' = Name(u)
  BY <1>1, SentinelAssumption DEF TypeOK, Name, SafeInv, Safe, Holds
<1>3. Requested' /\ Holds' /\ BootAlone'
  BY <1>1, <1>2 DEF SafeInv, Safe, Requested, Holds, BootAlone
<1>4. CopyCurrent'
  <2>1. CASE Lock(t)
    BY <1>1, <1>2, <2>1 DEF Lock, CopyCurrent, Copied, NothingRead
  <2>2. CASE Copy(t)
    <3>1. PICK f \in In(Name(t)) :
            buffer' = [g \in Copied \cup {f} |-> IF g = f THEN config[f] ELSE buffer[g]]
      BY <2>2 DEF Copy
    <3>2. /\ Copied' = Copied \cup {f}
          /\ \A g \in Copied' : buffer'[g] = IF g = f THEN config[f] ELSE buffer[g]
      BY <3>1 DEF Copied
    <3>3. pc[t] = "copy" /\ pc' = pc
      BY <1>1, <2>2 DEF Copy
    <3>4. Saver(Name(t)) => Saver(Name(t))'
      BY <1>2, <3>3 DEF Saver
    <3>5. /\ Copied \subseteq In(Name(t))
          /\ \A g \in Copied : buffer[g] = config[g] \/ Saver(Name(t))
      BY <3>3 DEF SafeInv, Safe, CopyCurrent
    <3>6. ASSUME NEW u \in Tasks, pc'[u] = "copy"
          PROVE  u = t
      BY <1>2, <3>6
    <3> QED
      BY <1>1, <1>2, <3>2, <3>4, <3>5, <3>6 DEF CopyCurrent
  <2> QED
    BY <2>1, <2>2
<1>5. FileIsCurrent'
  <2>1. \A name : Changing(name)' = Changing(name)
    BY <1>1, <1>2 DEF Changing
  <2> QED
    BY <1>1, <2>1 DEF SafeInv, Safe, FileIsCurrent, Restricted
<1> QED
  BY <1>1, <1>3, <1>4, <1>5 DEF SafeInv, Safe, Backed, BootKnows, SoundBoot,
     FailsUnformattedOnly

(* The write that the lock ends. *)
LEMMA SafeClose ==
  ASSUME TypeOK, SafeInv, NEW t \in Tasks, Close(t)
  PROVE  SafeInv'
<1> USE DEF ram, Step
<1>1. PICK ok \in BOOLEAN :
        /\ file' = IF ok THEN [file EXCEPT ![Name(t)] = buffer] ELSE file
        /\ Noted(Name(t), ok)
  BY OutcomeIsBoolean DEF Close
<1>2. /\ boot = "up" /\ boot' = "up" /\ pc[t] = "copy" /\ holder' = Nobody
      /\ pc' = [pc EXCEPT ![t] = "answer"]
      /\ UNCHANGED <<ram, meta, status, req>>
      /\ Copied = In(Name(t))
      /\ req[t] \in Request
  BY DEF Close, SafeInv, Safe, Requested
<1>3. /\ pc'[t] = "answer" /\ \A u \in Tasks \ {t} : pc'[u] = pc[u] /\ pc[u] # "copy"
      /\ \A u \in Tasks : Name(u)' = Name(u)
      /\ Name(t) \in Files
      /\ buffer \in [In(Name(t)) -> Values]
  BY <1>2, FilesSplit DEF TypeOK, Name, Request, SafeInv, Safe, Holds, Copied
<1>4. Requested' /\ Holds' /\ BootAlone' /\ CopyCurrent'
  BY <1>2, <1>3, SentinelAssumption
  DEF SafeInv, Safe, Requested, Holds, BootAlone, CopyCurrent
<1>5. Backed'
  <2>1. buffer # NoFile
    BY <1>3, SentinelAssumption DEF In
  <2>2. \A name \in Files : file[name] # NoFile => file'[name] # NoFile
    BY <1>1, <2>1 DEF TypeOK
  <2> QED
    BY <1>2, <2>2 DEF SafeInv, Safe, Backed
<1>6. FileIsCurrent'
  <2> SUFFICES ASSUME NEW name \in Files \ unsaved', Changing(name)' = {}
               PROVE  file'[name] = Restricted(name)
    BY <1>2 DEF FileIsCurrent, Restricted
  <2>1. CASE name = Name(t)
    <3>1. ok /\ file'[name] = buffer
      BY <1>1, <1>3, <2>1 DEF Noted, TypeOK
    <3>2. ~Saver(name)
      BY <1>2, <1>3, <2>1 DEF Saver, Changing
    <3>3. \A f \in In(name) : buffer[f] = config[f]
      BY <1>2, <2>1, <3>2 DEF SafeInv, Safe, CopyCurrent
    <3> QED
      BY <1>3, <2>1, <3>1, <3>3 DEF Restricted
  <2>2. CASE name # Name(t)
    <3>1. Changing(name) = {}
      BY <1>2, <1>3, <2>2 DEF Changing
    <3>2. name \notin unsaved /\ file'[name] = file[name]
      BY <1>1, <2>2 DEF Noted, TypeOK
    <3> QED
      BY <1>2, <3>1, <3>2 DEF SafeInv, Safe, FileIsCurrent
  <2> QED
    BY <2>1, <2>2
<1>7. SoundBoot'
  BY <1>1, <1>2 DEF SafeInv, SoundBoot, FailsUnformattedOnly, Noted
<1> QED
  BY <1>2, <1>4, <1>5, <1>6, <1>7 DEF SafeInv, Safe, BootKnows

(* The steps of a task that write nothing. *)
LEMMA SafeOtherSteps ==
  ASSUME TypeOK, SafeInv, NEW t \in Tasks, Call(t) \/ Refuse(t) \/ Repeat(t) \/ Answer(t)
  PROVE  SafeInv'
<1> USE DEF ram, flash, ghost, Step
<1>1. /\ boot = "up" /\ boot' = "up"
      /\ pc[t] \notin {"save", "copy"}
      /\ \E to \in {"set", "idle", "answer"} : pc' = [pc EXCEPT ![t] = to]
      /\ UNCHANGED <<ram, meta, file, status, holder, buffer, unsaved, spoiled>>
  BY DEF Call, Refuse, Repeat, Answer
<1>2. /\ pc'[t] \notin {"save", "copy"} /\ \A u \in Tasks \ {t} : pc'[u] = pc[u]
      /\ \A u \in Tasks \ {t} : req'[u] = req[u]
  BY <1>1 DEF TypeOK, Call, Refuse, Repeat, Answer
<1>3. pc'[t] # "idle" => req'[t] \in Request
  <2>1. CASE Call(t)
    <3>1. PICK f \in Sets[t], v \in Values \cup {Invalid} :
            req' = [req EXCEPT ![t] = [field |-> f, value |-> v]]
      BY <2>1 DEF Call
    <3>2. f \in Fields
      BY FieldsAssumption
    <3> QED
      BY <3>1, <3>2 DEF TypeOK, Request
  <2>2. CASE Refuse(t) \/ Answer(t)
    BY <2>2 DEF Refuse, Answer, TypeOK
  <2>3. CASE Repeat(t)
    BY <2>3 DEF Repeat, SafeInv, Safe, Requested
  <2> QED
    BY <2>1, <2>2, <2>3
<1>4. Requested' /\ Holds' /\ BootAlone'
  BY <1>1, <1>2, <1>3 DEF SafeInv, Safe, Requested, Holds, BootAlone
<1>5. \A u \in Tasks : pc[u] \in {"save", "copy"} => Name(u)' = Name(u)
  BY <1>1, <1>2 DEF Name
<1>6. CopyCurrent'
  BY <1>1, <1>2, <1>5 DEF SafeInv, Safe, CopyCurrent, Copied, Saver
<1>7. FileIsCurrent'
  <2>1. \A name : Changing(name)' = Changing(name)
    BY <1>1, <1>2, <1>5 DEF Changing
  <2> QED
    BY <1>1, <2>1 DEF SafeInv, Safe, FileIsCurrent, Restricted
<1> QED
  BY <1>1, <1>4, <1>6, <1>7 DEF SafeInv, Safe, Backed, BootKnows, SoundBoot,
     FailsUnformattedOnly

-----------------------------------------------------------------------------
(* Every step keeps the types and what the calls and the boot rely on. *)
LEMMA SafeStep == TypeOK /\ SafeInv /\ [Next]_vars => TypeOK' /\ SafeInv'
<1> SUFFICES ASSUME TypeOK, SafeInv, [Next]_vars PROVE TypeOK' /\ SafeInv'
  OBVIOUS
<1>1. CASE Boot
  BY <1>1, TypeBoot, SafeBoot DEF SafeInv, Safe
<1>2. CASE PowerLoss
  BY <1>2, TypePowerLoss, SafePowerLoss
<1>3. ASSUME NEW t \in Tasks,
             Call(t) \/ Refuse(t) \/ Repeat(t) \/ Assign(t)
               \/ Lock(t) \/ Copy(t) \/ Close(t) \/ Answer(t)
      PROVE  TypeOK' /\ SafeInv'
  <2>1. TypeOK'
    BY <1>3, TypeTask DEF SafeInv, Safe
  <2>2. SafeInv'
    BY <1>3, SafeAssign, SafeLockCopy, SafeClose, SafeOtherSteps
  <2> QED
    BY <2>1, <2>2
<1>4. CASE UNCHANGED vars
  <2>1. TypeOK'
    BY <1>4 DEF vars, TypeOK, Copied
  <2>2. SafeInv'
    BY <1>4 DEF vars, SafeInv, Safe, Requested, Holds, BootAlone, Backed, BootKnows,
       Current, Restricted, CopyCurrent, Copied, Saver, Name, FileIsCurrent, Changing,
       SoundBoot, FailsUnformattedOnly
  <2> QED
    BY <2>1, <2>2
<1> QED
  BY <1>1, <1>2, <1>3, <1>4 DEF Next

(* The inductive invariant. *)
LEMMA ConfigInvariant == Spec => [](TypeOK /\ SafeInv)
<1>1. Init => TypeOK /\ SafeInv
  BY TypeInit, SafeInit
<1> QED
  BY <1>1, SafeStep, PTL DEF Spec

(* The store never holds anything but settings that passed their checks. *)
THEOREM ConfigTypes == Spec => []TypeOK
BY ConfigInvariant, PTL

(* Tasks that change and save settings without a lock of their own leave   *)
(* the file as RAM is, whenever no change of that file is under way.       *)
THEOREM ConfigFileIsCurrent == Spec => []FileIsCurrent
<1>1. SafeInv => FileIsCurrent
  BY DEF SafeInv, Safe
<1> QED
  BY <1>1, ConfigInvariant, PTL

(* On a sound flash only a device whose first boot was cut off fails.      *)
THEOREM ConfigFailsUnformattedOnly == Spec => []FailsUnformattedOnly
<1>1. SafeInv => FailsUnformattedOnly
  BY DEF SafeInv, SoundBoot
<1> QED
  BY <1>1, ConfigInvariant, PTL
-----------------------------------------------------------------------------
(***************************************************************************)
(* The store is one durable value per setting, as SettingsStore says, if   *)
(* no firmware is replaced by an earlier one.                              *)
(***************************************************************************)
Field(t)     == req[t].field
Value(t)     == req[t].value
InFile(f)    == file[FileOf[f]][f]
Factory(name) == [f \in In(name) |-> Default[f]]

(* Each task has a request between its call and the answer to it, for one  *)
(* of its own settings.                                                    *)
Own ==
  \A t \in Tasks : /\ pc[t] = "idle" => req[t] = NoReq
                   /\ pc[t] # "idle" => Field(t) \in Sets[t]

(* No file is of a later version than the firmware, and none exists before *)
(* its directory.                                                          *)
NotLater ==
  /\ ~dir => meta = NoFile
  /\ boot \notin {"mkdir", "failed"} => dir
  /\ metadata.fwk <= version.fwk /\ metadata.app <= version.app
  /\ meta # NoFile => meta.fwk <= version.fwk /\ meta.app <= version.app

(* What a boot without failures has read and written so far. *)
BootReads ==
  /\ boot \in {"mkdir", "loadMeta"} => metadata = NoVersion
  /\ boot \in {"mkdir", "loadMeta", "saveFwk"} => Restricted("fwk") = Factory("fwk")
  /\ boot = "saveFwk" =>
       IF meta = NoFile THEN metadata = NoVersion
       ELSE metadata = meta /\ meta.fwk # version.fwk
  /\ boot = "createMeta" => meta = NoFile /\ metadata.app = 0
  /\ boot = "saveMeta" =>
       meta # NoFile /\ meta.app = metadata.app /\ meta.fwk # version.fwk
  /\ boot \in {"createMeta", "saveMeta"} =>
       metadata.fwk = version.fwk /\ file["fwk"] = Factory("fwk")
  /\ boot \in {"loadFwk", "loadApp", "initApp", "saveAppMeta"} =>
       meta = metadata /\ meta # NoFile /\ meta.fwk = version.fwk
  /\ boot = "initApp" => appVersion = meta.app
  /\ boot = "saveAppMeta" => meta.app # version.app /\ file["app"] = Factory("app")
  /\ boot = "up" => meta # NoFile /\ meta.fwk = version.fwk /\ meta.app = version.app

(* A task that has assigned its setting owns its value until it answers.   *)
ValueHolds ==
  \A t \in Tasks :
    /\ pc[t] \in {"save", "copy", "answer"} =>
         Value(t) \in Values /\ config[Field(t)] = Value(t)
    /\ pc[t] = "copy" /\ Field(t) \in Copied => buffer[Field(t)] = Value(t)
    /\ pc[t] = "answer" => InFile(Field(t)) = Value(t)

(* A setting in the file is the one in RAM, or about to be replaced; and a *)
(* copied one is the one or the other.                                     *)
FieldIsCurrent ==
  boot = "up" => \A f \in Fields :
    InFile(f) = config[f] \/ \E u \in Tasks : pc[u] \in {"save", "copy"} /\ Field(u) = f
CopyIsKnown ==
  \A t \in Tasks : pc[t] = "copy" =>
    \A f \in Copied : buffer[f] = config[f] \/ buffer[f] = InFile(f)

Unspoiled == unsaved = {} /\ BootReads /\ ValueHolds /\ FieldIsCurrent /\ CopyIsKnown

(* Every call of a task has a field of the task, and none without a call.  *)
LEMMA OwnStep == TypeOK /\ Own /\ [Next]_vars => Own'
<1> SUFFICES ASSUME TypeOK, Own, [Next]_vars PROVE Own'
  OBVIOUS
<1> USE DEF Own, Field
<1>1. CASE Boot
  BY <1>1 DEF Boot, MakeDir, LoadMeta, SaveFwk, CreateMeta, SaveMeta, LoadFwk, LoadApp,
     NoAppYet, AppIsCurrent, SetAppData, SaveAppMeta, task
<1>2. CASE PowerLoss
  BY <1>2 DEF PowerLoss, PowerOn
<1>3. ASSUME NEW t \in Tasks, Call(t)
      PROVE  Own'
  <2>1. PICK f \in Sets[t], v \in Values \cup {Invalid} :
          req' = [req EXCEPT ![t] = [field |-> f, value |-> v]]
    BY <1>3 DEF Call
  <2>2. /\ req'[t].field = f /\ pc'[t] = "set"
        /\ \A u \in Tasks \ {t} : req'[u] = req[u] /\ pc'[u] = pc[u]
    BY <1>3, <2>1 DEF Call, Step, TypeOK
  <2>3. QED
    BY <2>2
<1>4. ASSUME NEW t \in Tasks, Refuse(t) \/ Answer(t)
      PROVE  Own'
  BY <1>4 DEF Refuse, Answer, Step, TypeOK
<1>5. ASSUME NEW t \in Tasks, Repeat(t) \/ Assign(t) \/ Lock(t) \/ Copy(t) \/ Close(t)
      PROVE  Own'
  BY <1>5 DEF Repeat, Assign, Lock, Copy, Close, Step, TypeOK
<1>6. CASE UNCHANGED vars
  BY <1>6 DEF vars
<1>7. QED
  BY <1>1, <1>2, <1>3, <1>4, <1>5, <1>6 DEF Next

(* Versions grow. *)
LEMMA NotLaterStep ==
  ASSUME ~Rollback, TypeOK, NotLater, [Next]_vars
  PROVE  NotLater'
<1> USE DEF NotLater, ram, flash
<1>0. /\ version.fwk \in 1 .. MaxVersion /\ version.app \in 1 .. MaxVersion
      /\ metadata.fwk \in 0 .. MaxVersion /\ metadata.app \in 0 .. MaxVersion
      /\ MaxVersion \in Nat
  BY VersionAssumption DEF TypeOK, Meta, Files
<1>1. CASE Boot
  <2>1. version' = version
    BY <1>1 DEF Boot, MakeDir, LoadMeta, SaveFwk, CreateMeta, SaveMeta, LoadFwk, LoadApp,
       NoAppYet, AppIsCurrent, SetAppData, SaveAppMeta
  <2>2. CASE MakeDir
    BY <2>1, <2>2, OutcomeIsBoolean DEF MakeDir
  <2>3. CASE LoadMeta
    BY <1>0, <2>1, <2>3, OutcomeIsBoolean DEF LoadMeta, NoVersion
  <2>4. CASE SaveFwk
    BY <1>0, <2>1, <2>4, OutcomeIsBoolean DEF SaveFwk, TypeOK, Meta
  <2>5. CASE CreateMeta \/ LoadFwk \/ LoadApp \/ NoAppYet \/ AppIsCurrent \/ SetAppData
    BY <1>0, <2>1, <2>5 DEF CreateMeta, LoadFwk, LoadApp, NoAppYet, AppIsCurrent,
       SetAppData, NoVersion
  <2>6. CASE SaveMeta
    BY <1>0, <2>1, <2>6, OutcomeIsBoolean DEF SaveMeta, TypeOK
  <2>7. CASE SaveAppMeta
    BY <1>0, <2>1, <2>7, OutcomeIsBoolean DEF SaveAppMeta, TypeOK, Meta
  <2>8. QED
    BY <1>1, <2>2, <2>3, <2>4, <2>5, <2>6, <2>7 DEF Boot
<1>2. CASE PowerLoss
  <2>1. /\ version'.fwk \in 1 .. MaxVersion /\ version'.app \in 1 .. MaxVersion
        /\ version'.fwk >= version.fwk /\ version'.app >= version.app
        /\ metadata' = NoVersion /\ boot' = "mkdir" /\ UNCHANGED <<dir, meta>>
    BY <1>2 DEF PowerLoss, PowerOn, Files
  <2>2. meta # NoFile => meta.fwk \in 0 .. MaxVersion /\ meta.app \in 0 .. MaxVersion
    BY DEF TypeOK, Meta
  <2>3. QED
    BY <1>0, <2>1, <2>2 DEF NoVersion
<1>3. ASSUME NEW t \in Tasks,
             Call(t) \/ Refuse(t) \/ Repeat(t) \/ Assign(t)
               \/ Lock(t) \/ Copy(t) \/ Close(t) \/ Answer(t)
      PROVE  NotLater'
  BY <1>3 DEF Call, Refuse, Repeat, Assign, Lock, Copy, Close, Answer
<1>4. CASE UNCHANGED vars
  BY <1>4 DEF vars
<1>5. QED
  BY <1>1, <1>2, <1>3, <1>4 DEF Next

(* A failure is not forgotten. *)
LEMMA SpoiledStays == TypeOK /\ [Next]_vars /\ ~spoiled' => ~spoiled
<1> SUFFICES ASSUME TypeOK, [Next]_vars, ~spoiled' PROVE ~spoiled
  OBVIOUS
<1> USE DEF ghost, Noted, NotedMeta
<1>1. CASE Boot
  BY <1>1 DEF Boot, MakeDir, LoadMeta, SaveFwk, CreateMeta, SaveMeta, LoadFwk, LoadApp,
     NoAppYet, AppIsCurrent, SetAppData, SaveAppMeta
<1>2. CASE PowerLoss
  BY <1>2 DEF PowerLoss
<1>3. ASSUME NEW t \in Tasks,
             Call(t) \/ Refuse(t) \/ Repeat(t) \/ Assign(t)
               \/ Lock(t) \/ Copy(t) \/ Close(t) \/ Answer(t)
      PROVE  ~spoiled
  BY <1>3 DEF Call, Refuse, Repeat, Assign, Lock, Copy, Close, Answer
<1>4. CASE UNCHANGED vars
  BY <1>4 DEF vars
<1>5. QED
  BY <1>1, <1>2, <1>3, <1>4 DEF Next

(* A boot without failures reads what is there, and writes what it means to. *)
LEMMA UnspoiledBoot ==
  ASSUME TypeOK, SafeInv, NotLater, Unspoiled, Boot, ~spoiled'
  PROVE  Unspoiled'
<1> USE DEF ram, flash, ghost, task
<1>0. /\ version.fwk \in 1 .. MaxVersion /\ version.app \in 1 .. MaxVersion
      /\ metadata \in Meta /\ NoVersion \in Meta
      /\ NoFile \notin Meta /\ MaxVersion \in Nat
  BY VersionAssumption, SentinelAssumption DEF TypeOK, Meta, Files, NoVersion
<1>1. boot # "up" /\ \A t \in Tasks : pc[t] = "idle"
  BY DEF Boot, MakeDir, LoadMeta, SaveFwk, CreateMeta, SaveMeta, LoadFwk, LoadApp,
     NoAppYet, AppIsCurrent, SetAppData, SaveAppMeta, SafeInv, Safe, BootAlone
<1>2. UNCHANGED pc
  BY DEF Boot, MakeDir, LoadMeta, SaveFwk, CreateMeta, SaveMeta, LoadFwk, LoadApp,
     NoAppYet, AppIsCurrent, SetAppData, SaveAppMeta
<1>3. ValueHolds' /\ CopyIsKnown'
  BY <1>1, <1>2 DEF ValueHolds, CopyIsKnown
<1>4. unsaved' = {}
  BY DEF Boot, MakeDir, LoadMeta, SaveFwk, CreateMeta, SaveMeta, LoadFwk, LoadApp,
     NoAppYet, AppIsCurrent, SetAppData, SaveAppMeta, Noted, NotedMeta, Unspoiled
<1> USE DEF Unspoiled
<1>5. CASE MakeDir
  <2>1. boot' # "up" => FieldIsCurrent'
    BY DEF FieldIsCurrent
  <2> QED
    BY <1>3, <1>4, <1>5, <2>1 DEF MakeDir, NotLater, BootReads, Restricted
<1>6. CASE LoadMeta
  <2>1. boot' # "up" => FieldIsCurrent'
    BY DEF FieldIsCurrent
  <2>2. /\ boot = "loadMeta"
        /\ metadata' = IF meta # NoFile THEN meta ELSE NoVersion
        /\ boot' = IF meta = NoFile THEN "failed"
                   ELSE IF meta.fwk # version.fwk THEN "saveFwk" ELSE "loadFwk"
        /\ UNCHANGED <<config, meta, version>>
    BY <1>6, OutcomeIsBoolean DEF LoadMeta, NotedMeta
  <2> QED
    BY <1>3, <1>4, <2>1, <2>2 DEF BootReads, Restricted
<1>7. CASE SaveFwk
  <2>1. boot' # "up" => FieldIsCurrent'
    BY DEF FieldIsCurrent
  <2>2. /\ boot = "saveFwk"
        /\ file' = [file EXCEPT !["fwk"] = Restricted("fwk")]
        /\ metadata' = [metadata EXCEPT !.fwk = version.fwk]
        /\ boot' = IF meta = NoFile THEN "createMeta" ELSE "saveMeta"
        /\ UNCHANGED <<config, meta, version>>
    BY <1>7, OutcomeIsBoolean DEF SaveFwk, Noted
  <2>3. metadata'.fwk = version.fwk /\ metadata'.app = metadata.app
    BY <1>0, <2>2 DEF Meta
  <2>4. file'["fwk"] = Factory("fwk")
    BY <2>2 DEF BootReads, TypeOK, Files
  <2>5. NoVersion.app = 0
    BY DEF NoVersion
  <2> QED
    BY <1>3, <1>4, <2>1, <2>2, <2>3, <2>4, <2>5 DEF BootReads
<1>8. CASE CreateMeta
  <2>1. boot' # "up" => FieldIsCurrent'
    BY DEF FieldIsCurrent
  <2>2. NoVersion.app = 0 /\ NoVersion.fwk = 0
    BY DEF NoVersion
  <2> QED
    BY <1>0, <1>3, <1>4, <1>8, <2>1, <2>2 DEF CreateMeta, BootReads
<1>9. CASE SaveMeta
  <2>1. boot' # "up" => FieldIsCurrent'
    BY DEF FieldIsCurrent
  <2>2. /\ boot = "saveMeta" /\ boot' = "loadApp" /\ meta' = metadata
        /\ UNCHANGED <<metadata, version>>
    BY <1>9, OutcomeIsBoolean DEF SaveMeta, NotedMeta
  <2> QED
    BY <1>0, <1>3, <1>4, <2>1, <2>2 DEF BootReads
<1>10. CASE LoadFwk \/ LoadApp \/ NoAppYet
  <2>1. boot' # "up" => FieldIsCurrent'
    BY DEF FieldIsCurrent
  <2>2. /\ boot \in {"loadFwk", "loadApp"} /\ boot' \in {"loadApp", "initApp", "failed"}
        /\ UNCHANGED <<metadata, meta, version>>
    BY <1>10 DEF LoadFwk, LoadApp, NoAppYet
  <2>3. boot' = "initApp" => appVersion' = metadata.app
    BY <1>10 DEF LoadFwk, LoadApp, NoAppYet, SafeInv, Safe, BootKnows
  <2> QED
    BY <1>3, <1>4, <2>1, <2>2, <2>3 DEF BootReads
<1>11. CASE AppIsCurrent
  <2>1. /\ boot = "initApp" /\ boot' = "up" /\ appVersion = version.app
        /\ UNCHANGED <<config, file, metadata, meta, version>>
    BY <1>11 DEF AppIsCurrent
  <2>2. Current("fwk") /\ Current("app")
    BY <1>0, <2>1 DEF SafeInv, Safe, BootKnows
  <2>3. FieldIsCurrent'
    BY <2>1, <2>2, FilesSplit DEF FieldIsCurrent, InFile, Current, Restricted, Files
  <2> QED
    BY <1>3, <1>4, <2>1, <2>3 DEF BootReads
<1>12. CASE SetAppData
  <2>1. boot' # "up" => FieldIsCurrent'
    BY DEF FieldIsCurrent
  <2>2. /\ boot = "initApp" /\ boot' = "saveAppMeta" /\ appVersion # version.app
        /\ file' = [file EXCEPT !["app"] = [f \in AppFields |-> Default[f]]]
        /\ UNCHANGED <<metadata, meta, version>>
    BY <1>12, OutcomeIsBoolean DEF SetAppData, Noted
  <2>3. file'["app"] = Factory("app")
    BY <2>2 DEF TypeOK, Files, In, Factory
  <2> QED
    BY <1>3, <1>4, <2>1, <2>2, <2>3 DEF BootReads
<1>13. CASE SaveAppMeta
  <2>1. /\ boot = "saveAppMeta" /\ boot' = "up" /\ meta' = metadata'
        /\ metadata' = [metadata EXCEPT !.app = version.app]
        /\ UNCHANGED <<config, file, version>>
    BY <1>13, OutcomeIsBoolean DEF SaveAppMeta, NotedMeta
  <2>2. Current("fwk") /\ Current("app")
    BY <1>0, <2>1 DEF SafeInv, Safe, BootKnows
  <2>3. FieldIsCurrent'
    BY <2>1, <2>2, FilesSplit DEF FieldIsCurrent, InFile, Current, Restricted, Files
  <2>4. metadata' \in Meta /\ metadata'.fwk = metadata.fwk /\ metadata'.app = version.app
    BY <1>0, <2>1 DEF Meta
  <2> QED
    BY <1>0, <1>3, <1>4, <2>1, <2>3, <2>4 DEF BootReads
<1> QED
  BY <1>5, <1>6, <1>7, <1>8, <1>9, <1>10, <1>11, <1>12, <1>13 DEF Boot

(* A setting that no other task has is of the task that changes it. *)
LEMMA OneOwner ==
  ASSUME Own, NEW t \in Tasks, NEW u \in Tasks, pc[t] # "idle", pc[u] # "idle",
         Field(t) = Field(u)
  PROVE  t = u
<1>1. Field(t) \in Sets[t] \cap Sets[u]
  BY DEF Own
<1> QED
  BY <1>1, FieldsAssumption

(* A task that assigns its setting leaves those of the others alone. *)
LEMMA UnspoiledAssign ==
  ASSUME TypeOK, SafeInv, Own, Unspoiled, NEW t \in Tasks, Assign(t)
  PROVE  Unspoiled'
<1> USE DEF flash, ghost, Step, Unspoiled
<1>1. /\ boot = "up" /\ pc[t] = "set" /\ pc' = [pc EXCEPT ![t] = "save"]
      /\ config' = [config EXCEPT ![Field(t)] = Value(t)]
      /\ UNCHANGED <<metadata, meta, file, version, boot, req, buffer, unsaved>>
      /\ Value(t) \in Values /\ Field(t) \in Fields
  BY DEF Assign, SafeInv, Safe, Requested, Request, Field, Value
<1>2. /\ pc'[t] = "save" /\ \A u \in Tasks \ {t} : pc'[u] = pc[u]
      /\ config'[Field(t)] = Value(t)
      /\ \A f \in Fields : f # Field(t) => config'[f] = config[f]
      /\ \A u \in Tasks : Field(u)' = Field(u) /\ Value(u)' = Value(u)
      /\ \A f : InFile(f)' = InFile(f)
  BY <1>1 DEF TypeOK, Field, Value, InFile
<1>3. \A u \in Tasks : pc[u] # "idle" => Field(u) \in Fields
  BY DEF SafeInv, Safe, Requested, Request, Field
<1>4. BootReads'
  BY <1>1 DEF BootReads
<1>5. ValueHolds'
  <2> SUFFICES ASSUME NEW u \in Tasks, pc'[u] \in {"save", "copy", "answer"}
               PROVE  /\ Value(u) \in Values /\ config'[Field(u)] = Value(u)
                      /\ pc'[u] = "copy" /\ Field(u) \in Copied => buffer[Field(u)] = Value(u)
                      /\ pc'[u] = "answer" => InFile(Field(u)) = Value(u)
    BY <1>1, <1>2 DEF ValueHolds, Copied
  <2>1. CASE u = t
    BY <1>1, <1>2, <2>1
  <2>2. CASE u # t
    <3>1. Field(u) # Field(t) /\ Field(u) \in Fields
      BY <1>1, <1>2, <1>3, <2>2, OneOwner
    <3> QED
      BY <1>2, <2>2, <3>1 DEF ValueHolds
  <2> QED
    BY <2>1, <2>2
<1>6. FieldIsCurrent'
  BY <1>1, <1>2 DEF FieldIsCurrent
<1>7. InFile(Field(t)) = config[Field(t)]
  BY <1>1, OneOwner DEF FieldIsCurrent
<1>8. CopyIsKnown'
  <2> SUFFICES ASSUME NEW u \in Tasks, pc'[u] = "copy", NEW f \in Copied
               PROVE  buffer[f] = config'[f] \/ buffer[f] = InFile(f)
    BY <1>1, <1>2 DEF CopyIsKnown, Copied
  <2>1. f \in Fields
    BY DEF TypeOK
  <2>2. buffer[f] = config[f] \/ buffer[f] = InFile(f)
    BY <1>2 DEF CopyIsKnown
  <2> QED
    BY <1>2, <1>7, <2>1, <2>2
<1> QED
  BY <1>1, <1>4, <1>5, <1>6, <1>8

(* The holder of the lock takes it, and copies a setting. *)
LEMMA UnspoiledLockCopy ==
  ASSUME TypeOK, SafeInv, Own, Unspoiled, NEW t \in Tasks, Lock(t) \/ Copy(t)
  PROVE  Unspoiled'
<1> USE DEF ram, flash, ghost, Step, Unspoiled
<1>1. /\ boot = "up" /\ pc[t] \in {"save", "copy"} /\ pc' = [pc EXCEPT ![t] = "copy"]
      /\ UNCHANGED <<config, metadata, meta, file, version, boot, req, unsaved>>
      /\ holder \in {t, Nobody}
  BY SentinelAssumption DEF Lock, Copy, SafeInv, Safe, Holds, TypeOK
<1>2. /\ pc'[t] = "copy" /\ \A u \in Tasks \ {t} : pc'[u] = pc[u] /\ pc[u] # "copy"
      /\ \A u \in Tasks : Field(u)' = Field(u) /\ Value(u)' = Value(u)
      /\ \A f : InFile(f)' = InFile(f)
  BY <1>1, SentinelAssumption DEF TypeOK, Field, Value, InFile, SafeInv, Safe, Holds
<1>3. BootReads' /\ FieldIsCurrent'
  BY <1>1, <1>2 DEF BootReads, FieldIsCurrent
<1>4. \A f \in Copied' :
        \/ buffer'[f] = config[f]
        \/ pc[t] = "copy" /\ f \in Copied /\ buffer'[f] = buffer[f]
  BY DEF Lock, Copy, NothingRead, Copied
<1>5. ValueHolds' /\ CopyIsKnown'
  BY <1>1, <1>2, <1>4 DEF ValueHolds, CopyIsKnown
<1> QED
  BY <1>1, <1>3, <1>5

(* The write puts the copied settings of one file in place. *)
LEMMA UnspoiledClose ==
  ASSUME TypeOK, SafeInv, Own, Unspoiled, NEW t \in Tasks, Close(t), ~spoiled'
  PROVE  Unspoiled'
<1> USE DEF ram, Step, Unspoiled
<1>1. /\ boot = "up" /\ pc[t] = "copy" /\ pc' = [pc EXCEPT ![t] = "answer"]
      /\ file' = [file EXCEPT ![Name(t)] = buffer]
      /\ UNCHANGED <<config, metadata, meta, version, boot, req>>
      /\ Copied = In(Name(t)) /\ unsaved' = {} /\ req[t] \in Request
  BY OutcomeIsBoolean DEF Close, Noted, SafeInv, Safe, Requested
<1>2. /\ pc'[t] = "answer" /\ \A u \in Tasks \ {t} : pc'[u] = pc[u] /\ pc[u] # "copy"
      /\ \A u \in Tasks : Field(u)' = Field(u) /\ Value(u)' = Value(u)
      /\ Name(t) \in Files /\ Field(t) \in In(Name(t)) /\ Name(t) = FileOf[Field(t)]
  BY <1>1, FilesSplit
  DEF TypeOK, Request, Name, Field, Value, SafeInv, Safe, Holds
<1>3. \A f \in Fields :
        IF FileOf[f] = Name(t)
        THEN /\ InFile(f)' = buffer[f] /\ f \in Copied
             /\ buffer[f] = config[f] \/ buffer[f] = InFile(f)
        ELSE InFile(f)' = InFile(f)
  <2> SUFFICES ASSUME NEW f \in Fields
               PROVE  IF FileOf[f] = Name(t)
                      THEN /\ InFile(f)' = buffer[f] /\ f \in Copied
                           /\ buffer[f] = config[f] \/ buffer[f] = InFile(f)
                      ELSE InFile(f)' = InFile(f)
    OBVIOUS
  <2>1. FileOf[f] \in Files /\ f \in In(FileOf[f])
    BY FilesSplit
  <2>2. file'[FileOf[f]] = IF FileOf[f] = Name(t) THEN buffer ELSE file[FileOf[f]]
    BY <1>1, <2>1 DEF TypeOK
  <2>3. f \in Copied => buffer[f] = config[f] \/ buffer[f] = InFile(f)
    BY <1>1 DEF CopyIsKnown
  <2> QED
    BY <1>1, <2>1, <2>2, <2>3 DEF InFile
<1>4. BootReads'
  BY <1>1 DEF BootReads
<1>5. \A u \in Tasks : pc[u] # "idle" => Field(u) \in Fields
  BY DEF SafeInv, Safe, Requested, Request, Field
<1>6. buffer[Field(t)] = Value(t) /\ config[Field(t)] = Value(t)
  BY <1>1, <1>2 DEF ValueHolds
<1>7. ValueHolds'
  <2> SUFFICES ASSUME NEW u \in Tasks, pc'[u] \in {"save", "copy", "answer"}
               PROVE  /\ Value(u) \in Values /\ config[Field(u)] = Value(u)
                      /\ pc'[u] # "copy"
                      /\ pc'[u] = "answer" => InFile(Field(u))' = Value(u)
    BY <1>1, <1>2 DEF ValueHolds, InFile
  <2>1. CASE u = t
    BY <1>1, <1>2, <1>3, <1>5, <1>6, <2>1 DEF ValueHolds
  <2>2. CASE u # t
    BY <1>2, <1>3, <1>5, <2>2 DEF ValueHolds
  <2> QED
    BY <2>1, <2>2
<1>8. FieldIsCurrent'
  <2> SUFFICES ASSUME NEW f \in Fields, InFile(f)' # config[f]
               PROVE  \E u \in Tasks : pc'[u] \in {"save", "copy"} /\ Field(u) = f
    BY <1>1, <1>2 DEF FieldIsCurrent, InFile
  <2>1. f # Field(t) /\ InFile(f) # config[f]
    BY <1>2, <1>3, <1>6
  <2>2. PICK u \in Tasks : pc[u] \in {"save", "copy"} /\ Field(u) = f
    BY <1>1, <2>1 DEF FieldIsCurrent
  <2> QED
    BY <1>2, <2>1, <2>2
<1>9. CopyIsKnown'
  BY <1>2 DEF CopyIsKnown
<1> QED
  BY <1>1, <1>4, <1>7, <1>8, <1>9

(* The steps of a task that write nothing. *)
LEMMA UnspoiledOtherSteps ==
  ASSUME TypeOK, SafeInv, Own, Unspoiled, NEW t \in Tasks,
         Call(t) \/ Refuse(t) \/ Repeat(t) \/ Answer(t)
  PROVE  Unspoiled'
<1> USE DEF ram, flash, ghost, Step, Unspoiled
<1>1. /\ boot = "up" /\ pc[t] \in {"idle", "set", "answer"}
      /\ \E to \in {"set", "idle", "answer"} : pc' = [pc EXCEPT ![t] = to]
      /\ UNCHANGED <<config, metadata, meta, file, version, boot, buffer, unsaved>>
  BY DEF Call, Refuse, Repeat, Answer
<1>2. /\ pc'[t] \notin {"save", "copy"} /\ \A u \in Tasks \ {t} : pc'[u] = pc[u]
      /\ \A u \in Tasks \ {t} : Field(u)' = Field(u) /\ Value(u)' = Value(u)
      /\ \A f : InFile(f)' = InFile(f)
  BY <1>1 DEF TypeOK, Field, Value, InFile, Call, Refuse, Repeat, Answer
<1>3. BootReads'
  BY <1>1 DEF BootReads
<1>4. FieldIsCurrent' /\ CopyIsKnown'
  BY <1>1, <1>2 DEF FieldIsCurrent, CopyIsKnown, Copied
<1>5. pc'[t] = "answer" =>
        Value(t)' \in Values /\ config[Field(t)'] = Value(t)' /\ InFile(Field(t)') = Value(t)'
  <2>1. CASE Repeat(t)
    <3>1. /\ req' = req /\ Field(t) \in Fields /\ config[Field(t)] = Value(t)
          /\ pc[t] = "set"
      BY <2>1 DEF Repeat, Field, Value, Fields
    <3>2. Value(t) \in Values
      BY <3>1 DEF TypeOK
    <3>3. InFile(Field(t)) = config[Field(t)]
      BY <1>1, <3>1, OneOwner DEF FieldIsCurrent
    <3> QED
      BY <3>1, <3>2, <3>3 DEF Field, Value
  <2>2. CASE Call(t) \/ Refuse(t) \/ Answer(t)
    BY <2>2 DEF TypeOK, Call, Refuse, Answer
  <2> QED
    BY <2>1, <2>2
<1>6. ValueHolds'
  BY <1>1, <1>2, <1>5 DEF ValueHolds, Copied
<1> QED
  BY <1>1, <1>3, <1>4, <1>6

(* Power on, nothing has been read or asked for yet. *)
LEMMA UnspoiledPowerLoss == PowerLoss => Unspoiled'
BY DEF PowerLoss, PowerOn, Unspoiled, BootReads, ValueHolds, FieldIsCurrent, CopyIsKnown,
   Restricted, Factory, In, Fields

(* The invariant of the refinement. *)
StoreInv == TypeOK /\ SafeInv /\ Own /\ NotLater /\ (~spoiled => Unspoiled)

(* It holds when a device leaves the factory, ... *)
LEMMA StoreInvInit == Init => StoreInv
<1> SUFFICES ASSUME Init PROVE StoreInv
  OBVIOUS
<1>1. TypeOK /\ SafeInv
  BY TypeInit, SafeInit
<1>2. Own
  BY DEF Init, Own
<1>3. NotLater
  BY VersionAssumption DEF Init, NotLater, NoVersion, Files
<1>4. Unspoiled
  BY DEF Init, Unspoiled, BootReads, ValueHolds, FieldIsCurrent, CopyIsKnown,
     Restricted, Factory, In, Fields
<1> QED
  BY <1>1, <1>2, <1>3, <1>4 DEF StoreInv

(* ... and every step keeps it. *)
LEMMA StoreInvStep ==
  ASSUME ~Rollback, StoreInv, [Next]_vars
  PROVE  StoreInv'
<1> USE DEF StoreInv
<1>1. TypeOK' /\ SafeInv'
  BY SafeStep
<1>2. Own' /\ NotLater'
  BY OwnStep, NotLaterStep
<1>3. ASSUME ~spoiled'
      PROVE  Unspoiled'
  <2>1. Unspoiled
    BY <1>3, SpoiledStays
  <2>2. CASE Boot
    BY <1>3, <2>1, <2>2, UnspoiledBoot
  <2>3. CASE PowerLoss
    BY <2>3, UnspoiledPowerLoss
  <2>4. ASSUME NEW t \in Tasks,
               Call(t) \/ Refuse(t) \/ Repeat(t) \/ Assign(t)
                 \/ Lock(t) \/ Copy(t) \/ Close(t) \/ Answer(t)
        PROVE  Unspoiled'
    BY <1>3, <2>1, <2>4, UnspoiledAssign, UnspoiledLockCopy, UnspoiledClose,
       UnspoiledOtherSteps
  <2>5. CASE UNCHANGED vars
    BY <2>1, <2>5 DEF vars, Unspoiled, BootReads, ValueHolds, FieldIsCurrent, CopyIsKnown,
       Restricted, Field, Value, InFile, Copied
  <2> QED
    BY <2>2, <2>3, <2>4, <2>5 DEF Next
<1> QED
  BY <1>1, <1>2, <1>3

-----------------------------------------------------------------------------
(* A boot changes nothing that a reboot would find. *)
LEMMA RefineBoot ==
  ASSUME StoreInv, ~spoiled, Boot, ~spoiled'
  PROVE  Store!Open \/ UNCHANGED Store!vars
<1>1. Unspoiled
  BY DEF StoreInv
<1> USE DEF ram, flash, ghost, task, StoreInv
<1>0. /\ version.fwk \in 1 .. MaxVersion /\ version.app \in 1 .. MaxVersion
      /\ metadata \in Meta /\ NoVersion \in Meta
      /\ NoFile \notin Meta /\ MaxVersion \in Nat
  BY VersionAssumption, SentinelAssumption DEF TypeOK, Meta, Files, NoVersion
<1>2. boot # "up" /\ UNCHANGED <<version, req, resp, spoiled>>
  <2>1. /\ boot # "up" /\ UNCHANGED <<version, req, resp>>
        /\ spoiled' = spoiled \/ \E ok : spoiled' = (spoiled \/ ~ok)
    BY DEF Boot, MakeDir, LoadMeta, SaveFwk, CreateMeta, SaveMeta, LoadFwk, LoadApp,
       NoAppYet, AppIsCurrent, SetAppData, SaveAppMeta, Noted, NotedMeta
  <2> QED
    BY <2>1 DEF TypeOK
<1>3. SUFFICES Stored' = Stored
  BY <1>2 DEF Store!Open, Store!vars
<1>4. \A f \in Fields :
        \/ FileOf[f] = "fwk" /\ f \in In("fwk")
        \/ FileOf[f] = "app" /\ f \in In("app")
  BY FilesSplit DEF Files
<1>5. CASE UNCHANGED <<meta, file>>
  BY <1>2, <1>5 DEF Stored
<1>6. CASE SaveFwk
  <2>1. /\ meta = NoFile \/ meta.fwk # version.fwk
        /\ file' = [file EXCEPT !["fwk"] = Restricted("fwk")] /\ meta' = meta
    BY <1>1, <1>6, OutcomeIsBoolean DEF SaveFwk, Noted, Unspoiled, BootReads
  <2>2. file'["app"] = file["app"]
    BY <2>1 DEF TypeOK
  <2> QED
    BY <1>2, <1>4, <2>1, <2>2 DEF Stored
<1>7. CASE CreateMeta
  <2>1. meta = NoFile /\ meta' = NoVersion /\ NoVersion.fwk = 0 /\ NoVersion.app = 0
    BY <1>1, <1>7 DEF CreateMeta, Unspoiled, BootReads, NoVersion
  <2> QED
    BY <1>0, <1>2, <1>4, <2>1 DEF Stored
<1>8. CASE SaveMeta
  <2>1. /\ meta # NoFile /\ meta.app = metadata.app /\ meta.fwk # version.fwk
        /\ file["fwk"] = Factory("fwk") /\ meta' = metadata /\ file' = file
    BY <1>1, <1>8, OutcomeIsBoolean DEF SaveMeta, NotedMeta, Unspoiled, BootReads
  <2>2. \A f \in In("fwk") : file["fwk"][f] = Default[f]
    BY <2>1 DEF Factory
  <2> QED
    BY <1>0, <1>2, <1>4, <2>1, <2>2 DEF Stored
<1>9. CASE SetAppData
  <2>1. /\ meta = NoFile \/ meta.app # version.app
        /\ file' = [file EXCEPT !["app"] = [f \in AppFields |-> Default[f]]] /\ meta' = meta
    BY <1>1, <1>9, OutcomeIsBoolean DEF SetAppData, Noted, Unspoiled, BootReads
  <2>2. file'["fwk"] = file["fwk"]
    BY <2>1 DEF TypeOK
  <2> QED
    BY <1>2, <1>4, <2>1, <2>2 DEF Stored
<1>10. CASE SaveAppMeta
  <2>1. /\ meta = metadata /\ meta # NoFile /\ meta.app # version.app
        /\ file["app"] = Factory("app") /\ file' = file
        /\ meta' = [metadata EXCEPT !.app = version.app]
    BY <1>1, <1>10, OutcomeIsBoolean DEF SaveAppMeta, NotedMeta, Unspoiled, BootReads
  <2>2. /\ meta' # NoFile /\ meta'.fwk = meta.fwk /\ meta'.app = version.app
        /\ \A f \in In("app") : file["app"][f] = Default[f]
    BY <1>0, <2>1 DEF Factory, Meta
  <2> QED
    BY <1>0, <1>2, <1>4, <2>1, <2>2 DEF Stored
<1> QED
  BY <1>5, <1>6, <1>7, <1>8, <1>9, <1>10
  DEF Boot, MakeDir, LoadMeta, LoadFwk, LoadApp, NoAppYet, AppIsCurrent

(* A later firmware resets the settings of the files it changes. *)
LEMMA RefinePowerLoss ==
  ASSUME ~Rollback, StoreInv, PowerLoss
  PROVE  Store!PowerLoss
<1> USE DEF StoreInv
<1>0. /\ \A name \in Files : version[name] \in Nat /\ version'[name] \in Nat
      /\ MaxVersion \in Nat /\ Files = {"fwk", "app"}
  BY VersionAssumption DEF PowerLoss, TypeOK, Files
<1>1. \A name \in Files : version'[name] >= version[name]
  BY DEF PowerLoss
<1>2. \A f \in Fields : FileOf[f] \in Files
  BY FilesSplit
<1>3. Store!Files \subseteq Files
  BY <1>2 DEF Store!Files
<1>4. \A name \in Files : meta # NoFile => meta[name] \in Nat /\ meta[name] <= version[name]
  BY <1>0 DEF NotLater, TypeOK, Meta
<1>5. Stored' = [f \in Fields |->
         IF version'[FileOf[f]] = version[FileOf[f]] THEN Stored[f] ELSE Default[f]]
  <2>1. UNCHANGED <<meta, file>>
    BY DEF PowerLoss, flash
  <2>2. ASSUME NEW f \in Fields, version'[FileOf[f]] # version[FileOf[f]], meta # NoFile
        PROVE  meta[FileOf[f]] # version'[FileOf[f]]
    BY <1>0, <1>1, <1>2, <1>4, <2>2
  <2> QED
    BY <2>1, <2>2 DEF Stored
<1> QED
  BY <1>1, <1>3, <1>5 DEF PowerLoss, PowerOn, Store!PowerLoss

(* What a reboot would find of an open store is in the files. *)
LEMMA StoredInFile ==
  ASSUME StoreInv, ~spoiled, boot = "up", NEW f \in Fields
  PROVE  Stored[f] = InFile(f) /\ meta # NoFile /\ meta[FileOf[f]] = version[FileOf[f]]
<1>1. meta # NoFile /\ meta.fwk = version.fwk /\ meta.app = version.app
  BY DEF StoreInv, Unspoiled, BootReads
<1>2. FileOf[f] \in {"fwk", "app"}
  BY FilesSplit DEF Files
<1> QED
  BY <1>1, <1>2 DEF Stored, InFile

(* A write makes one request durable, and those that it copied with it. *)
LEMMA RefineClose ==
  ASSUME StoreInv, ~spoiled, ~spoiled', NEW t \in Tasks, Close(t)
  PROVE  \E S \in SUBSET Tasks : S # {} /\ Store!Apply(S)
<1>0. Unspoiled
  BY DEF StoreInv
<1> USE DEF StoreInv, ram, Step
<1> DEFINE S == {u \in Tasks : /\ pc[u] \in {"save", "copy"} /\ Name(u) = Name(t)
                              /\ Field(u) \in Copied /\ buffer[Field(u)] = Value(u)}
<1>1. /\ boot = "up" /\ pc[t] = "copy"
      /\ file' = [file EXCEPT ![Name(t)] = buffer]
      /\ UNCHANGED <<meta, version, boot, req, resp>>
      /\ Copied = In(Name(t))
  BY <1>0, OutcomeIsBoolean DEF Close, Noted
<1>2. \A u \in Tasks : pc[u] # "idle" => /\ req[u] # NoReq /\ Field(u) \in Fields
                                       /\ Field(u) \in In(Name(u))
  BY SentinelAssumption, FilesSplit
  DEF SafeInv, Safe, Requested, Request, Field, Name
<1>3. t \in S
  BY <1>1, <1>2, <1>0 DEF Unspoiled, ValueHolds
<1>4. \A u \in S : req[u] # NoReq /\ req[u].value # Invalid
  BY <1>0, <1>2, ValuesAssumption DEF Unspoiled, ValueHolds, Value
<1>5. ASSUME NEW f \in Fields
      PROVE  \/ Stored'[f] = Stored[f] /\ \A u \in S : req[u].field # f
             \/ \E u \in S : req[u].field = f /\ Stored'[f] = req[u].value
  <2>1. Stored[f] = InFile(f) /\ Stored'[f] = InFile(f)'
    BY <1>0, <1>1, StoredInFile DEF Stored, InFile
  <2>2. FileOf[f] \in Files /\ f \in In(FileOf[f])
    BY FilesSplit
  <2>3. CASE FileOf[f] # Name(t)
    <3>1. InFile(f)' = InFile(f)
      BY <1>1, <2>2, <2>3 DEF InFile, TypeOK
    <3> QED
      BY <2>1, <2>3, <3>1 DEF Name
  <2>4. CASE FileOf[f] = Name(t)
    <3>1. InFile(f)' = buffer[f] /\ f \in Copied
      BY <1>1, <2>2, <2>4 DEF InFile, TypeOK
    <3>2. CASE \E u \in S : Field(u) = f
      BY <2>1, <3>1, <3>2 DEF Field, Value
    <3>3. CASE \A u \in S : Field(u) # f
      <4>1. \A u \in Tasks : pc[u] \in {"save", "copy"} /\ Field(u) = f => buffer[f] # config[f]
        BY <1>0, <2>4, <3>1, <3>3 DEF Unspoiled, ValueHolds, Name, Field
      <4>2. buffer[f] = InFile(f)
        BY <1>0, <1>1, <3>1, <4>1 DEF Unspoiled, CopyIsKnown, FieldIsCurrent
      <4> QED
        BY <2>1, <3>1, <3>3, <4>2 DEF Field
    <3> QED
      BY <3>2, <3>3
  <2> QED
    BY <2>3, <2>4
<1>6. spoiled' = spoiled
  BY DEF Close, Noted, TypeOK
<1>7. Store!Apply(S)
  BY <1>6, <1>1, <1>4, <1>5 DEF Store!Apply
<1> QED
  BY <1>3, <1>7

(* The steps of a task that leave the files alone: a call and its answer,  *)
(* and what the store does not see.                                        *)
LEMMA RefineOtherSteps ==
  ASSUME StoreInv, ~spoiled', NEW t \in Tasks,
         Call(t) \/ Refuse(t) \/ Repeat(t) \/ Assign(t) \/ Lock(t) \/ Copy(t) \/ Answer(t)
  PROVE  Store!Call(t) \/ Store!Respond(t) \/ UNCHANGED Store!vars
<1> USE DEF StoreInv, ram, flash, ghost, Step
<1>0. /\ boot = "up" /\ UNCHANGED <<meta, file, version, boot, spoiled>>
      /\ ~spoiled
  BY DEF Call, Refuse, Repeat, Assign, Lock, Copy, Answer
<1>1. Stored' = Stored
  BY <1>0 DEF Stored
<1>2. CASE Call(t)
  <2>1. PICK f \in Sets[t], v \in Values \cup {Invalid} :
          req' = [req EXCEPT ![t] = [field |-> f, value |-> v]]
    BY <1>2 DEF Call
  <2>2. [field |-> f, value |-> v] \in Store!Request
    BY <2>1, FieldsAssumption DEF Store!Request
  <2>3. req[t] = NoReq
    BY <1>2 DEF Call, Own
  <2> QED
    BY <1>0, <1>1, <1>2, <2>1, <2>2, <2>3 DEF Call, Store!Call
<1>3. CASE Refuse(t)
  <2>1. req[t] # NoReq
    BY <1>3, SentinelAssumption DEF Refuse, SafeInv, Safe, Requested, Request
  <2> QED
    BY <1>0, <1>1, <1>3, <2>1 DEF Refuse, Store!Respond
<1>4. CASE Answer(t)
  <2>1. req[t] # NoReq /\ Field(t) \in Fields
    BY <1>4, SentinelAssumption DEF Answer, SafeInv, Safe, Requested, Request, Field
  <2>2. Stored[req[t].field] = req[t].value
    BY <1>0, <1>4, <2>1, StoredInFile DEF Answer, Unspoiled, ValueHolds, Field, Value
  <2> QED
    BY <1>0, <1>1, <1>4, <2>1, <2>2 DEF Answer, Store!Respond
<1>5. CASE Repeat(t) \/ Assign(t) \/ Lock(t) \/ Copy(t)
  BY <1>0, <1>1, <1>5 DEF Repeat, Assign, Lock, Copy, Store!vars
<1> QED
  BY <1>2, <1>3, <1>4, <1>5

(* A device that leaves the factory has the factory settings. *)
LEMMA RefineInit ==
  ASSUME FwkFields # {}, AppFields # {}, Init
  PROVE  Store!Init
<1>1. Store!Files = Files
  BY FilesSplit, FieldsAssumption DEF Store!Files, Files, FileOf, Fields
<1>2. Stored = Default
  BY ValuesAssumption DEF Init, Stored
<1> QED
  BY <1>1, <1>2 DEF Init, Store!Init

(* If no firmware is replaced by an earlier one, the store is one durable  *)
(* value per setting: whatever tasks change settings at once, without a    *)
(* lock of their own, each request takes effect between its call and its   *)
(* answer, and no loss of power undoes or tears one, until an operation on *)
(* the flash fails.                                                        *)
THEOREM StoreIsSettings ==
  ASSUME ~Rollback, FwkFields # {}, AppFields # {}
  PROVE  Spec => ImplementsSettings
<1>1. Init => Store!Init
  BY RefineInit
<1>2. StoreInv /\ [Next]_vars => [Store!Next]_(Store!vars)
  <2> SUFFICES ASSUME StoreInv, [Next]_vars PROVE [Store!Next]_(Store!vars)
    OBVIOUS
  <2>1. CASE spoiled'
    BY <2>1 DEF Store!Next
  <2>2. CASE ~spoiled' /\ Next
    <3>1. ~spoiled
      BY <2>2, SpoiledStays DEF StoreInv
    <3>2. CASE Boot
      BY <2>2, <3>1, <3>2, RefineBoot DEF Store!Next
    <3>3. CASE PowerLoss
      BY <3>1, <3>3, RefinePowerLoss DEF Store!Next
    <3>4. ASSUME NEW t \in Tasks, Close(t)
          PROVE  [Store!Next]_(Store!vars)
      BY <2>2, <3>1, <3>4, RefineClose DEF Store!Next
    <3>5. ASSUME NEW t \in Tasks,
                 Call(t) \/ Refuse(t) \/ Repeat(t) \/ Assign(t) \/ Lock(t) \/ Copy(t)
                   \/ Answer(t)
          PROVE  [Store!Next]_(Store!vars)
      BY <2>2, <3>1, <3>5, RefineOtherSteps DEF Store!Next
    <3> QED
      BY <2>2, <3>2, <3>3, <3>4, <3>5 DEF Next
  <2>3. CASE UNCHANGED vars
    BY <2>3 DEF vars, Stored, Store!vars
  <2> QED
    BY <2>1, <2>2, <2>3
<1> QED
  BY <1>1, <1>2, StoreInvInit, StoreInvStep, PTL DEF Spec, ImplementsSettings, Store!Spec
=============================================================================
