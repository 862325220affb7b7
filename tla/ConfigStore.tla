----------------------------- MODULE ConfigStore -----------------------------
(***************************************************************************)
(* The configuration store: framework settings and application settings in *)
(* RAM, one file for each and a metadata file with their versions          *)
(* (src/smart_lock/framework/core/fwk_sln_config.c), and the calls of the  *)
(* application (src/smart_lock/HAL/face_rec/hal_smart_lock_config.c).      *)
(* _FWK_ConfigLock never takes its mutex, so the tasks that change         *)
(* settings meet in the lock of the file system only.  Power may be lost   *)
(* between any two steps.                                                  *)
(***************************************************************************)
EXTENDS Naturals, FiniteSets

CONSTANTS
  Tasks,      \* tasks that change settings: output manager, BLE, vision algorithm
  FwkFields,  \* settings in fwk_config_t
  AppFields,  \* settings in smart_lock_config_t
  Sets,       \* the settings each task changes
  Values,     \* values of a setting that pass its range check
  Invalid,    \* a value that does not
  Zero,       \* what memset leaves in a setting
  Default,    \* factory value of each setting
  MaxVersion, \* bound: versions of a file over all firmwares
  Faults,     \* kinds of flash operation that may fail: "write", "read"
  Rollback,   \* whether a firmware may be replaced by an earlier one
  NoReq,      \* no request
  NoFile,     \* the file does not exist
  Nobody      \* nobody holds the lock of the file system

Fields == FwkFields \cup AppFields

ASSUME FieldsAssumption ==
  /\ FwkFields \cap AppFields = {}
  /\ Sets \in [Tasks -> SUBSET Fields]
  /\ \A t, u \in Tasks : t # u => Sets[t] \cap Sets[u] = {}
ASSUME ValuesAssumption ==
  /\ Default \in [Fields -> Values]
  /\ Zero \in Values /\ Invalid \notin Values
ASSUME VersionAssumption == MaxVersion \in Nat
ASSUME SentinelAssumption ==
  /\ NoReq \notin [field : Fields, value : Values \cup {Invalid}]
  /\ Nobody \notin Tasks
  /\ NoFile \notin [fwk : 0 .. MaxVersion, app : 0 .. MaxVersion]
  /\ NoFile \notin [FwkFields -> Values] \cup [AppFields -> Values]

VARIABLES
  config,     \* s_FWKConfig and s_AppConfig.appData
  metadata,   \* s_Metadata: the versions of the two files
  appVersion, \* s_AppConfig.appDataVersion
  dir,        \* CONFIG_DIR exists
  meta,       \* contents of METADATA_FILE_NAME
  file,       \* contents of FWK_CONFIG_FILE_NAME and APP_CONFIG_FILE_NAME
  version,    \* FWK VERSION and APP_CONFIG_VERSION of the running firmware
  boot,       \* point reached by the boot, then "up" or "failed"
  status,     \* the status of _FWK_ConfigInit so far is success
  pc,         \* point reached by each task
  req,        \* its request
  resp,       \* the answer to its last one
  holder,     \* the task that holds the lock of the file system
  buffer,     \* the settings the holder has copied to the file's cache
  unsaved,    \* history: files of which the last write or read failed
  spoiled     \* history: some operation on the flash has failed

ram   == <<config, metadata, appVersion>>
flash == <<dir, meta, file>>
task  == <<pc, req, resp, holder, buffer>>
ghost == <<unsaved, spoiled>>
vars  == <<config, metadata, appVersion, dir, meta, file, version, boot, status,
           pc, req, resp, holder, buffer, unsaved, spoiled>>

Files       == {"fwk", "app"}
In(name)    == IF name = "fwk" THEN FwkFields ELSE AppFields
FileOf      == [f \in Fields |-> IF f \in FwkFields THEN "fwk" ELSE "app"]
Meta        == [fwk : 0 .. MaxVersion, app : 0 .. MaxVersion]
NoVersion   == [fwk |-> 0, app |-> 0]
Request     == [field : Fields, value : Values \cup {Invalid}]
Copied      == DOMAIN buffer
NothingRead == [f \in {} |-> Zero]

(* A flash operation of a kind that cannot fail has one outcome. *)
Outcomes(kind) == IF kind \in Faults THEN BOOLEAN ELSE {TRUE}

(* An operation on a file, or on the metadata, ended: the history notes it. *)
Noted(name, ok) ==
  /\ unsaved' = IF ok THEN unsaved \ {name} ELSE unsaved \cup {name}
  /\ spoiled' = (spoiled \/ ~ok)
NotedMeta(ok) == spoiled' = (spoiled \/ ~ok) /\ UNCHANGED unsaved

TypeOK ==
  /\ config \in [Fields -> Values]
  /\ metadata \in Meta /\ appVersion \in 0 .. MaxVersion
  /\ dir \in BOOLEAN
  /\ meta \in Meta \cup {NoFile}
  /\ \A name \in Files : file[name] \in [In(name) -> Values] \cup {NoFile}
  /\ file = [name \in Files |-> file[name]]
  /\ version \in [Files -> 1 .. MaxVersion]
  /\ boot \in {"mkdir", "loadMeta", "saveFwk", "createMeta", "saveMeta", "loadFwk",
               "loadApp", "initApp", "saveAppMeta", "up", "failed"}
  /\ status \in BOOLEAN
  /\ pc \in [Tasks -> {"idle", "set", "save", "copy", "answer"}]
  /\ req \in [Tasks -> Request \cup {NoReq}]
  /\ resp \in [Tasks -> {"none", "Ok", "Error"}]
  /\ holder \in Tasks \cup {Nobody}
  /\ buffer = [f \in Copied |-> buffer[f]]
  /\ Copied \subseteq Fields /\ \A f \in Copied : buffer[f] \in Values
  /\ unsaved \subseteq Files /\ spoiled \in BOOLEAN

(* Power on: the static variables have the values the firmware gives them. *)
PowerOn ==
  /\ config' = [f \in Fields |-> IF f \in FwkFields THEN Default[f] ELSE Zero]
  /\ metadata' = NoVersion /\ appVersion' = 0
  /\ boot' = "mkdir" /\ status' = TRUE
  /\ pc' = [t \in Tasks |-> "idle"]
  /\ req' = [t \in Tasks |-> NoReq] /\ resp' = [t \in Tasks |-> "none"]
  /\ holder' = Nobody /\ buffer' = NothingRead

(* A device leaves the factory with an empty file system. *)
Init ==
  /\ config = [f \in Fields |-> IF f \in FwkFields THEN Default[f] ELSE Zero]
  /\ metadata = NoVersion /\ appVersion = 0
  /\ dir = FALSE /\ meta = NoFile /\ file = [name \in Files |-> NoFile]
  /\ version \in [Files -> 1 .. MaxVersion]
  /\ boot = "mkdir" /\ status = TRUE
  /\ pc = [t \in Tasks |-> "idle"]
  /\ req = [t \in Tasks |-> NoReq] /\ resp = [t \in Tasks |-> "none"]
  /\ holder = Nobody /\ buffer = NothingRead
  /\ unsaved = {} /\ spoiled = FALSE

-----------------------------------------------------------------------------
(***************************************************************************)
(* Boot: _FWK_ConfigInit, then HAL_OutputDev_SmartLockConfig_Init, before  *)
(* the tasks exist.  Whatever fails ends in "failed": APP_InitFramework    *)
(* returns, and the managers are not initialised.                          *)
(***************************************************************************)
Restricted(name) == [f \in In(name) |-> config[f]]
WithDefaults(c, name) == [f \in Fields |-> IF f \in In(name) THEN Default[f] ELSE c[f]]

(* The file is read into RAM that has just been cleared. *)
Loaded(name, ok) ==
  [f \in Fields |-> IF f \notin In(name) THEN config[f]
                    ELSE IF ok THEN file[name][f] ELSE Zero]

MakeDir ==
  /\ boot = "mkdir"
  /\ IF dir
     THEN boot' = "loadMeta" /\ UNCHANGED <<dir, spoiled>>
     ELSE \E ok \in Outcomes("write") :
            /\ dir' = ok /\ spoiled' = (spoiled \/ ~ok)
            /\ boot' = IF ok THEN "saveFwk" ELSE "failed"
  /\ UNCHANGED <<ram, meta, file, version, status, task, unsaved>>

LoadMeta ==
  /\ boot = "loadMeta"
  /\ \E ok \in Outcomes("read") :
       /\ metadata' = IF ok /\ meta # NoFile THEN meta ELSE NoVersion
       /\ boot' = IF ~ok \/ meta = NoFile THEN "failed"
                  ELSE IF meta.fwk # version.fwk THEN "saveFwk" ELSE "loadFwk"
       /\ NotedMeta(ok)
  /\ UNCHANGED <<config, appVersion, flash, version, status, task>>

(* Only a file that does not exist yet is first created, and then written: *)
(* an empty file reads as zeros.                                           *)
SaveFwk ==
  /\ boot = "saveFwk"
  /\ \E ok \in Outcomes("write") :
       /\ file' = IF ok THEN [file EXCEPT !["fwk"] = Restricted("fwk")] ELSE file
       /\ metadata' = IF ok THEN [metadata EXCEPT !.fwk = version.fwk] ELSE metadata
       /\ boot' = IF ~ok THEN "loadApp"
                  ELSE IF meta = NoFile THEN "createMeta" ELSE "saveMeta"
       /\ status' = ok
       /\ Noted("fwk", ok)
  /\ UNCHANGED <<config, appVersion, dir, meta, version, task>>

CreateMeta ==
  /\ boot = "createMeta"
  /\ meta' = NoVersion
  /\ boot' = "saveMeta"
  /\ UNCHANGED <<ram, dir, file, version, status, task, ghost>>

SaveMeta ==
  /\ boot = "saveMeta"
  /\ \E ok \in Outcomes("write") :
       /\ meta' = IF ok THEN metadata ELSE meta
       /\ status' = ok
       /\ NotedMeta(ok)
  /\ boot' = "loadApp"
  /\ UNCHANGED <<ram, dir, file, version, task>>

LoadFwk ==
  /\ boot = "loadFwk"
  /\ \E ok \in Outcomes("read") :
       /\ config' = Loaded("fwk", ok)
       /\ status' = ok
       /\ Noted("fwk", ok)
  /\ boot' = "loadApp"
  /\ UNCHANGED <<metadata, appVersion, flash, version, task>>

(* The status of this file replaces that of the other one. *)
LoadApp ==
  /\ boot = "loadApp" /\ metadata.app # 0
  /\ appVersion' = metadata.app
  /\ \E ok \in Outcomes("read") :
       /\ config' = Loaded("app", ok)
       /\ status' = ok
       /\ boot' = IF ok THEN "initApp" ELSE "failed"
       /\ Noted("app", ok)
  /\ UNCHANGED <<metadata, flash, version, task>>

(* Seeded bug: having no application data yet is an error. *)
NoAppIsError ==
  /\ boot = "loadApp" /\ metadata.app = 0
  /\ boot' = "failed"
  /\ UNCHANGED <<ram, flash, version, status, task, ghost>>

NoAppYet ==
  /\ boot = "loadApp" /\ metadata.app = 0
  /\ boot' = IF status THEN "initApp" ELSE "failed"
  /\ UNCHANGED <<ram, flash, version, status, task, ghost>>

(* The rest of HAL_OutputDev_SmartLockConfig_Init; the status of           *)
(* FWK_ConfigSetAppData is ignored.                                        *)
AppIsCurrent ==
  /\ boot = "initApp" /\ appVersion = version.app
  /\ boot' = "up"
  /\ UNCHANGED <<ram, flash, version, status, task, ghost>>

(* Seeded bug: the new data stay in RAM if there is a file already. *)
SetAppDataInRam ==
  /\ boot = "initApp" /\ appVersion # version.app
  /\ config' = WithDefaults(config, "app")
  /\ appVersion' = version.app
  /\ \E ok \in Outcomes("write") :
       /\ file' = IF ok /\ file["app"] = NoFile
                  THEN [file EXCEPT !["app"] = [f \in AppFields |-> Default[f]]]
                  ELSE file
       /\ boot' = IF ok THEN "saveAppMeta" ELSE "up"
       /\ Noted("app", ok)
  /\ UNCHANGED <<metadata, dir, meta, version, status, task>>

SetAppData ==
  /\ boot = "initApp" /\ appVersion # version.app
  /\ config' = WithDefaults(config, "app")
  /\ appVersion' = version.app
  /\ \E ok \in Outcomes("write") :
       /\ file' = IF ok THEN [file EXCEPT !["app"] = [f \in AppFields |-> Default[f]]]
                  ELSE file
       /\ boot' = IF ok THEN "saveAppMeta" ELSE "up"
       /\ Noted("app", ok)
  /\ UNCHANGED <<metadata, dir, meta, version, status, task>>

SaveAppMeta ==
  /\ boot = "saveAppMeta"
  /\ metadata' = [metadata EXCEPT !.app = version.app]
  /\ \E ok \in Outcomes("write") :
       meta' = (IF ok THEN metadata' ELSE meta) /\ NotedMeta(ok)
  /\ boot' = "up"
  /\ UNCHANGED <<config, appVersion, dir, file, version, status, task>>

(* Power may be lost at any point, and the next firmware be another one.   *)
PowerLoss ==
  /\ PowerOn
  /\ version' \in [Files -> 1 .. MaxVersion]
  /\ Rollback \/ \A name \in Files : version'[name] >= version[name]
  /\ unsaved' = {}
  /\ UNCHANGED <<flash, spoiled>>

-----------------------------------------------------------------------------
(***************************************************************************)
(* FWK_ConfigSet..., HAL_OutputDev_SmartLockConfig_Set... and the handlers *)
(* that call them.                                                         *)
(***************************************************************************)
Step(t, from, to) == boot = "up" /\ pc[t] = from /\ pc' = [pc EXCEPT ![t] = to]
Name(t) == FileOf[req[t].field]

Call(t) ==
  /\ Step(t, "idle", "set")
  /\ \E f \in Sets[t], v \in Values \cup {Invalid} :
       req' = [req EXCEPT ![t] = [field |-> f, value |-> v]]
  /\ resp' = [resp EXCEPT ![t] = "none"]
  /\ UNCHANGED <<ram, flash, version, boot, status, holder, buffer, ghost>>

Refuse(t) ==
  /\ Step(t, "set", "idle")
  /\ req[t].value = Invalid
  /\ resp' = [resp EXCEPT ![t] = "Error"]
  /\ req' = [req EXCEPT ![t] = NoReq]
  /\ UNCHANGED <<ram, flash, version, boot, status, holder, buffer, ghost>>

(* "... is the same as the current setting": no call. *)
Repeat(t) ==
  /\ Step(t, "set", "answer")
  /\ req[t].field \in FwkFields /\ config[req[t].field] = req[t].value
  /\ UNCHANGED <<ram, flash, version, boot, status, req, resp, holder, buffer, ghost>>

(* Seeded bug: the range check is missing. *)
AssignUnchecked(t) ==
  /\ Step(t, "set", "save")
  /\ req[t].field \in FwkFields => config[req[t].field] # req[t].value
  /\ config' = [config EXCEPT ![req[t].field] = req[t].value]
  /\ UNCHANGED <<metadata, appVersion, flash, version, boot, status, req, resp,
                 holder, buffer, ghost>>

Assign(t) ==
  /\ Step(t, "set", "save")
  /\ req[t].value # Invalid
  /\ req[t].field \in FwkFields => config[req[t].field] # req[t].value
  /\ config' = [config EXCEPT ![req[t].field] = req[t].value]
  /\ UNCHANGED <<metadata, appVersion, flash, version, boot, status, req, resp,
                 holder, buffer, ghost>>

(* _SLN_FwkConfigSave, _SLN_AppConfigSave: _lfs_writeHandler locks the file *)
(* system, copies the settings while other tasks may change them, and the  *)
(* file changes when it is closed.                                         *)
(* Seeded bug: the file system does not lock, and tasks share its cache. *)
LockShared(t) ==
  /\ Step(t, "save", "copy")
  /\ holder' = t
  /\ buffer' = IF holder = Nobody THEN NothingRead ELSE buffer
  /\ UNCHANGED <<ram, flash, version, boot, status, req, resp, ghost>>

Lock(t) ==
  /\ Step(t, "save", "copy")
  /\ holder = Nobody
  /\ holder' = t /\ buffer' = NothingRead
  /\ UNCHANGED <<ram, flash, version, boot, status, req, resp, ghost>>

Copy(t) ==
  /\ boot = "up" /\ pc[t] = "copy"
  /\ \E f \in In(Name(t)) \ Copied :
       buffer' = [g \in Copied \cup {f} |-> IF g = f THEN config[f] ELSE buffer[g]]
  /\ UNCHANGED <<ram, flash, version, boot, status, pc, req, resp, holder, ghost>>

Close(t) ==
  /\ Step(t, "copy", "answer")
  /\ Copied = In(Name(t))
  /\ \E ok \in Outcomes("write") :
       /\ file' = IF ok THEN [file EXCEPT ![Name(t)] = buffer] ELSE file
       /\ Noted(Name(t), ok)
  /\ holder' = Nobody /\ buffer' = NothingRead
  /\ UNCHANGED <<ram, dir, meta, version, boot, status, req, resp>>

(* A write that fails is answered "Ok" too: the application's setters      *)
(* ignore the status of the save, and the handlers of framework settings   *)
(* compare it with kSLNConfigStatus_Error, which no flash operation        *)
(* returns.                                                                *)
Answer(t) ==
  /\ Step(t, "answer", "idle")
  /\ resp' = [resp EXCEPT ![t] = "Ok"]
  /\ req' = [req EXCEPT ![t] = NoReq]
  /\ UNCHANGED <<ram, flash, version, boot, status, holder, buffer, ghost>>

Boot ==
  \/ MakeDir \/ LoadMeta \/ SaveFwk \/ CreateMeta \/ SaveMeta \/ LoadFwk \/ LoadApp
  \/ NoAppYet \/ AppIsCurrent \/ SetAppData \/ SaveAppMeta

Next ==
  \/ Boot \/ PowerLoss
  \/ \E t \in Tasks : \/ Call(t) \/ Refuse(t) \/ Repeat(t) \/ Assign(t)
                      \/ Lock(t) \/ Copy(t) \/ Close(t) \/ Answer(t)

Spec == Init /\ [][Next]_vars

-----------------------------------------------------------------------------
(***************************************************************************)
(* Properties.                                                             *)
(***************************************************************************)
Changing(name) == {t \in Tasks : pc[t] \in {"save", "copy"} /\ Name(t) = name}

(* Once nobody changes a setting of a file, the file holds what RAM holds, *)
(* although tasks change and copy the settings without a lock: the task    *)
(* that assigns last also copies after that.  A write that failed is made  *)
(* up for by the next one of the same file.                                *)
FileIsCurrent ==
  boot = "up" => \A name \in Files \ unsaved :
                   Changing(name) = {} => file[name] = Restricted(name)

(* A setting that was answered "Ok" is in flash. *)
AnsweredIsStored ==
  \A t \in Tasks : pc[t] = "answer" => file[Name(t)][req[t].field] = req[t].value

(* On a sound flash, a boot fails only if the very first one was cut off   *)
(* between the directory and the metadata file.                            *)
FailsUnformattedOnly == ~spoiled /\ boot = "failed" => meta = NoFile

(* Every boot opens the store. *)
StoreOpens == boot # "failed"

(* The settings a reboot would find: those of a file of another version,   *)
(* or without metadata, are the defaults.                                  *)
Stored ==
  [f \in Fields |-> IF meta # NoFile /\ meta[FileOf[f]] = version[FileOf[f]]
                    THEN file[FileOf[f]][f] ELSE Default[f]]

Store == INSTANCE SettingsStore WITH
  stored <- Stored, up <- (boot = "up")

(* The store is one durable value per setting, as SettingsStore says. *)
ImplementsSettings == Store!Spec
=============================================================================
