\* Two tasks change settings; power loss, new firmware, a flash that fails.
CONSTANTS
  output = output ble = ble
  logLevel = logLevel speakerVolume = speakerVolume
  password = password
  low = low high = high
  Tasks = {output, ble}
  FwkFields = {logLevel}
  AppFields = {speakerVolume, password}
  Sets <- SetsOfTasks
  Values = {low, high}
  Invalid = Invalid
  Zero = low
  Default <- FactoryValues
  MaxVersion = 2
  Faults = {"write", "read"}
  Rollback = FALSE
  NoReq = NoReq
  NoFile = NoFile
  Nobody = Nobody
SPECIFICATION Spec
INVARIANTS TypeOK FileIsCurrent FailsUnformattedOnly
PROPERTY ImplementsSettings
