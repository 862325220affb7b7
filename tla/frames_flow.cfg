\* The algorithm is stopped and started, the user changes the source; every task runs.
SPECIFICATION FairSpec
CONSTANTS
  lcd = lcd usb = usb ir = ir depth = depth gray16 = gray16 depth16 = depth16
  None = None
  Panels = {lcd} Screens = {} Frames = {ir, depth}
  Formats = {gray16, depth16}
  Source <- Source3D
  BufferCount = 2 QueueLength = 10
  MaxOthers = 0 MaxRestarts = 1
  MaxChanges = 1 Interruptible = FALSE
PROPERTIES AlgorithmRuns DisplaysShow
