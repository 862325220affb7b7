\* One camera, a panel, a screen and the two frames of the 3D algorithm.
SPECIFICATION Spec
CONSTANTS
  lcd = lcd usb = usb ir = ir depth = depth gray16 = gray16 depth16 = depth16
  None = None
  Panels = {lcd} Screens = {usb} Frames = {ir, depth}
  Formats = {gray16, depth16}
  Source <- Source3D
  BufferCount = 4 QueueLength = 10
  MaxOthers = 3 MaxRestarts = 0
  MaxChanges = 0 Interruptible = FALSE
INVARIANTS TypeOK EveryFrameAnnounced NotTorn
