\* Every kind of event, in any order.
SPECIFICATION FairSpec
CONSTANTS
  Inputs <- All
  MaxFrames = 2
  TimersFail = FALSE
INVARIANTS TypeOK RestartPoint StopHolds ResultTimerInPause FramesCirculate
INVARIANT EnrolmentIsTimed
PROPERTIES ResumesWhenReleased ModesEnd
