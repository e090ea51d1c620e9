\* Two captures one after the other, one stop, one daemon exit, one failure. The daemon idles once all requests are spent.
SPECIFICATION FairSpec

CONSTANTS
  Session = {s1, s2}
  Stopper = {k1}
  NoSession = NoSession
  RunMode = {"mic+system"}
  Reports = {"partial"}
  PipeSize = 1
  MaxStarting = 1
  MaxCrashes = 1
  MaxFaults = 1

INVARIANTS
  OneCapture
  CaptureIsStoppable
  EndIsExplained

PROPERTIES
  FailureIsNotMasked
  EndedCaptureIsReleased
  TermEndsCapture

CHECK_DEADLOCK FALSE
