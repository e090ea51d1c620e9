\* Two start requests handled at the same time.
SPECIFICATION Spec

CONSTANTS
  Session = {s1, s2}
  Stopper = {k1}
  NoSession = NoSession
  RunMode = {"mic"}
  Reports = {}
  PipeSize = 2
  MaxStarting = 2
  MaxCrashes = 0
  MaxFaults = 0

INVARIANTS
  OneCapture

CHECK_DEADLOCK FALSE
