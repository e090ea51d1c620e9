\* Every source choice, with and without a microphone; a helper that exited does nothing.
SPECIFICATION FairSpec

CONSTANTS
  Choices = {"auto", "tap", "sck"}
  Mics = {TRUE, FALSE}

INVARIANTS
  OneSourceInBox
  ReportIsTrue

PROPERTIES
  ReplacedIsStopped
  StopEndsHelper

CHECK_DEADLOCK FALSE
