\* One capture, and inputs in several mixes; it ends when they are spent.
SPECIFICATION Spec

CONSTANTS
  Voice = {"microphone", "system_audio"}
  Label <- Labels
  MaxNumber = 2
  Debounce = 2
  DemoLength = 2
  RecentLimit = 1
  ContextLimit = 2
  Budgets <- Mixes

INVARIANTS
  CardsCiteTheRecord
  RequestsAreAnswered
  PartialEndsWithCapture
  DemoIsSeededOnce
  BucketsStayApart

CHECK_DEADLOCK FALSE
