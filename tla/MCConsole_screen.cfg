\* Two meetings, two calls under way at once.
SPECIFICATION FairSpec

CONSTANTS
  Meeting = {m1, m2}
  NoMeeting = NoMeeting
  Slot = {c1, c2}
  MaxClicks = 3
  MaxChanges = 1
  MaxFaults = 1

INVARIANT SelectionIsKept
PROPERTY ScreenCatchesUp
