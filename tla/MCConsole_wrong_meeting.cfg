\* A poll that answers after another meeting was selected.
SPECIFICATION FairSpec

CONSTANTS
  Meeting = {m1, m2}
  NoMeeting = NoMeeting
  Slot = {c1, c2}
  MaxClicks = 2
  MaxChanges = 1
  MaxFaults = 0

PROPERTY SelectedOwnsControls
