\* Two meetings, six rows and what boots add; one row stops decoding. The log ends when the bounds are spent.
SPECIFICATION Spec

CONSTANTS
  Meeting = {1, 2}
  Job = {j1, j2}
  Proposal = {p1, p2}
  MaxRows = 6
  MaxSourceRows = 2
  MaxMalformed = 1

INVARIANTS
  RecoverableIsWhatIsOpen
  OpenJobsAreProjected
  LatestIsProjected
  NoSecondApproval
  CatalogueIsTheLedger
  BootEndsCaptures

SYMMETRY Symmetry

CHECK_DEADLOCK FALSE
