\* The ledger can be written; the daemon may exit twice and idles once the bounds are spent.
SPECIFICATION FairSpec

CONSTANTS
  Client = {c1, c2}
  Proposal = {p1, p2}
  NoClient = NoClient
  NoProposal = NoProposal
  MaxJobs = 2
  MaxIgnores = 1
  MaxCrashes = 2
  MaxFaults = 0

PROPERTIES
  RequestedJobEnds
  ImplementsBoard

CHECK_DEADLOCK FALSE
