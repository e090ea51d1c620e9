\* One daemon exit is enough to lose an approved job.
SPECIFICATION Spec

CONSTANTS
  Client = {c1, c2}
  Proposal = {p1, p2}
  NoClient = NoClient
  NoProposal = NoProposal
  MaxJobs = 2
  MaxIgnores = 1
  MaxCrashes = 1
  MaxFaults = 0

INVARIANTS
  ApprovedProposalHasJob

CHECK_DEADLOCK FALSE
