\* Two daemon exits and two failed appends, polls or kills. The daemon idles once the bounds are spent.
SPECIFICATION Spec

CONSTANTS
  Client = {c1, c2}
  Proposal = {p1, p2}
  NoClient = NoClient
  NoProposal = NoProposal
  MaxJobs = 2
  MaxIgnores = 1
  MaxCrashes = 2
  MaxFaults = 2

INVARIANTS
  IInv
  SingleWorker
  WorkerIsSupervised
  StartedOncePerBoot
  CompletedHasArtifact
  OneJobPerApproval
  OpenJobIsOwned

PROPERTIES
  TerminalIsFinal

CHECK_DEADLOCK FALSE
