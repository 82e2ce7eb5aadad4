SPECIFICATION WfFairSpec
CONSTANTS
  sa = sa
  sb = sb
  sc = sc
  w1 = w1
  w2 = w2
  i1 = i1
  node = node
  wf = wf
  NoStep = NoStep
  NoRun = NoRun
  NoWorker = NoWorker
  Steps = {sa, sb, sc}
  Workers = {w1, w2, node}
  NodeWorker = node
  Inline = {i1}
  Runs <- MCRuns
  ParentOf <- MCParentOf
  Specs <- MCSpecs
  MaxTotalSpawns = 4
  MaxAttempts = 4
  PoisonCap = 1
  MaxFaults <- MCFaults
INVARIANTS WfTypeOK LaunchesFollowEdges WakesAreDue GateHolds LaunchBudget SuccessIsEarned FailFastLeavesNothing
PROPERTY WorkflowEnds
CHECK_DEADLOCK FALSE
