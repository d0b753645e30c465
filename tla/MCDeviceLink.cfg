SPECIFICATION Spec
CONSTANTS
  Keys = {k1, k2}
  Flows = {f1, f2}
  Handlers = {f1, f2}
  MaxCommands = 2
  NoFlow = NoFlow
  NoApproval = NoApproval
  NoKey = NoKey
  Horizon = 1
  MaxTime = 2
  MaxNonce = 2
SYMMETRY Symmetry
CHECK_DEADLOCK FALSE
INVARIANTS OneApprovalOut SubmittedIsSaved NoOrphanKey RemovedIsTrue
