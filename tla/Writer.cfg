SPECIFICATION Spec
CONSTANTS
  c = c
  u1 = u1
  d = d
  none = none
  Create <- MCCreate
  Update <- MCUpdate
  Delete <- MCDelete
  MaxBreaks = 1
INVARIANTS RepeatsOnlyAfterBreak ChangesAreTold AcceptedIsQueued CacheMirrors
CHECK_DEADLOCK FALSE
