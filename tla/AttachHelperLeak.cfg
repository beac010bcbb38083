CONSTANTS
  MayFail = FALSE
  MayKill = FALSE
SPECIFICATION Spec
INVARIANT HelperReapedAtExit
