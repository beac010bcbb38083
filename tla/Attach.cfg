CONSTANTS
  MayFail = TRUE
  MayKill = TRUE
SPECIFICATION FairSpec
INVARIANTS TypeOK IdmapComplete HelperReapedOnError
PROPERTIES ChildNotReadyMeansDead NoCommandAfterExit ParentNeverStuck ChildEndsAttach
