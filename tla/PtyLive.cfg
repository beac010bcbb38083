\* The parents of attach and exec; nothing fails.
CONSTANTS
  BUF_SIZE = 2
  MaxBytes = 2
  Room <- RoomOne
  PtyRoom = 1
  Sizes = {"s1", "s2"}
  Starts = {"open", "unopened"}
  MayFail = FALSE
  MayHangup = FALSE
SPECIFICATION FairSpec
INVARIANT BlocksUntilChildExits
PROPERTIES ChildGoneEndsForward WindowFollows OutputForwarded
