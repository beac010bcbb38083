\* attach and exec (the slave opened first, late or never), faults and hangups.
CONSTANTS
  BUF_SIZE = 2
  MaxBytes = 3
  Room <- RoomOne
  PtyRoom = 2
  Sizes = {"s1"}
  Starts = {"open", "unopened"}
  MayFail = TRUE
  MayHangup = TRUE
SPECIFICATION Spec
INVARIANTS TypeOK NoByteLost InOrder OutputComplete RawOnlyWhileForwarding
PROPERTY ImplementsRelay
