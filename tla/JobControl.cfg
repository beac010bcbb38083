\* 9 is SIGKILL, 13 SIGPIPE, 34 a real-time signal without a name.
CONSTANTS
  Codes = {0, 3}
  Signals = {9, 13, 34}
  Named = {9, 13}
  Ignored = {13}
  MaxStops = 3
SPECIFICATION FairSpec
INVARIANTS TypeOK StatusPropagated
PROPERTY StoppedChildAnswered
