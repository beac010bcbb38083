\* Any call fails, and the container changes its root meanwhile.
CONSTANTS
  Hosts <- HostTables
  Box <- BoxTable
  Base <- BaseDir
  Localtime <- LocaltimePath
  Escaped <- EscapedPaths
  EntryKind <- BoxEntries
  MayFail = TRUE
  BoxMoves = TRUE
  MaxSpoiled = 2
SPECIFICATION Spec
INVARIANTS TypeOK SameFiles OneLayer IdmapApplied MountPointsPlaced EntriesShown
PROPERTY OnlyOwnMounts
