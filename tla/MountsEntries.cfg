\* A container whose /bin is a symbolic link to a directory.
CONSTANTS
  Hosts <- OneHost
  Box <- BoxTable
  Base <- BaseDir
  Localtime <- LocaltimePath
  Escaped <- EscapedPaths
  EntryKind <- AllEntries
  MayFail = FALSE
  BoxMoves = FALSE
  MaxSpoiled = 0
SPECIFICATION Spec
INVARIANT AllEntriesShown
