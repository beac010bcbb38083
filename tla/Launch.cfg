\* Every command line of up to four arguments, and a container that changes
\* between the reads; the ids are those of three bits.
CONSTANTS
  Users <- AllUsers
  Types <- AllTypes
  Dashed <- Options
  Homes <- HomeOf
  Inputs <- AllInputs
  MaxId = 7
  CAP_SYS_CHROOT = 2
  CAP_SYS_PTRACE = 3
  MaxArgs = 4
SPECIFICATION Spec
INVARIANTS CommandAsGiven UserOfContainer CapsOfContainer LabelAsAsked EnvironmentOfContainer
