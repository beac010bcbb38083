\* Containers whose user is root.
CONSTANTS
  Modes = {"attach", "exec"}
  Kernels = {{"mnt", "uts", "cgroup", "pid", "net", "ipc", "user"}}
  Users = {"root"}
  MayFail = FALSE
  MayEnd = FALSE
SPECIFICATION Spec
INVARIANT ProfileInherited
