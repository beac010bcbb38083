\* The kinds of namespaces that matter to the order, and a kernel without
\* mount namespaces.
CONSTANTS
  Modes = {"attach", "exec"}
  Kernels = {{"mnt", "uts", "pid", "net", "user"}, {"uts", "net"}}
  Users = {"root", "other"}
  MayFail = TRUE
  MayEnd = TRUE
SPECIFICATION Spec
INVARIANTS TypeOK AllJoined Bounded Confined EntryWorks
