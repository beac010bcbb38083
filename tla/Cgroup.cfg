\* A path that is also the name of a controller included.
CONSTANTS
  Controllers = {"cpu", "memory"}
  Paths = {"box", "cpu"}
  OptCounts = {0, 1, 2}
  Sources = {"cgroup", "cgroup2"}
SPECIFICATION Spec
INVARIANTS TypeOK UnifiedJoined UnprivilegedContinues
