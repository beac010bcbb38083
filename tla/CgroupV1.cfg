\* Any host; the property speaks of those with v1 hierarchies only.
CONSTANTS
  Controllers = {"cpu", "memory"}
  Paths = {"box", "cpu"}
  OptCounts = {0, 1, 2}
  Sources = {"cgroup", "cgroup2"}
SPECIFICATION Spec
INVARIANT MovedOnV1
