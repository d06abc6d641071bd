SPECIFICATION Spec
CONSTANTS
  Cpus = {"a0", "a1", "b0"}
  Clusters = {"A", "B"}
  Cluster <- MCCluster
  System = "S"
  BootCpu = "a0"
  Calls <- MCCalls
  BeyondWipe = TRUE
INVARIANT
  SnapshotSafe
