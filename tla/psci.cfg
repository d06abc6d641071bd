SPECIFICATION Spec
CONSTANTS
  Cpus = {"a0", "a1", "b0"}
  Clusters = {"A", "B"}
  Cluster <- MCCluster
  System = "S"
  BootCpu = "a0"
  Calls <- MCCalls
  BeyondWipe = FALSE
INVARIANTS
  Coherent
  DomainsRun
  EntersWithContext
  NoPanic
  AnswersFresh
  Rousable
PROPERTIES
  AffinityCycle
