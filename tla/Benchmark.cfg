SPECIFICATION Spec
CONSTANTS
  Fixtures <- MCFixtures
  Policies <- MCPolicies
  Servers <- MCServers
  Ports <- MCPorts
  Selections <- MCSelections
  Machines <- MCMachines
  Versions <- MCVersions
  MaxPolls = 2
INVARIANTS
  TypeOK
  CleanExitIsComplete
  NoSidecarLost
  AskedAboutItsFixture
  HarnessTriedOnce
  NoUnmeasuredClaim
PROPERTIES
  BenchmarkImplemented
  TimingBuildsNothing
  RunEnds
