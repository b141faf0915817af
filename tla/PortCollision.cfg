SPECIFICATION Spec
CONSTANTS
  Fixtures <- MCFixtures
  Policies <- MCPolicies
  Servers <- MCServers
  Ports <- MCPorts
  Selections <- MCSelections
  Machines <- MCMachines
  Versions <- MCVersions
  MaxPolls = 2
PROPERTY CollisionIsAnExit
