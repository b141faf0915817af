SPECIFICATION Spec
CONSTANTS
  Fixtures <- MCFixtures
  Rivals <- MCRivals
  Reference = "zopa-compiled"
  Window <- MCWindow
  Stalls <- MCStalls
  Costs <- MCCosts
  Thresholds <- MCThresholds
  Runners <- MCRunners
INVARIANTS
  TypeOK
  NoFalseAlarm
  SlowdownCaught
  BaselineAcceptsItself
