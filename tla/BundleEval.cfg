SPECIFICATION Spec
CONSTANTS
  TargetPackage = ""
  TargetRule = "allow"
  NoValue = NoValue
  Failing = Failing
  Bundles <- SmallBundles
INVARIANTS
  TypeOK
  ScanInv
PROPERTY
  CompleteRuleImplemented
CHECK_DEADLOCK FALSE
