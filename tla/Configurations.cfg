SPECIFICATION ConfigurationSpec
CONSTANTS
  Absent = Absent
  Unreadable = Unreadable
  NoPolicy = NoPolicy
  NoArena = NoArena
  Streams = {s1}
  Arenas = {r1, r2}
  Documents <- AllDocuments
  MaxBody = 1
  MaxLength = 0
INVARIANTS
  NoRuleIgnored
PROPERTIES
  GateImplemented
CHECK_DEADLOCK FALSE
