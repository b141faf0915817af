SPECIFICATION Spec
CONSTANTS
  Absent = Absent
  Unreadable = Unreadable
  NoPolicy = NoPolicy
  NoArena = NoArena
  Streams = {s1}
  Arenas = {r1, r2}
  Documents <- StreamDocuments
  MaxBody = 1
  MaxLength = 2
INVARIANT
  AdvisoryNeverBlocks
