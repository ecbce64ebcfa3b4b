\* Any sequence of define, modify, delete, ignore and frames.
SPECIFICATION TableSpec
CONSTANTS
  Undefined = Undefined
  Names = {staub1, staub2}
  Ids <- MCIds
  Typed <- MCTyped
INVARIANTS
  TypeOK
  Reachable
  NotInherited
