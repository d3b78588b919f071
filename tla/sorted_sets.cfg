CONSTANTS
  Members <- TwoMembers
  Numbers <- Floats
  Infinity = 1
  NaN = NaN
  Absent = Absent
  MaxLevel = 1
  MaxNodes = 3
  NodeBytes = 2
  LinkBytes = 1
  DefaultCount = 2
  MaxCount = 3
  ExamineFactor = 2
  ScanCounts = {1}
  Patterns <- NoPattern
SPECIFICATION SortedSetsSpec
INVARIANTS SortedSetsTypeOK ListAgrees QueriesExact CursorsComplete
PROPERTY ImplementsOrderedSet
