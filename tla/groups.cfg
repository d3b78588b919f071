CONSTANTS
  SeqSpace = 3
  MaxMillis = 1
  MaxSeq = 1
  MaxEntries = 2
  ExplicitIds <- LastOfFirstMilli
  Groups = {"g"}
  Consumers = {"c1", "c2"}
  Nobody = "nobody"
  HistoryIds <- FirstId
  MaxPending = 2
  CursorIds <- FirstId
SPECIFICATION Spec
INVARIANTS GroupsTypeOK StreamCoherent RangeExact 
PROPERTY NewEntriesOnce
