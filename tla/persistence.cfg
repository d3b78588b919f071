CONSTANTS
  Keys = {"a", "b"}
  SaveRules <- AnyChange
  Saved <- OldKey
  Ttls <- EitherTtl
  MaxWrites = 1
  MaxSaves = 1
  MaxFaults = 1
  MaxTime = 1
SPECIFICATION Spec
INVARIANTS PersistenceTypeOK DumpComplete LoadsRecent
PROPERTIES BgsaveEnds ChangesTrigger
