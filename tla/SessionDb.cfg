CONSTANTS
  Id <- Plain
  Empty = 0
  Nil = Nil
  Null = Null
  NoAnswer = NoAnswer
SPECIFICATION Spec
INVARIANTS Links Balanced Brief
PROPERTY IsASet
