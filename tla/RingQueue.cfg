SPECIFICATION Spec
INVARIANTS
  TypeOK
  PowerOfTwo
  NotSparse
PROPERTIES
  ImplementsDeque
CONSTANTS
  Value = {a, b}
  None = None
  Panic = Panic
  NewQueue = TRUE
  MaxLength = 9
