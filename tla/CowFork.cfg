SPECIFICATION MCSpec
CONSTANTS
  Env = {a, b, c}
  First = a
  Page = {1, 2, 3, 4, 5, 6, 7}
  Value = {0, 1}
  None = None
INVARIANTS WritableIsOwn NoBadFault
PROPERTIES ImplementsPrivateMemory
CHECK_DEADLOCK FALSE
VIEW MCView
SYMMETRY MCSymmetry
