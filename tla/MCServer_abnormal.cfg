SPECIFICATION Spec
CONSTANTS
  Groups = 1
  Period = 1
  MaxConns = 1
  MaxDrift = 0
  MaxUploads = 1
INVARIANT
  RowIsNormal
CHECK_DEADLOCK FALSE
