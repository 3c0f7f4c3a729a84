CONSTANTS
  Keys = {k1, k2, k3}
  Absent = Absent
  Unset = Unset
  PageSizes = {1, 2}
  MaxLimit = 1
  MaxClock = 3
SPECIFICATION Spec
SYMMETRY MCSymmetry
INVARIANTS
  PagesMissNone
  
  StoresAgree
CHECK_DEADLOCK FALSE
