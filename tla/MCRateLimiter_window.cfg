SPECIFICATION Spec
CONSTANTS
  Attempts = {a1, a2, a3}
  Max = 1
  Window = 2
  MaxTime = 5
  None = None
SYMMETRY Symmetry
CHECK_DEADLOCK FALSE
INVARIANTS
  MaxPerInterval
  RefusedOnlyWhenBusy
  IdleKeysExpire
