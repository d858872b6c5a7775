CONSTANTS
  Slots = {_a, _b}
  Empty = Empty
SPECIFICATION Spec
CHECK_DEADLOCK FALSE
INVARIANTS
  TypeOK
  FirstSwitchBoots
  FailureKeepsCfg
PROPERTY StaysBootable
