CONSTANTS
  Tasks = {t1, t2}
  Minutes = {0, 2, 4}
  MaxMinutes = 3
  Readings <- MCReadings
  Empty = Empty
SPECIFICATION Spec
SYMMETRY Symmetry
INVARIANTS
  TypeOK
  LeavesNothing
  
  ShowsABattery
