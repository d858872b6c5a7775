CONSTANTS
  Tasks = {t1, t2}
  Poll = Poll
  Nobody = Nobody
  Readouts = {r1, r2}
  Nowhere = Nowhere
  Orientations <- MCOrientations
SPECIFICATION FairSpec
INVARIANTS
  TypeOK
  SettledPosition
  RestFitsOrientation
PROPERTY CalibrationServed
