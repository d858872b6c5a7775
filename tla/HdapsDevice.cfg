CONSTANTS
  Tasks = {t1, t2}
  Rates = {2, 5}
  Ratios = {1, 4}
  Orders <- MCOrders
  EcWord = 16
  OrderWord = 2
SPECIFICATION Spec
SYMMETRY Symmetry
INVARIANTS
  TypeOK
  ConfigAgrees
  RatioReadsBack
  LeavesNothing
