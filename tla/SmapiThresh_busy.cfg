CONSTANTS
  Tasks = {t1, t2}
  PM = PM
  Nobody = Nobody
  bat = 0
  Requests <- MCRequests
  InitialThresh = {0}
  BiosCodes <- MCCodesWithBusy
  SMAPI_MAX_RETRIES = 2
SPECIFICATION Spec
SYMMETRY Symmetry
INVARIANT StoreEndsValid
