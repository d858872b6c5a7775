CONSTANTS
  Tasks = {t1, t2}
  PM = PM
  Nobody = Nobody
  bat = 0
  Requests <- MCRequests
  InitialThresh = {0}
  BiosCodes <- MCCodes
  SMAPI_MAX_RETRIES = 2
SPECIFICATION FairSpec
INVARIANTS
  TypeOK
  StoreEndsValid
  ResumeRestores
PROPERTIES
  StoresKeepValid
  StoresEnd
