SPECIFICATION Spec
CONSTANTS
  iris = iris
  marius = marius
  r1 = r1
  r2 = r2
  Tokens = {t1}
  Users = {iris, marius}
  Defaults <- MCDefaults
  Configs <- MCConfigs
  Requests <- MCRequests
  Runs = {r1, r2}
  Ttl = 1
  MaxNow = 3
  MaxPuts = 2
  None = None
SYMMETRY MCRunSymmetry
CHECK_DEADLOCK FALSE
INVARIANT SuccessIsBooked
