SPECIFICATION Spec
CONSTANTS
  a1 = a1
  a2 = a2
  Absent = Absent
  Accounts <- Accounts2
  WIFI_RESTART_NUM = 2
INVARIANTS
  FallsBackToSmartconfig
