SPECIFICATION FairSpec
CONSTANTS
  Inputs = {"KEY", "SHOCK", "LOCK", "UNLOCK"}
  Powered = {"KEY", "LOCK", "UNLOCK"}
  Instant = {"SHOCK"}
  OUTS <- MCOUTS
  INP_LIMIT = 1
  INP_LIMIT_DACT = 1
  ONE_GAP = 2
  TWO_GAP = 3
  BATT_TEST_TM = 3
  FAIL_FILTER = 1
  OK_FILTER = 2
  Cases <- MCCases
PROPERTIES
  InputsFollow
  OutputsFollow
  PowerTold
