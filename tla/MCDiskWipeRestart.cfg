SPECIFICATION Spec
CONSTANTS
  Devices <- MCSmallDevices
  Volatile = {"d"}
  Mountable = {}
  Configs <- MCRestartConfigs
  Super = 2
  MaxDevs = 2
  MaxAvail = 4
  MaxRuns = 3
INVARIANTS LabelsInPlace ExitZeroMeansWiped ExitZeroMeansDurable VerifyOkMeansWiped
CHECK_DEADLOCK FALSE
