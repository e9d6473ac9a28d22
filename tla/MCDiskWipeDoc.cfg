SPECIFICATION Spec
CONSTANTS
  Devices <- MCDevices
  Volatile = {}
  Mountable = {"d1"}
  Configs <- MCConfigs
  Super = 2
  MaxDevs = 3
  MaxAvail = 4
  MaxRuns = 1
INVARIANTS FirstAndLastSampled
