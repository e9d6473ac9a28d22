SPECIFICATION Spec
CONSTANTS
  Radix = 2
  Threads = {t1, t2}
  KeyWords = {1, 2}
  Archs = {"arm", "x86", "none"}
  Calls <- MCCalls
  MaxCalls = 2
INVARIANTS KeysNeverTorn LabelsRight
CHECK_DEADLOCK FALSE
