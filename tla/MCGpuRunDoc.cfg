SPECIFICATION Spec
CONSTANTS
  Calls <- MCCalls
  MaxFit = 4
  Cap = 3
INVARIANTS ScratchZeroedBeforeReturn
