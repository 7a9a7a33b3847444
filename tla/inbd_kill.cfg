SPECIFICATION MCSpec
CONSTANTS
  Calls = {c1}
  OSs = {"emt"}
  MaxVersion = 1
  MaxSota = 2
  MaxOthers <- MCMaxOthers
  Faults = {"kill"}
  MaxFaults = 1
PROPERTY RevertReverts
CHECK_DEADLOCK FALSE
