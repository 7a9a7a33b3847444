SPECIFICATION MCSpec
CONSTANTS
  Calls = {c1, c2}
  OSs = {"emt", "ubuntu"}
  MaxVersion = 1
  MaxSota = 2
  MaxOthers <- MCMaxOthers
  Faults = {"kill", "power", "reboot", "commit", "overlap"}
  MaxFaults = 1
INVARIANTS ArmedIsRecorded SuccessNamesRunning NodeStarts ServedImageIsKept
PROPERTIES TrialsAreJudged FirmwareNeverOlder Settles
CHECK_DEADLOCK FALSE
