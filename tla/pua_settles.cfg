SPECIFICATION MCSpec
CONSTANTS
  OsTypes = {"emt", "ubuntu"}
  i1 = i1
  i2 = i2
  Images <- MCImages
  NoImage = NoImage
  Empty = Empty
  AskedSources = {"cmd"}
  MaxFaults = 1
  MaxChanges <- EmtChanges
PROPERTY DesiredConverges
PROPERTY UpdatedIsReported
PROPERTY OrderedUpdateResolves
PROPERTY SelfUpdateContinues
