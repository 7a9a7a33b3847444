SPECIFICATION MCSpec
CONSTANTS
  OsTypes = {"emt", "ubuntu"}
  i1 = i1
  i2 = i2
  Images <- MCImages
  NoImage = NoImage
  Empty = Empty
  AskedSources = {"nil", "none", "cmd"}
  MaxFaults = 1
  MaxChanges <- NoChanges
INVARIANT UpdateExcludesDownload
PROPERTY ClearedOnlyWhenReported
PROPERTY UpdatedNamesItsImage
