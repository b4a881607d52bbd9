SPECIFICATION FairSpec
CONSTANTS
  s1 = s1
  s2 = s2
  e1 = e1
  a = a
  b = b
  Sessions <- MCSessions
  Editors <- MCNoEditors
  NoSession = NoSession
  Tracks <- MCTracks
  Versions <- MCVersions
  NoPrint = NoPrint
  MaxVersions = 1
  MaxEdits = 0
  MaxFailures = 0
  MaxFaults = 1
PROPERTIES
  LibraryReflected
