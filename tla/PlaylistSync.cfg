SPECIFICATION FairSpec
CONSTANTS
  s1 = s1
  s2 = s2
  e1 = e1
  a = a
  b = b
  Sessions <- MCSessions
  Editors <- MCEditors
  NoSession = NoSession
  Tracks <- MCTracks
  Versions <- MCVersions
  NoPrint = NoPrint
  MaxVersions = 1
  MaxEdits = 1
  MaxFailures = 1
  MaxFaults = 1
INVARIANTS
  TypeOK
  OneSyncAtATime
  FingerprintTells
PROPERTIES
  ReflectedUnlessSpoiled
