SPECIFICATION Spec
CONSTANTS
  c1 = c1
  c2 = c2
  c3 = c3
  s1 = s1
  s2 = s2
  Calls <- MCCalls
  Songs <- MCSongs
  NoCall = NoCall
  NoSong = NoSong
  Backend = "s3"
  MaxCrashes = 1
PROPERTIES
  StoreSpec
