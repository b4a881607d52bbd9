SPECIFICATION EagerSpec
CONSTANTS
  c1 = c1
  c2 = c2
  c3 = c3
  s1 = s1
  s2 = s2
  Calls <- MCOneCall
  Songs <- MCOneSong
  NoCall = NoCall
  NoSong = NoSong
  Backend = "filesystem"
  MaxCrashes = 1
PROPERTIES
  StoredIsMarked
