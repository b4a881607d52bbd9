SPECIFICATION Spec
CONSTANTS
  r1 = r1
  r2 = r2
  b1 = b1
  b2 = b2
  s1 = s1
  x = x
  y = y
  z = z
  n1 = n1
  n2 = n2
  Requests <- MCRequests
  Albums <- MCAlbums
  Songs <- MCSongs
  AppleArtists <- MCAppleArtists
  Names <- MCNames
  NameOf <- MCNameOf
  Credit <- MCCredit
  AlbumOf <- MCAlbumOf
  Discography <- MCDiscography
  Starrable <- MCStarrable
  None = None
  HintsMax = 2
  MaxRequests = 2
  MaxFound = 1
  MaxMissed = 1
SYMMETRY Symmetry
CHECK_DEADLOCK FALSE
INVARIANTS
  TypeOK
  RightArtist
  ReferencesResolve
PROPERTIES
  KeepsDownloads
