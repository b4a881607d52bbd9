SPECIFICATION FairSpec
CONSTANTS
  s1 = s1
  s2 = s2
  r1 = r1
  b1 = b1
  c1 = c1
  c2 = c2
  Songs <- MCSongs
  Requests <- MCRequests
  Jobs <- MCJobs
  Calls <- MCCalls
  Nobody = Nobody
  NoSong = NoSong
  NoCall = NoCall
  Album <- MCAlbum
  Playlists <- MCPlaylists
  Slots = 1
  Hold = TRUE
  PlayAlbum = TRUE
  DownloadPlaylist = TRUE
INVARIANTS
  ReadFindsSong
  SlotsRespected
PROPERTIES
  NoStrayGoroutine
  AnsweredUnlessFailing
