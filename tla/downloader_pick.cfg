SPECIFICATION Spec
CONSTANTS
  studio = studio
  live = live
  other = other
  Mbids = {m1}
  Videos <- MCVideos
  NoVideo = NoVideo
  Playlist = Playlist
  Clean <- MCClean
  Similar <- MCSimilar
  Linked <- MCLinked
  Score <- MCScore
  PreferFlac = FALSE
  Search = Search
  Threads = {t1, t2}
  NoCall = NoCall
  NoFile = NoFile
  MaxTries = 2
  MaxAsks = 1
  MaxExits = 1
CHECK_DEADLOCK FALSE
INVARIANT PickedIsImported
