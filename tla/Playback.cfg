SPECIFICATION PlaybackSpec
CONSTANTS
  c1 = c1
  c2 = c2
  e1 = e1
  e2 = e2
  t1 = t1
  t2 = t2
  f1 = f1
  f2 = f2
  h1 = h1
  h2 = h2
  h3 = h3
  Viewer = {c1, c2}
  Hash = {h1, h2}
  TorrentFile = {f1, f2}
  Offers <- MCOffers
  Length <- MCLength
  MaxBytes = 3
  MaxPrunes = 1
  Nothing = None
  Caller = {c1, c2}
  Candidates <- MCCandidates
  Video = {e1, e2}
  TorrentId = {t1, t2}
  NoId = None
  Torrent = {h1, h2}
  Avoided = {h1}
  NoTorrent = None
  Heights = {0, 720, 1080}
  Limits = {1, 2}
  MaxPool = 3
  Seeker = {c1, c2}
  Torrents = {h1, h2, h3}
  Anything = Anything
  Unreadable = Unreadable
  Answers <- MCAnswers
  FreshFor <- MCFreshFor
  KeptFor <- MCKeptFor
  ListLimit = 2
  TryLimit = 2
  SeekPermits = 1
  LastHour = 1
SYMMETRY MCSymmetry
VIEW MCView
CHECK_DEADLOCK FALSE
INVARIANTS
  DiscoverySound
  TorrentInv
  DebridInv
  PickSound
