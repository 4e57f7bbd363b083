SPECIFICATION StoresSpec
CONSTANTS
  c1 = c1
  c2 = c2
  e1 = e1
  e2 = e2
  m1 = m1
  Upload = {c1, c2}
  Editor = {u1}
  None = None
  Item = {e1, e2, m1}
  JobOf <- MCJobOf
  Save = {c1, c2}
  Form = {u1}
  NoItem = None
  Title = {e1, e2}
  NoTitle = None
  Series <- MCSeries
  Request = {c1, c2}
  MaxList = 1
  Session = {e1, e2}
  Legacy = Legacy
  Access = {c1, c2}
  Source = {h1}
  NoSource = None
  MaxReports = 1
  Contents <- MCContents
  Asker = {c1, c2}
  Requests <- MCRequests
  Sidecars <- MCSidecars
  Ranked <- MCRanked
  Addon <- MCAddon
  Menu <- MCMenu
  Word <- MCWord
  TrackLimit = 2
  TextFor = 0
  ProbeFor = 1
  SearchFor = 1
  LastTick = 2
SYMMETRY MCSymmetry
VIEW MCView
CHECK_DEADLOCK FALSE
INVARIANTS
  LibraryInv
  GalleryInv
  HistoryInv
  SessionsInv
  MediaRight
PROPERTIES
  UploadsAdd
