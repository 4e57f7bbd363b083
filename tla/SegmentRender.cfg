SPECIFICATION FairSpec
CONSTANTS
  Path = {p1, p2}
  JobPath = {p2}
  Call = {c1, c2}
  Preferred = {"hw", "none"}
  MaxRenders = 1
  None = None
INVARIANTS
  SegmentInv
PROPERTIES
  NoWastedRender
  RenderEnds
