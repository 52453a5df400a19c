\* An archive with every kind of entry, another with one of its names; three failing calls.
CONSTANTS
  Nodes = {"D", "f", "S", "g", "h"}
  Dirs = {"D", "S"}
  Parent <- MCParent
  Below <- MCBelow
  Listing <- MCListing
  Folders = {2}
  Entries = {"xa", "xd", "xb", "xo", "xl", "ya", "yb"}
  Kind <- MCKind
  Name <- MCName
  Names = {"a", "d", "d/b", "l", "b"}
  In <- MCIn
  MaxFails = 3
SPECIFICATION ArchiveSpec
INVARIANTS ExtractedOrTold LostIsTold ZippedOrTold
\* The threads end.
CHECK_DEADLOCK FALSE
