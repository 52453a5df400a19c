\* Folder D with file a and subfolder S with file c, and file f; the last bytes may fail.
CONSTANTS
  Nodes = {"D", "a", "S", "c", "f"}
  Dirs = {"D", "S"}
  Parent <- MCParent
  Below <- MCBelow
  ReadErrors = FALSE
  FlushErrors = {"cut", "copy"}
SPECIFICATION Spec
INVARIANT NoFileLost
\* The paste ends.
CHECK_DEADLOCK FALSE
