\* Folder D with file a and subfolder S with files b and c, empty folder E, and file f; b is hidden.
CONSTANTS
  Nodes = {"D", "a", "S", "b", "c", "E", "f"}
  Dirs = {"D", "S", "E"}
  Parent <- MCParent
  Below <- MCBelow
  Servers = {"local", "smb", "nfs", "dav"}
  Dotted = {"b"}
SPECIFICATION Spec
INVARIANTS LeftIsTold NoFalseAlarm CancelHolds
\* The deletion ends.
CHECK_DEADLOCK FALSE
