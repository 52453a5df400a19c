\* Folder D with file a (hidden where listings look at that) and subfolder S with file c, and file f.
CONSTANTS
  Nodes = {"D", "a", "S", "c", "f"}
  Dirs = {"D", "S"}
  Parent <- MCParent
  Below <- MCBelow
  Servers = {"smb", "nfs", "dav", "http"}
  Jobs = {"upload", "download", "copy", "move"}
  Dotted = {"a"}
  Present = {"D", "a", "S", "c"}
SPECIFICATION Spec
INVARIANTS FailureTold LeakEndsEntry
PROPERTIES ReplacedWithConsent Relocates
\* The transfer ends.
CHECK_DEADLOCK FALSE
