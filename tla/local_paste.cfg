\* Folder D with file a and subfolder S with file c, and file f; any call may fail, but the last bytes of a move.
CONSTANTS
  Nodes = {"D", "a", "S", "c", "f"}
  Dirs = {"D", "S"}
  Parent <- MCParent
  Below <- MCBelow
  ReadErrors = TRUE
  FlushErrors = {"copy"}
SPECIFICATION FairSpec
INVARIANTS Complete
PROPERTIES ReplacedWithConsent Relocates PasteEndsOrReads
\* The paste ends.
CHECK_DEADLOCK FALSE
