\* Every interleaving of the GUI with one thread, races included, for liveness.
CONSTANTS
  t1 = t1
  Threads = {t1}
  MaxFiles = 1
  Offered = {"UPLOAD", "INSTALL_REMOTE_PKG", "EXTRACT_REMOTE_ZIP"}
  Rules = {}
SPECIFICATION FairSpec
PROPERTIES ActivityEnds
VIEW Protocol
CHECK_DEADLOCK FALSE
