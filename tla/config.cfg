\* Two sites; values with and without a ';' or brackets; one write breaks off.
CONSTANTS
  Sites = {"Site 1", "Site 2"}
  Servers <- MCServers
  Folders <- MCFolders
  LocalFolders <- MCLocalFolders
  Passwords <- MCPasswords
  MaxStarts = 3
  MaxEdits = 3
  MaxBroken = 1
SPECIFICATION ConfigSpec
INVARIANTS VersionKept Contained
PROPERTIES ReadBack
\* The last start is quit.
CHECK_DEADLOCK FALSE
