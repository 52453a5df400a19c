\* Two local files and a remote one; two bytes are read at once, a line goes to the keyboard with one.
CONSTANTS
  LocalFiles = {"l1", "l2"}
  RemoteFiles = {"r1"}
  Bytes = {"a", "b", "c", "d", "CR", "LF"}
  Texts <- MCTexts
  Typed <- MCTyped
  Chunk = 2
  Width = 1
  MaxActs = 3
  MaxLines = 3
SPECIFICATION Spec
INVARIANTS OfferedLine LoadExact
PROPERTIES SavedToSource SavedText KeyboardReturns
\* The keyboard may not have come up, and the program may have crashed.
CHECK_DEADLOCK FALSE
