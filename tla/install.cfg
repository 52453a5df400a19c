\* Two packages and a folder, two installs, and a failing call.
CONSTANTS
  Packages = {"p1", "p2"}
  Contents = {"c1", "c2"}
  Content <- MCContent
  Others = {"folder"}
  Beside <- MCBeside
  Ids <- MCIds
  MaxStarts = 2
  MaxFails = 1
SPECIFICATION Spec
INVARIANTS SuccessQueued Licensed
PROPERTIES TasksKept
