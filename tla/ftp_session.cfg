\* Two names; every failure; one reply left unread per connection.
CONSTANTS
  Files = {"f", "g"}
  Failures = {"refuse", "drop", "cut", "rest", "data", "long", "disk"}
  MaxBehind = 1
SPECIFICATION FairSpec
INVARIANTS InStep Truthful
PROPERTIES OverwriteAsked OpEnds
VIEW Current
