\* Every interleaving of the GUI with two threads, up to the first race.
CONSTANTS
  t1 = t1
  t2 = t2
  Threads = {t1, t2}
  MaxFiles = 2
  Offered = {"UPLOAD", "REMOTE_PASTE", "DELETE_REMOTE"}
  Rules = {"replace"}
SPECIFICATION Spec
INVARIANTS OneActivity OverwriteConsent Cancellable PausedHasReason QuestionShown
PROPERTIES DeleteConsent CancelSticks
\* After a race only PausedHasReason claims anything, and its proof covers that.
CONSTRAINT NoRace
SYMMETRY AnyThread
\* Start ends the program.
CHECK_DEADLOCK FALSE
