---------------------------- MODULE MCFtpControl ----------------------------
(* Two names in the remote folder. *)
EXTENDS FtpControlInv

\* What is told of a file, and of the last transfer while somebody may ask.
Telling == IF told # <<>> /\ told[1] \in DOMAIN LastCommand THEN told ELSE <<>>
Ending  == at = "read" /\ verb = "DONE" /\ call \in {"Get", "Put"}

\* The state without what nothing reads any more: the rule and the answer of an upload
\* that is over, the name the last call was about, the end of a transfer long told.
Current ==
  <<server, connected, call, at, script, offset, op, todo, marked, behind, Telling,
    IF op = "upload" THEN <<rule, yes>> ELSE <<>>,
    IF op = "none" THEN FALSE ELSE blind,
    IF \/ op \in {"upload", "create", "download", "extract", "header", "edit", "save", "rename"}
       \/ call = "Delete"
      THEN file ELSE "folder",
    IF Ending \/ Telling # <<>> THEN <<whole, spoiled>> ELSE <<>>>>
=============================================================================
