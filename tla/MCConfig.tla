------------------------------ MODULE MCConfig ------------------------------
(* Values of settings with and without the characters an ini file gives a meaning. *)
EXTENDS ConfigInv

Odd(t, m) == [text |-> t, mark |-> m, enc |-> FALSE]

MCServers   == {Plain("http"), Plain("dav")}
MCFolders   == {Odd("games", "brackets"), Odd("games", "semi")}
MCLocalFolders == MCFolders \cup {Plain("games")}
MCPasswords == {Plain("secret")}
=============================================================================
