----------------------------- MODULE MCArchive ------------------------------
(* Two archives with a name in common and a folder marked between them; a folder with a  *)
(* file and a subfolder to put in an archive, and a file.                                *)
EXTENDS ArchiveInv

MCListing == << <<"xa", "xd", "xb", "xo", "xl">>, <<>>, <<"ya", "yb">> >>
MCKind == [xa |-> "file", xd |-> "dir", xb |-> "file", xo |-> "other", xl |-> "link",
           ya |-> "file", yb |-> "file"]
MCName == [xa |-> "a", xd |-> "d", xb |-> "d/b", xo |-> "a", xl |-> "l", ya |-> "a", yb |-> "b"]
MCIn == [n \in Names |-> IF n = "d/b" THEN "d" ELSE top]

MCParent == [n \in Nodes |-> CASE n \in {"f", "S"} -> "D" [] n = "g" -> "S" [] OTHER -> top]
MCBelow  == [n \in Nodes |-> CASE n = "D" -> {"f", "g", "S"} [] n = "S" -> {"g"} [] OTHER -> {}]
=============================================================================
