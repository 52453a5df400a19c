----------------------------- MODULE MCDeletion -----------------------------
(* A folder with a file and a subfolder that holds two files, an empty folder and a     *)
(* file beside it.                                                                      *)
EXTENDS DeletionInv

MCParent == [n \in Nodes |-> CASE n \in {"a", "S"} -> "D" [] n \in {"b", "c"} -> "S"
                               [] OTHER -> top]
MCBelow  == [n \in Nodes |-> CASE n = "D" -> {"a", "b", "c", "S"} [] n = "S" -> {"b", "c"}
                               [] OTHER -> {}]
=============================================================================
