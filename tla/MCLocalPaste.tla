---------------------------- MODULE MCLocalPaste ----------------------------
(* A folder with a file and a subfolder that holds a file, and a file beside it. *)
EXTENDS LocalPasteInv

MCParent == [n \in Nodes |-> IF n \in {"a", "S"} THEN "D" ELSE IF n = "c" THEN "S" ELSE top]
MCBelow  == [n \in Nodes |-> CASE n = "D" -> {"a", "S", "c"} \cap Nodes [] n = "S" -> {"c"} [] OTHER -> {}]
=============================================================================
