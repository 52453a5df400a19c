------------------------------ MODULE MCInstall ------------------------------
(* Packages whose licence comes as a rap, or as a rif.                                    *)
EXTENDS InstallInv

MCContent == [p1 |-> "c1", p2 |-> "c2"]
MCBeside == [c1 |-> {"rap", "rif"}, c2 |-> {"rif"}]
MCIds == 1 .. 4
=============================================================================
