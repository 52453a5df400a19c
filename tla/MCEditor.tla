------------------------------ MODULE MCEditor ------------------------------
(* Short texts with every kind of line end, read two bytes at a time.                   *)
EXTENDS EditorInv

MCTexts == [l1 |-> {<<"a", "CR", "LF">>, <<"CR", "LF", "a", "a">>, <<"a", "LF", "LF", "CR">>},
            l2 |-> {<<"c">>}, r1 |-> {<<"d", "d", "CR", "LF">>}]
MCTyped == {<<"b">>}
=============================================================================
