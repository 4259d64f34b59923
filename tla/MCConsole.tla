----------------------------- MODULE MCConsole -----------------------------
(***************************************************************************)
(* A user who types nothing, the right letter, or too much; a picture with *)
(* pixels that look like the beginning of START, or, when the bytes before *)
(* them are lost, like a size that is negative or odd.                     *)
(***************************************************************************)
EXTENDS Console

MCTyped == {<< >>, <<"w">>, <<"x", "w">>}

MCRowBytes == {<<3, 0>>, <<200, 83>>}

=============================================================================
