-------------------------------- MODULE MCExec --------------------------------
(* A command that writes up to three bytes to each stream, in portions of    *)
(* one or two, to a waitfor that keeps two. *)
EXTENDS Exec

MCChunks == {<<"x">>, <<"x", "m">>}
=============================================================================
