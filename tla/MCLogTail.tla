----------------------------- MODULE MCLogTail -----------------------------
(* Small logs: a matching line is "abn", another one "bn". *)
EXTENDS LogTail

CONSTANTS i1, i2

MCInodes == {i1, i2}
WholeLines == {<<"a", "b", "n">>, <<"b", "n">>}
SomeBytes == {<<"a">>, <<"b">>, <<"n">>}
TwoLines == {<<>>, <<"a", "b", "n", "b", "n">>, <<"b", "n", "a", "b", "n">>}
Empty == {<<>>}
=============================================================================
