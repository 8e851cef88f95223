------------------------------ MODULE MCProcess ------------------------------
(* Process with a ready condition and a guard. *)
EXTENDS Process

CONSTANTS r1, g1

MCConds == {r1, g1}
MCGuards == {g1}
=============================================================================
