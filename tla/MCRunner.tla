------------------------------ MODULE MCRunner ------------------------------
(* Small runs of Runner: two ready conditions and a guard, where the guard *)
(* wraps the same inner condition as the second ready one.                 *)
EXTENDS Runner, TLC

CONSTANTS r1, r2, g1, gateA, gateB

MCConds == {r1, r2, g1}
MCGuards == {g1}
MCGates == {gateA, gateB}
MCGateOf == (r1 :> gateA) @@ (r2 :> gateB) @@ (g1 :> gateB)
=============================================================================
