----------------------------- MODULE MCRunnerAny -----------------------------
(* Runner in mode any with --successes and --stable-for: one condition that *)
(* was given twice, so that its two goroutines share a gate and race for    *)
(* the verdict, and the history of the first one.                           *)
EXTENDS RunnerHistory

CONSTANTS r1, r2, gateA

MCConds == {r1, r2}
MCGates == {gateA}
MCGateOf == [c \in MCConds |-> gateA]
=============================================================================
