---------------------------- MODULE RunnerHistory ----------------------------
(* Runner with a history of one ready condition, any of them: what its      *)
(* checks really answered, and when its streak grew old enough.             *)
EXTENDS Runner, Sequences

CONSTANT Watched   (* the condition whose history is kept *)

ASSUME WatchedAssumption == Watched \in Ready

VARIABLE seen   (* judged answers of Watched and "aged" marks, in order *)

SeenInit == Init /\ seen = <<>>

SeenNext ==
  /\ Next
  /\ seen' =
       IF pc[Watched] = "apply" /\ pc'[Watched] # "apply" THEN Append(seen, result[Watched])
       ELSE IF ~ aged[Watched] /\ aged'[Watched] THEN Append(seen, "aged")
       ELSE seen

SeenSpec == SeenInit /\ [][SeenNext]_<<vars, seen>> /\ Fairness

(* A ready condition is marked satisfied only after RequiredSuccesses      *)
(* checks in a row succeeded, an expired attempt counting as a failure,    *)
(* and, with StableFor, the streak became old enough while it lasted       *)
(* (applyStabilityThreshold, stabilityProgress.reset).                     *)
StreakEarned ==
  rec[Watched].satisfied =>
    \E k \in 1..Len(seen) :
      /\ seen[k] = "satisfied"
      /\ \A i \in k..Len(seen) : seen[i] \in {"satisfied", "aged"}
      /\ Cardinality({i \in k..Len(seen) : seen[i] = "satisfied"}) >= RequiredSuccesses
      /\ HasStableFor => \E i \in k..Len(seen) : seen[i] = "aged"
=============================================================================
