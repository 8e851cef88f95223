---------------------------- MODULE WaitContract ----------------------------
(***************************************************************************)
(* What a run of waitfor promises, without goroutines, contexts or gates:  *)
(* ready conditions get satisfied, at most one condition stops the run     *)
(* with a fatal result, the first terminal event is the verdict, and the   *)
(* run returns exactly one status that agrees with what happened.          *)
(* Runner.tla implements this module (see Contract there).                 *)
(***************************************************************************)
CONSTANTS
  Conds,    (* the conditions of the run                                    *)
  Guards,   (* those that only stop the run, never satisfy it               *)
  Mode      (* "all" or "any"                                               *)

VARIABLES
  satisfied,  (* ready conditions that have been satisfied                  *)
  failed,     (* the condition whose fatal result was accepted, if any      *)
  verdict,    (* the first terminal event: "none", "satisfied" or "fatal"   *)
  outcome     (* "none" until the run returns its status                    *)

cvars == <<satisfied, failed, verdict, outcome>>

ReadyConds == Conds \ Guards

Enough(S) == IF Mode = "any" THEN S # {} ELSE ReadyConds \subseteq S

ContractTypeOK ==
  /\ satisfied \subseteq ReadyConds
  /\ failed \subseteq Conds
  /\ verdict \in {"none", "satisfied", "fatal"}
  /\ outcome \in {"none", "satisfied", "fatal", "timeout", "cancelled"}

ContractInit ==
  /\ satisfied = {}
  /\ failed = {}
  /\ verdict = "none"
  /\ outcome = "none"

Satisfy(c) ==
  /\ outcome = "none"
  /\ c \notin satisfied \cup failed
  /\ satisfied' = satisfied \cup {c}
  /\ UNCHANGED <<failed, verdict, outcome>>

(* Enough conditions are satisfied and nothing terminal came first. *)
Complete ==
  /\ outcome = "none"
  /\ verdict = "none"
  /\ Enough(satisfied)
  /\ verdict' = "satisfied"
  /\ UNCHANGED <<satisfied, failed, outcome>>

(* The first fatal result stops the run; later ones are dropped. *)
Fail(c) ==
  /\ outcome = "none"
  /\ verdict = "none"
  /\ c \notin satisfied
  /\ verdict' = "fatal"
  /\ failed' = {c}
  /\ UNCHANGED <<satisfied, outcome>>

ReturnVerdict ==
  /\ outcome = "none"
  /\ verdict # "none"
  /\ outcome' = verdict
  /\ UNCHANGED <<satisfied, failed, verdict>>

(* The deadline or the caller ended a run that was neither complete nor    *)
(* stopped by a fatal result.                                              *)
GiveUp ==
  /\ outcome = "none"
  /\ verdict = "none"
  /\ ~ Enough(satisfied)
  /\ outcome' \in {"timeout", "cancelled"}
  /\ UNCHANGED <<satisfied, failed, verdict>>

ContractNext ==
  \/ \E c \in ReadyConds : Satisfy(c)
  \/ \E c \in Conds : Fail(c)
  \/ Complete
  \/ ReturnVerdict
  \/ GiveUp

(* The run returns: whatever happens, the caller gets a status. *)
ContractFairness == WF_cvars(Complete \/ ReturnVerdict \/ GiveUp)

ContractSpec == ContractInit /\ [][ContractNext]_cvars /\ ContractFairness
=============================================================================
