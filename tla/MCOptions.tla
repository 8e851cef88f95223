------------------------------ MODULE MCOptions ------------------------------
(***************************************************************************)
(* Options where the steps can disagree: intervals on both sides of the    *)
(* defaults with and without a maximum, and words, counts and switches in  *)
(* the cases and values that the parsers treat differently.                *)
(***************************************************************************)
EXTENDS Options

None == [f \in Fields |-> NotGiven]

Timings(Interval, Max) ==
  {[None EXCEPT !.interval = i, !.maxInterval = m] :
     i \in Interval \cup {NotGiven}, m \in Max \cup {NotGiven}}

MCFlagChoices ==
  Timings({0, 1, 3, 8}, {0, 2, 3})
    \cup {[None EXCEPT !.output = o, !.mode = m, !.verbose = v, !.backoff = b] :
            o \in {NotGiven, "ndjson", "JSON"}, m \in {NotGiven, "any", "ANY"},
            v \in {NotGiven, FALSE}, b \in {NotGiven, "EXPONENTIAL", "linear"}}
    \cup {[None EXCEPT !.timeout = t, !.requiredSuccesses = s, !.jitter = j] :
            t \in {NotGiven, 0, 5}, s \in {NotGiven, 0, 2}, j \in {NotGiven, 50, 101}}

MCRecipeChoices ==
  Timings({1, 3, 8}, {0, 3, 9})
    \cup {[None EXCEPT !.output = o, !.mode = m, !.verbose = v, !.backoff = "exponential"] :
            o \in {NotGiven, "text", "JSON", "xml"}, m \in {"all", "ANY"}, v \in {NotGiven, TRUE}}
    \cup {[None EXCEPT !.requiredSuccesses = s, !.stableFor = d, !.timeout = t, !.jitter = j] :
            s \in {-1, 3}, d \in {-1, 6}, t \in {0, 7}, j \in {20, -1}}
=============================================================================
