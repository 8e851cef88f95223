------------------------------- MODULE Options -------------------------------
(***************************************************************************)
(* How one invocation comes by its options: defaults, a profile, flags and *)
(* a recipe file, filled in and validated in several steps (parseGlobal,   *)
(* applyRecipeConfig, runWithOptions). A source of options is a function   *)
(* from fields to values; NotGiven is a flag that is not given, or a field *)
(* that the recipe does not have. Durations are numbers of half seconds,   *)
(* jitter is a percentage; one that does not parse is refused like a       *)
(* negative one. InvocationProofs takes this module together with the one  *)
(* about conditions, Invocation; hence the names of Init, Next and Spec.   *)
(***************************************************************************)
EXTENDS Integers

CONSTANTS
  FlagChoices,    (* the flags a user may give                              *)
  RecipeChoices,  (* the options a recipe file may state                    *)
  NotGiven

Durations == {"timeout", "interval", "maxInterval", "perAttemptTimeout", "stableFor"}
Words == {"backoff", "output", "mode"}
Fields == Durations \cup Words \cup {"jitter", "requiredSuccesses", "verbose"}

(* Conditions, by what the parsers and the runner tell apart. *)
Lists == {"none", "good", "only guards", "bad"}

ASSUME OptionsAssumption ==
  \A choice \in FlagChoices \cup RecipeChoices :
    /\ DOMAIN choice = Fields
    /\ choice["requiredSuccesses"] = NotGiven \/ choice["requiredSuccesses"] \in Int

VARIABLES
  flags, profile, config, recipe, cliList, recipeList, explain,   (* input  *)
  pc,         (* the function about to run                                  *)
  opts,       (* globalOptions                                              *)
  conditions, (* the list that will be polled                               *)
  result      (* "none", "invalid", "explained" or "started"                *)

input == <<flags, profile, config, recipe, cliList, recipeList, explain>>
optionVars == <<input, pc, opts, conditions, result>>

Default ==
  [timeout |-> 600, interval |-> 4, maxInterval |-> 0, perAttemptTimeout |-> 0,
   stableFor |-> 0, backoff |-> "constant", output |-> "text", mode |-> "all",
   jitter |-> 0, requiredSuccesses |-> 1, verbose |-> FALSE]

Profiles == {"", "ci", "local", "unknown"}

(* What a profile has to say; the rest stays at its default. *)
ProfileDefaults(p) ==
  CASE p = "ci" -> [Default EXCEPT !.timeout = 1200, !.interval = 2, !.output = "json"]
    [] p = "local" -> [Default EXCEPT !.timeout = 240, !.interval = 1, !.verbose = TRUE]
    [] OTHER -> Default

(* Words in the wrong case, and the conversion that some of them get. *)
ToLower(w) == CASE w = "ANY" -> "any" [] w = "JSON" -> "json"
                [] w = "EXPONENTIAL" -> "exponential" [] OTHER -> w

OptionsInit ==
  /\ flags \in FlagChoices
  /\ profile \in Profiles
  /\ config \in BOOLEAN
  /\ recipe \in IF config THEN RecipeChoices ELSE {[f \in Fields |-> NotGiven]}
  /\ cliList \in Lists
  /\ recipeList \in IF config THEN Lists ELSE {"none"}
  /\ explain \in BOOLEAN
  /\ pc = "parse"
  /\ opts = Default
  /\ conditions = "none"
  /\ result = "none"

Valid(o) ==
  /\ o.output \in {"text", "json", "ndjson"}
  /\ o.mode \in {"all", "any"}
  /\ o.timeout > 0
  /\ o.interval > 0
  /\ o.maxInterval >= o.interval
  /\ o.backoff \in {"constant", "exponential"}
  /\ o.perAttemptTimeout >= 0
  /\ o.requiredSuccesses >= 1
  /\ o.stableFor >= 0
  /\ o.jitter \in 0 .. 100

MaxDefaulted(o) ==
  IF o.maxInterval = 0 THEN [o EXCEPT !.maxInterval = o.interval] ELSE o

Changed(f) == flags[f] # NotGiven

(* Flags over the profile's defaults: mode and output must be in lower     *)
(* case, backoff need not be.                                              *)
FlagValue(f) == IF f = "backoff" THEN ToLower(flags[f]) ELSE flags[f]

FlagsApplied(o) == [f \in Fields |-> IF Changed(f) THEN FlagValue(f) ELSE o[f]]

Refuse == pc' = "done" /\ result' = "invalid"

ParseGlobal ==
  /\ pc = "parse"
  /\ opts' = MaxDefaulted(FlagsApplied(ProfileDefaults(profile)))
  /\ IF \/ cliList = "none" /\ ~ config
        \/ profile = "unknown"
        \/ ~ Valid(opts')
     THEN Refuse
     ELSE /\ pc' = IF config THEN "recipe" ELSE "conditions"
          /\ UNCHANGED result
  /\ UNCHANGED <<input, conditions>>

(* A recipe's successes count only if they are positive. *)
Stated(f) ==
  recipe[f] # NotGiven /\ (f = "requiredSuccesses" => recipe[f] > 0)

RecipeValue(f) == IF f \in Words THEN ToLower(recipe[f]) ELSE recipe[f]

(* Fault: the recipe overrides the command line. *)
RecipeWins(o) == [f \in Fields |-> IF Stated(f) THEN RecipeValue(f) ELSE o[f]]

RecipeApplied(o) ==
  [f \in Fields |-> IF Stated(f) /\ ~ Changed(f) THEN RecipeValue(f) ELSE o[f]]

(* Fault: what the recipe states is not validated again. *)
ApplyRecipeUnchecked ==
  /\ pc = "recipe"
  /\ opts' = MaxDefaulted(RecipeApplied(opts))
  /\ IF recipeList \in {"none", "bad"}
     THEN Refuse /\ UNCHANGED conditions
     ELSE /\ pc' = IF cliList = "none" THEN "run" ELSE "conditions"
          /\ conditions' = recipeList
          /\ UNCHANGED result
  /\ UNCHANGED input

(* The recipe must have conditions, and good ones, even if those of the    *)
(* command line take their place.                                          *)
ApplyRecipe ==
  /\ pc = "recipe"
  /\ opts' = MaxDefaulted(RecipeApplied(opts))
  /\ IF ~ Valid(opts') \/ recipeList \in {"none", "bad"}
     THEN Refuse /\ UNCHANGED conditions
     ELSE /\ pc' = IF cliList = "none" THEN "run" ELSE "conditions"
          /\ conditions' = recipeList
          /\ UNCHANGED result
  /\ UNCHANGED input

ParseConditions ==
  /\ pc = "conditions"
  /\ IF cliList = "bad"
     THEN Refuse /\ UNCHANGED conditions
     ELSE pc' = "run" /\ conditions' = cliList /\ UNCHANGED result
  /\ UNCHANGED <<input, opts>>

(* runner.ValidateConfig, on options that were validated before. *)
RunnerValid(o) ==
  /\ o.timeout > 0 /\ o.interval > 0 /\ o.maxInterval >= o.interval
  /\ o.perAttemptTimeout >= 0 /\ o.requiredSuccesses >= 0 /\ o.stableFor >= 0
  /\ o.backoff \in {"constant", "exponential"} /\ o.jitter \in 0 .. 100
  /\ o.mode \in {"all", "any"}

RunWithOptions ==
  /\ pc = "run"
  /\ pc' = "done"
  /\ result' = IF conditions # "good" \/ ~ RunnerValid(opts) THEN "invalid"
               ELSE IF explain THEN "explained" ELSE "started"
  /\ UNCHANGED <<input, opts, conditions>>

Terminated == pc = "done" /\ UNCHANGED optionVars

OptionsNext == ParseGlobal \/ ApplyRecipe \/ ParseConditions \/ RunWithOptions \/ Terminated

OptionsSpec == OptionsInit /\ [][OptionsNext]_optionVars

OptionsTypeOK ==
  /\ pc \in {"parse", "recipe", "conditions", "run", "done"}
  /\ DOMAIN opts = Fields
  /\ conditions \in {"none", "good", "only guards"}
  /\ result \in {"none", "invalid", "explained", "started"}

Done == result \in {"explained", "started"}

(* The value a user expects of a field: what the flag says, else what the  *)
(* recipe says, else the profile, else the default (README.md:122, 239).   *)
Expected(f) ==
  IF Changed(f) THEN FlagValue(f)
  ELSE IF Stated(f) THEN RecipeValue(f)
  ELSE ProfileDefaults(profile)[f]

(* Filling in and validating in several steps comes to the precedence of   *)
(* flag, recipe, profile and default for every field (applyProfileDefaults,*)
(* applyRecipeOptions); of maxInterval where someone states it.            *)
Precedence ==
  Done =>
    /\ \A f \in Fields \ {"maxInterval"} : opts[f] = Expected(f)
    /\ Expected("maxInterval") # 0 => opts.maxInterval = Expected("maxInterval")
    /\ conditions = IF cliList = "none" THEN recipeList ELSE cliList

(* Whatever survives the parsers is what the runner relies on: its own     *)
(* validation refuses a list of conditions, never an option, and what is   *)
(* explained can be run (runWithOptions, RunnerAssumption of Runner).      *)
RunnerAccepts ==
  /\ pc = "run" => RunnerValid(opts) /\ opts.requiredSuccesses > 0
  /\ Done => RunnerValid(opts) /\ conditions = "good"

(* "max-interval [...] (default: --interval)" (README.md:112). Violated:   *)
(* the default is taken before the recipe states another interval.         *)
MaxDefaultsToInterval ==
  Done /\ Expected("maxInterval") = 0 => opts.maxInterval = opts.interval
=============================================================================
