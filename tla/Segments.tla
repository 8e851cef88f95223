------------------------------ MODULE Segments ------------------------------
(***************************************************************************)
(* internal/cli: how command lines and recipes become conditions. A recipe *)
(* is turned into one token list (recipeSegments), the list is split at    *)
(* the "--" tokens that separate conditions (splitConditionSegments), and  *)
(* every segment is parsed (parseCondition). "--" is also exec's own       *)
(* separator, may belong to exec's command, and may be the value of a flag.*)
(*                                                                         *)
(* A token is a string that stands for its kind. The flags of a backend    *)
(* stay a token sequence; "--name=value", case and blanks are left out.    *)
(***************************************************************************)
EXTENDS Naturals, Sequences, SequencesExt

CONSTANTS
  Backends,      (* keys of backendParsers                                  *)
  ValueFlags,    (* conditionValueFlags                                     *)
  ExecFlags,     (* the flags of exec; each takes a value                   *)
  Recipes,       (* recipes to be read: sequences of items                  *)
  CommandLines   (* token sequences typed by a user                         *)

ASSUME SegmentsAssumption ==
  /\ {"exec", "process"} \subseteq Backends
  /\ {"--", "guard"} \cap (Backends \cup ValueFlags) = {}
  /\ ExecFlags \subseteq ValueFlags
  /\ "--name" \in ValueFlags \ ExecFlags
  /\ CommandLines \subseteq Seq(STRING)
-----------------------------------------------------------------------------
(* Recipes. An item has a guard mark, a backend, a name ("" for none), the *)
(* backend's target and flags, and, for exec, a command.                   *)

(* recipeConditionSegment, recipeExecSegment. Items given as raw "args" or *)
(* as a scalar are left out; a scalar exec has no command and is refused.  *)
ItemHead(item) ==
  (IF item.guard THEN <<"guard">> ELSE <<>>)
    \o <<item.backend>>
    \o (IF item.name # "" /\ item.backend # "process" THEN <<"--name", item.name>> ELSE <<>>)
    \o item.body

ItemSegment(item) ==
  ItemHead(item) \o (IF item.backend = "exec" THEN <<"--">> \o item.command ELSE <<>>)

(* Fault: no separator. *)
AppendConditionSegmentBare(tokens, segment) == tokens \o segment

AppendConditionSegment(tokens, segment) ==
  IF tokens = <<>> THEN segment ELSE tokens \o <<"--">> \o segment

RecipeSegments(recipe) ==
  FoldLeft(AppendConditionSegment, <<>>, [k \in DOMAIN recipe |-> ItemSegment(recipe[k])])

(* splitConditionSegments' isConditionStart.                               *)
IsConditionStart(tokens, p) ==
  \/ tokens[p] \in Backends
  \/ tokens[p] = "guard" /\ p < Len(tokens) /\ tokens[p + 1] \in Backends

(* parseExecCondition: what precedes the separator must be flags. *)
OnlyExecFlags(body) ==
  /\ Len(body) % 2 = 0
  /\ \A p \in DOMAIN body : p % 2 = 1 => body[p] \in ExecFlags

(* What an item can be. The body is a target and flags, each with one      *)
(* value or none (recipeFlags, appendRecipeFlag): what follows a value is  *)
(* a flag and starts no condition. An empty key, which makes the flag      *)
(* "--", is left out; and so are items that no list could save: backends   *)
(* and flags of exec that do not exist, an exec without a command.         *)
ItemType == [guard : BOOLEAN, backend : Backends, name : STRING,
             body : Seq(STRING), command : Seq(STRING)]

WellFormed(item) ==
  /\ item.backend = "process" => item.name = ""
  /\ IF item.backend = "exec" THEN item.command # <<>> /\ OnlyExecFlags(item.body)
                              ELSE item.command = <<>>
  /\ \A p \in 1 .. Len(item.body) - 1 :
       item.body[p] = "--" => ~ IsConditionStart(item.body, p + 1)

ASSUME RecipesAssumption ==
  \A recipe \in Recipes :
    /\ recipe \in Seq(ItemType) \ {<<>>}
    /\ \A k \in DOMAIN recipe : WellFormed(recipe[k])
    /\ RecipeSegments(recipe) \in Seq(STRING)   (* tokens make tokens *)
-----------------------------------------------------------------------------
VARIABLES
  items,       (* the recipe, <<>> for a command line                       *)
  args,        (* the token list                                            *)
  i,           (* the loop's index                                          *)
  current,     (* the segment under construction                            *)
  segments,    (* the finished segments                                     *)
  conditions,  (* what parseConditions made of them                         *)
  status       (* "start", "split", "parse", "parsed" or "error"            *)

vars == <<items, args, i, current, segments, conditions, status>>

TypeOK ==
  /\ args \in Seq(STRING)
  /\ current \in Seq(STRING)
  /\ segments \in Seq(Seq(STRING))
  /\ i \in 1 .. Len(args) + 1
  /\ \A k \in DOMAIN segments : segments[k] # <<>>
  /\ status \in {"start", "split", "parse", "parsed", "error"}

Init ==
  /\ \/ items \in Recipes /\ args = RecipeSegments(items)
     \/ items = <<>> /\ args \in CommandLines
  /\ i = 1
  /\ current = <<>>
  /\ segments = <<>>
  /\ conditions = <<>>
  /\ status = "start"
-----------------------------------------------------------------------------
(* splitConditionSegments                                                  *)

IsValueForPreviousFlag(p) == p > 1 /\ args[p - 1] \in ValueFlags

(* Fault: exec's own separator is not looked for. *)
IsExecCommandSeparatorNever(segment) == FALSE

IsExecCommandSeparator(segment) ==
  /\ segment # <<>>
  /\ segment[1] = "exec"
  /\ \A p \in 2..Len(segment) : segment[p] # "--"

(* Fault: any "--" separates, whatever comes next. *)
IsSeparatorBeforeAnything(p) ==
  /\ args[p] = "--"
  /\ p < Len(args)
  /\ ~ IsValueForPreviousFlag(p)
  /\ ~ IsExecCommandSeparator(current)

IsSeparatorBefore(p) ==
  /\ args[p] = "--"
  /\ p < Len(args)
  /\ IsConditionStart(args, p + 1)
  /\ ~ IsValueForPreviousFlag(p)
  /\ ~ IsExecCommandSeparator(current)

(* The checks in front of the loop. *)
BadEnds ==
  \/ args = <<>>
  \/ args[1] = "--"
  \/ args[Len(args)] = "--" /\ ~ IsValueForPreviousFlag(Len(args))

CheckEnds ==
  /\ status = "start"
  /\ status' = IF BadEnds THEN "error" ELSE "split"
  /\ UNCHANGED <<items, args, i, current, segments, conditions>>

(* Fault: the separator stays with the segment it ends. *)
EndSegmentKeepsSeparator ==
  /\ status = "split"
  /\ i <= Len(args)
  /\ IsSeparatorBefore(i)
  /\ segments' = Append(segments, Append(current, args[i]))
  /\ current' = <<>>
  /\ i' = i + 1
  /\ UNCHANGED <<items, args, conditions, status>>

EndSegment ==
  /\ status = "split"
  /\ i <= Len(args)
  /\ IsSeparatorBefore(i)
  /\ IF current = <<>>
     THEN /\ status' = "error"
          /\ UNCHANGED <<i, current, segments>>
     ELSE /\ segments' = Append(segments, current)
          /\ current' = <<>>
          /\ i' = i + 1
          /\ UNCHANGED status
  /\ UNCHANGED <<items, args, conditions>>

(* Fault: a flag's value is stepped over, whether it is there or not. *)
KeepTokenSkipsValue ==
  /\ status = "split"
  /\ i <= Len(args)
  /\ ~ IsSeparatorBefore(i)
  /\ current' = Append(current, args[i])
  /\ i' = IF args[i] \in ValueFlags THEN i + 2 ELSE i + 1
  /\ UNCHANGED <<items, args, segments, conditions, status>>

KeepToken ==
  /\ status = "split"
  /\ i <= Len(args)
  /\ ~ IsSeparatorBefore(i)
  /\ current' = Append(current, args[i])
  /\ i' = i + 1
  /\ UNCHANGED <<items, args, segments, conditions, status>>

FinishSplit ==
  /\ status = "split"
  /\ i > Len(args)
  /\ IF current = <<>>
     THEN /\ status' = "error"
          /\ UNCHANGED <<current, segments>>
     ELSE /\ segments' = Append(segments, current)
          /\ current' = <<>>
          /\ status' = "parse"
  /\ UNCHANGED <<items, args, i, conditions>>
-----------------------------------------------------------------------------
(* parseCondition                                                          *)

(* indexOf over all tokens but the first; behind the end if there is none. *)
SeparatorIn(segment) ==
  LET found == {p \in 2..Len(segment) : segment[p] = "--"}
  IN  IF found = {} THEN Len(segment) + 1 ELSE Min(found)

(* Fault: --name is looked for in exec's command, too. *)
ConditionFlagLimitNone(segment) == Len(segment) + 1

ConditionFlagLimit(segment) ==
  IF segment[1] = "exec" THEN SeparatorIn(segment) ELSE Len(segment) + 1

(* parseConditionName: the first --name in front of the limit takes the    *)
(* next token; a second one, or none to take, is an error. An error is the *)
(* empty set here and in the parsers below, a result a set of one.         *)
ParseConditionName(segment) ==
  LET limit == ConditionFlagLimit(segment)
      found == {p \in 2 .. limit - 1 : segment[p] = "--name"}
      p     == Min(found)
  IN  IF segment[1] = "process" \/ found = {}
      THEN {[name |-> "", rest |-> segment]}
      ELSE IF p + 1 >= limit \/ (\E q \in found : q > p + 1) THEN {}
      ELSE {[name |-> segment[p + 1],
             rest |-> SubSeq(segment, 1, p - 1) \o SubSeq(segment, p + 2, Len(segment))]}

ParseExec(segment, guard, name) ==
  LET separator == SeparatorIn(segment)
      body      == SubSeq(segment, 2, separator - 1)
  IN  IF separator >= Len(segment) \/ ~ OnlyExecFlags(body) THEN {}
      ELSE {[guard |-> guard, backend |-> "exec", name |-> name, body |-> body,
             command |-> SubSeq(segment, separator + 1, Len(segment))]}

(* backendParsers: an unknown backend is an error; the parsers of other    *)
(* backends than exec are taken to accept their tokens.                    *)
ParseBackend(segment, guard, name) ==
  IF segment[1] = "exec" THEN ParseExec(segment, guard, name)
  ELSE {[guard |-> guard, backend |-> b, name |-> name,
         body |-> SubSeq(segment, 2, Len(segment)), command |-> <<>>] :
            b \in Backends \cap {segment[1]}}

(* parseCondition strips every leading guard, then the name. *)
ParseCondition(segment) ==
  LET firsts == {p \in DOMAIN segment : segment[p] # "guard"}
      bare   == SubSeq(segment, Min(firsts), Len(segment))
  IN  IF firsts = {} THEN {}
      ELSE UNION {ParseBackend(named.rest, 1 \notin firsts, named.name) :
                    named \in ParseConditionName(bare)}

(* parseConditions: one bad segment fails the whole list. *)
ParseConditions ==
  LET parsed == [k \in DOMAIN segments |-> ParseCondition(segments[k])]
  IN  /\ status = "parse"
      /\ IF \E k \in DOMAIN segments : parsed[k] = {}
         THEN /\ status' = "error"
              /\ UNCHANGED conditions
         ELSE /\ status' = "parsed"
              /\ conditions' = [k \in DOMAIN segments |-> CHOOSE c \in parsed[k] : TRUE]
      /\ UNCHANGED <<items, args, i, current, segments>>

Finished ==
  /\ status \in {"parsed", "error"}
  /\ UNCHANGED vars

Next ==
  \/ CheckEnds
  \/ EndSegment
  \/ KeepToken
  \/ FinishSplit
  \/ ParseConditions
  \/ Finished

Spec == Init /\ [][Next]_vars
-----------------------------------------------------------------------------
(* Properties.                                                             *)

(* Once the ends of the list are accepted the loop finds no empty segment: *)
(* its two "empty condition" errors cannot happen, as a separator always   *)
(* stands between a token and the start of a condition.                    *)
SplitSucceeds ==
  status = "split" =>
    /\ i > Len(args) => current # <<>>
    /\ i <= Len(args) /\ IsSeparatorBefore(i) => current # <<>>

(* No token is lost, doubled or moved to another condition: joined by      *)
(* separators, the segments are the list again.                            *)
Rejoin ==
  status \in {"parse", "parsed"} =>
    FoldLeft(AppendConditionSegment, <<>>, segments) = args

(* What keeps a recipe from being read back: tokens that the list cannot   *)
(* tell apart, whichever item of the recipe they come from.                *)
ExecFlagIsSeparator(item) ==
  item.backend = "exec" /\ (item.name = "--" \/ Contains(item.body, "--"))
CommandStartsCondition(item) ==
  \E p \in 1 .. Len(item.command) - 1 :
    /\ item.command[p] = "--"
    /\ p > 1 => item.command[p - 1] \notin ValueFlags
    /\ IsConditionStart(item.command, p + 1)
GuardHidesExec(item) ==
  /\ item.guard /\ item.command # <<>> /\ IsConditionStart(item.command, 1)
  /\ Last(ItemHead(item)) \notin ValueFlags
NameInBody(item) ==
  item.backend # "process" /\ Contains(item.body, "--name")
EndsInValueFlag(item) ==
  Last(ItemSegment(item)) \in ValueFlags
EndsInSeparator(item) ==
  LET segment == ItemSegment(item)
  IN  Last(segment) = "--" /\ segment[Len(segment) - 1] \notin ValueFlags

Readable(recipe) ==
  /\ \A k \in DOMAIN recipe :
       /\ ~ ExecFlagIsSeparator(recipe[k])
       /\ ~ CommandStartsCondition(recipe[k])
       /\ ~ GuardHidesExec(recipe[k])
       /\ ~ NameInBody(recipe[k])
       /\ k < Len(recipe) => ~ EndsInValueFlag(recipe[k])
  /\ ~ EndsInSeparator(Last(recipe))

(* A recipe, or a command line written like one, yields exactly the        *)
(* conditions it states if it is Readable, and never otherwise: this is    *)
(* the whole list of surprises (recipeSegments, splitConditionSegments,    *)
(* isValueForPreviousFlag, isExecCommandSeparator, conditionFlagLimit).    *)
ReadBack ==
  status \in {"parsed", "error"} /\ items # <<>> =>
    (Readable(items) <=> status = "parsed" /\ conditions = items)

(* docs/SPEC.md, "CLI Grammar": exec uses "--" to separate its own flags   *)
(* from the command, and what follows belongs to the command. Behind       *)
(* "guard", the separator of an exec whose command is named like a backend *)
(* ends the condition instead.                                             *)
ExecKeepsItsSeparator ==
  status = "parse" /\ items # <<>> =>
    \A k \in DOMAIN segments :
      Contains(segments[k], "exec") => Contains(segments[k], "--")
=============================================================================
