SPECIFICATION OptionsSpec
CONSTANTS
  NotGiven = NotGiven
  FlagChoices <- MCFlagChoices
  RecipeChoices <- MCRecipeChoices
INVARIANTS
  Precedence
  RunnerAccepts
