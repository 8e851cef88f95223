SPECIFICATION Spec
CONSTANTS
  Backends <- MCBackends
  ValueFlags <- MCValueFlags
  ExecFlags <- MCExecFlags
  Recipes <- MCRecipes
  CommandLines <- MCCommandLines
INVARIANTS
  TypeOK
  SplitSucceeds
  Rejoin
  ReadBack
