\* Two lists, one of them a parameter, and a list of lists; statements of every form.
SPECIFICATION LoweringSpec
CONSTANTS
  f1 = f1
  f2 = f2
  n1 = n1
  Flat <- MCFlat
  Nested <- MCNested
  Array = {}
  Params <- MCParams
  Forms <- AllForms
  Blocks = {"branch", "loop", "try"}
  Lines = 4
INVARIANT SameResult
CHECK_DEADLOCK FALSE
