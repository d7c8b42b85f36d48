\* Every program of two functions with up to two references, and a main program.
CONSTANTS
  Function <- F
  Variable <- V
  String <- S
  TextBase = 100
  DataBase = 200
  Programs <- MCDimInMain
SPECIFICATION Spec
INVARIANT ContextIsValid
CHECK_DEADLOCK FALSE
