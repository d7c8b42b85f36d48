\* Every program of two functions with up to two references, and a main program.
CONSTANTS
  Function <- F
  Variable <- V
  String <- S
  TextBase = 100
  DataBase = 200
  Programs <- MCPrograms
SPECIFICATION Spec
INVARIANTS
  ReferencesResolved
  NothingForgotten
  StoredIsReachable
PROPERTY AddressesAreFinal
CHECK_DEADLOCK FALSE
