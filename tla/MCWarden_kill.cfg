SPECIFICATION Spec
CONSTANTS
  Name <- MCName
  Imports <- MCImports
  Namespaces <- MCNamespaces
CHECK_DEADLOCK FALSE
INVARIANT KillReachesService
