SPECIFICATION Spec
CONSTANTS
  Name <- MCName
  Imports <- MCImports
  Namespaces <- MCNamespaces
CHECK_DEADLOCK FALSE
INVARIANTS
  TypeOK
  ServiceIsContained
  ImportsReachable
  CleanupLeavesLinker
