SPECIFICATION Spec
CONSTANTS
  c1 = c1
  c2 = c2
  Clients <- MCClients
  Ops <- MCOps
INVARIANTS
  TypeOK
  RebootOnlyAsInit
  EveryQuestionAnswered
PROPERTIES
  HandlersReturn
  EmergencyEntered
  ClientsSettle
CHECK_DEADLOCK FALSE
