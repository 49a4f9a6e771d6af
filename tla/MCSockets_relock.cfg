SPECIFICATION Spec
CONSTANTS
  c1 = c1
  c2 = c2
  Clients <- MCClients
  Ops <- MCState
INVARIANT LogNeverRelocked
CHECK_DEADLOCK FALSE
