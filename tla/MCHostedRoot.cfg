CONSTANTS
  Objects = {1, 2}
  DELEGATE = DELEGATE
  SEND = SEND
  RECV = RECV
  OBSERVE = OBSERVE
  REVOKE = REVOKE
  AllRights = {READ, SEND, RECV, OBSERVE, DELEGATE, REVOKE}
  Requests = {{SEND, RECV}}
  Opens = {{SEND}}
  Paths = {p1}
  Ends <- MCEnds
  Capacities = {2}
  MaxCap = 4
  MaxCourt = 2
  MaxObject = 2
  MaxTrace = 4
SPECIFICATION Spec
INVARIANTS HostedInv UseWasAuthorized CorridorIsFifo DamageIsContained
CHECK_DEADLOCK FALSE
