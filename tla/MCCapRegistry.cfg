CONSTANTS
  Objects = {o1}
  DELEGATE = D
  AllRights = {D, S}
  MaxCap = 4
SPECIFICATION Spec
INVARIANTS RegistryInv RevocationClosed AuthorityFromParent
PROPERTIES RevokedForever RevokeReturns ImplementsTree
