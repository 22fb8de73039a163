CONSTANTS
  Radix = 4
  PAGE = 2
  MIN_REGION = 8
  KSTACK_PAGES = 3
  STACK_PAGES = 2
  Machines <- SomeMachines
  Images <- SomeImages
SPECIFICATION Spec
INVARIANTS TypeOK AllocatedReachable MappedAsAsked CourtletsShareOnlyRing CollisionsAreOverlaps
