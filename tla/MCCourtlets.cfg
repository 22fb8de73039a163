CONSTANTS
  Radix = 4
  PAGE = 2
  MIN_REGION = 8
  KSTACK_PAGES = 3
  STACK_PAGES = 2
  Machines <- DemoMachines
  Images <- SomeImages
  MAX_COURTS = 8
  MAX_CAPS = 16
  MAX_BINDINGS = 16
  CAPACITY = 4
SPECIFICATION DemoSpec
INVARIANTS DemoNeverFails PacketArrives
PROPERTIES NothingSentAfterRevoke
