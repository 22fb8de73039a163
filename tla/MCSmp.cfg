CONSTANTS
  b = b
  a1 = a1
  a2 = a2
  a3 = a3
  Processors <- All
  MpLists <- Lists
  Bsp = b
  MAX_CPUS = 3
  MaxTicks = 4
SPECIFICATION Spec
INVARIANTS BringUp ReadyForInterrupts NobodyHangs DemoMeansAllAnswered
PROPERTIES DemoUndisturbed BootEnds BootSucceeds
