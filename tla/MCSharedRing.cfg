CONSTANTS
  Capacity = 2
  SlotSize = 1
  Modulus = 4
  Data = {a, b}
  Zero = Zero
SPECIFICATION Spec
INVARIANTS RingInv NoOverwrite
PROPERTIES ImplementsFifo
