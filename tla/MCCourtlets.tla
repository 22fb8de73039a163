---------------------------- MODULE MCCourtlets ----------------------------
\* Small machines of one and two CPUs for Courtlets, with memory for both
\* courtlets or almost.
EXTENDS Courtlets, SmallMachines

DemoMachines ==
  {Machine(l, 6, 36, length, n) : l \in {1, 3}, length \in 72 .. 90, n \in {1, 2}}
  \cup {Machine(l, 8, base, 90, 2) : l \in {4, 5}, base \in {36, 37, 40}}
  \cup {LowMachine(100)}
=============================================================================
