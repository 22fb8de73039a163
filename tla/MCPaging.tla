------------------------------ MODULE MCPaging ------------------------------
\* Machines whose memory ends after every step of the bring-up, and machines
\* on which the kernel's ranges overlap in every way.
EXTENDS Paging, SmallMachines

SomeMachines ==
  {Machine(l, e, base, 90, 2) : l \in {1, 3, 4, 5}, e \in {5, 8, 10, 16}, base \in {36, 37, 40}}
  \cup {Machine(3, 6, 37, length, 1) : length \in 4 .. 84}
  \cup {LowMachine(length) : length \in {0, 60, 80, 91}}
=============================================================================
