------------------------------- MODULE MCSmp -------------------------------
\* Machines of one to four processors; three fit.  The boot processor is
\* not always the first of the list; one machine reports no list.
EXTENDS Smp

CONSTANTS b, a1, a2, a3

All == {b, a1, a2, a3}
Lists == {<<>>, <<b>>, <<b, a1>>, <<a1, b>>, <<a1, b, a2>>, <<b, a1, a2, a3>>}
=============================================================================
