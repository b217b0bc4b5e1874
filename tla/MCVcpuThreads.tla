--------------------------- MODULE MCVcpuThreads ---------------------------
\* Two threads of equal standing; one of them has not begun.
EXTENDS VcpuThreads

CONSTANTS a, b

MCThread == {a, b}
=============================================================================
