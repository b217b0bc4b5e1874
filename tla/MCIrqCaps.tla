----------------------------- MODULE MCIrqCaps -----------------------------
\* Two device lines and the clock, and slots for the timer and three requests.
EXTENDS IrqCaps, TLC

CONSTANTS l1, l2, o1, o2, o3, o4

MCLine   == {l1, l2}
MCObject == {o1, o2, o3, o4}
MCSymmetry == Permutations(MCLine) \cup Permutations(MCObject)
=============================================================================
