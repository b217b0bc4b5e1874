----------------------------- MODULE MCVcpuIrq -----------------------------
\* Instances of VcpuIrq for TLC: the labels of the timer and the keyboard
\* (BSP_PERIODIC_TIMER and BSP_KEYBOARD of irq.h).
EXTENDS VcpuIrq

CONSTANTS timer, keyboard

MCIrq == {timer, keyboard}
=============================================================================
