----------------------------- MODULE MCUartIrq -----------------------------
\* Small instances of UartIrq.
EXTENDS UartIrq

CONSTANTS p1, p2
============================================================================
