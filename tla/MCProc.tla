------------------------------- MODULE MCProc -------------------------------
\* Small instances of Proc.
EXTENDS Proc
=============================================================================
