--------------------------- MODULE MCBioReadError ---------------------------
\* A small instance of BioReadError.
EXTENDS BioReadError

CONSTANTS u1, b1, d0, d1
=============================================================================
