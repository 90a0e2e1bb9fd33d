--------------------------- MODULE MCRelayDrain -----------------------------
\* The constants of RelayDrain are numbers: the .cfg gives them values.
EXTENDS RelayDrain
=============================================================================
