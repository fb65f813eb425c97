--------------------------- MODULE MCOamDirectory ---------------------------
EXTENDS OamDirectory
=============================================================================
