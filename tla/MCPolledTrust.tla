--------------------------- MODULE MCPolledTrust ---------------------------
EXTENDS PolledTrust
=============================================================================
