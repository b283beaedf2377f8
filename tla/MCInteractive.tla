--------------------------- MODULE MCInteractive ---------------------------
EXTENDS Interactive
=============================================================================
