--------------------------- MODULE MCLinkSession ---------------------------
EXTENDS LinkSession
=============================================================================
