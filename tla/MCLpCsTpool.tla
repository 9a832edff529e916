---------------------------- MODULE MCLpCsTpool ----------------------------
EXTENDS LpCsTpool
=============================================================================
