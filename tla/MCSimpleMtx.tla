---------------------------- MODULE MCSimpleMtx ----------------------------
EXTENDS SimpleMtx
=============================================================================
