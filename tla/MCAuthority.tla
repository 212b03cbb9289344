---------------------------- MODULE MCAuthority ----------------------------
EXTENDS Authority
=============================================================================
