----------------------------- MODULE MCDisplay -----------------------------
EXTENDS Display
=============================================================================
