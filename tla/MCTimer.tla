----------------------------- MODULE MCTimer ------------------------------
EXTENDS Timer
=============================================================================
