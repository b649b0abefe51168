------------------------------ MODULE MCDevice ------------------------------
EXTENDS Device

TwoTimers == <<"starting", "resetting">>
=============================================================================
