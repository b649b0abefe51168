---------------------------- MODULE MCFirmware ----------------------------
EXTENDS Firmware
=============================================================================
