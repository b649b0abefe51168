---------------------------- MODULE MCDatabase ----------------------------
EXTENDS Database

\* One LED in two colours.
TwoFrames == <<<<0, 1, 0>>, <<0, 1, 1>>>>
=============================================================================
