---------------------------- MODULE MCPlayerLocal ----------------------------
\* The player of one device for TLC: two tracks, short queues.
EXTENDS PlayerLocal
=============================================================================
