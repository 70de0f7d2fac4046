------------------------------- MODULE MCFifo2 -------------------------------
\* A ring small enough for every pair of pointers to wrap, with two byte values.
EXTENDS Fifo2, SequencesExt

MCBufs == BoundedSeq({0, 1}, 3)
MCSizes == 0 .. Size + 1
=============================================================================
