------------------------------ MODULE MCSignal ------------------------------
EXTENDS Signal
=============================================================================
