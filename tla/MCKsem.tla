------------------------------- MODULE MCKsem -------------------------------
EXTENDS Ksem
=============================================================================
