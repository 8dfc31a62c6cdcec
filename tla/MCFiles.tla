------------------------------ MODULE MCFiles -------------------------------
EXTENDS Files
=============================================================================
