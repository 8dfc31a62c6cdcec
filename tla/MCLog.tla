------------------------------- MODULE MCLog --------------------------------
EXTENDS Log
=============================================================================
