------------------------------ MODULE MCFleet ------------------------------
EXTENDS Fleet, TLC
=============================================================================
