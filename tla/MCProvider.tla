------------------------------ MODULE MCProvider ------------------------------
EXTENDS Provider
=============================================================================
