------------------------------ MODULE MCCircuit ------------------------------
EXTENDS Circuit
OneStream == {1}
=============================================================================
