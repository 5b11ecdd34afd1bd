-------------------------------- MODULE MCPriq --------------------------------
EXTENDS Priq
=============================================================================
