------------------------------ MODULE MCRamFS ------------------------------
EXTENDS RamFS, MCRamFSValues
=============================================================================
