------------------------- MODULE MCRamFSRefinement -------------------------
EXTENDS RamFSRefinement, MCRamFSValues
=============================================================================
