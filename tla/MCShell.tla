------------------------------ MODULE MCShell ------------------------------
EXTENDS Shell, MCRamFSValues

CONSTANT byte2   \* a second byte

MCTexts == {<<>>, <<byte>>, <<byte, byte2, byte2>>}
=============================================================================
