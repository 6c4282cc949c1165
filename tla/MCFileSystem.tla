---------------------------- MODULE MCFileSystem ----------------------------
EXTENDS FileSystem, MCRamFSValues
=============================================================================
