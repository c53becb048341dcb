---------------------------- MODULE MCLibrarySync ----------------------------
\* Instances of LibrarySync for TLC.
EXTENDS LibrarySync

CONSTANTS f1, f2
=============================================================================
