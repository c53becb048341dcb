---------------------------- MODULE MCImportFlow ----------------------------
\* Instances of ImportFlow for TLC.
EXTENDS ImportFlow

CONSTANTS d1, d2, watch, scan, reviewer, none
=============================================================================
