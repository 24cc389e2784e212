---------------------------- MODULE MCSelfUpdate ----------------------------
\* SelfUpdate, instantiated for TLC.
EXTENDS SelfUpdate, TLC
=============================================================================
