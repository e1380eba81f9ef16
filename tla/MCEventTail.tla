---------------------------- MODULE MCEventTail ----------------------------
EXTENDS EventTail
=============================================================================
