---------------------------- MODULE MCLifecycle ----------------------------
EXTENDS Lifecycle

CONSTANTS u1, u2

MCConfigs == <<u1, u2>>
=============================================================================
