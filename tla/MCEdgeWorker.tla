----------------------------- MODULE MCEdgeWorker -----------------------------
EXTENDS EdgeWorker
=============================================================================
