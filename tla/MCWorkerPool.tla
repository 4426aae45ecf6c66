---------------------------- MODULE MCWorkerPool ----------------------------
EXTENDS WorkerPool
=============================================================================
