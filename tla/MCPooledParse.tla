---------------------------- MODULE MCPooledParse ----------------------------
EXTENDS PooledParse
=============================================================================
