---------------------------- MODULE MCCacheProcess ----------------------------
EXTENDS CacheProcess
=============================================================================
