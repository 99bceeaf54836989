---------------------------- MODULE MCCacheStore ----------------------------
\* CacheStore with interchangeable accounts, for TLC.
EXTENDS CacheStore, TLC

AnyAccount == Permutations(Account)
=============================================================================
