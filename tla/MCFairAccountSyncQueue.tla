------------------------ MODULE MCFairAccountSyncQueue ------------------------
(* FairAccountSyncQueue on three accounts; the bounds are in the configuration. *)
EXTENDS FairAccountSyncQueue, TLC
=============================================================================
