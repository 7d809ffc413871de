-------------------------- MODULE MCStorageWorker ---------------------------
(* A channel smaller than the number of jobs, so that it fills.            *)
EXTENDS StorageWorker
=============================================================================
