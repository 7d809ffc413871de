-------------------------- MODULE MCStorageService --------------------------
(* The storage service on a small instance. *)
EXTENDS StorageService
=============================================================================
