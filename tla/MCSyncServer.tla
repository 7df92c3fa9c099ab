---------------------------- MODULE MCSyncServer ----------------------------
(* Small instances of SyncServer for TLC.                                  *)
EXTENDS SyncServer, TLC

Symmetry == Permutations(Reqs) \cup Permutations(Accounts) \cup Permutations(Blobs)
=============================================================================
