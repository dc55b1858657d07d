--------------------------- MODULE MCFaultyHosting ---------------------------
(* The instances of FileHosting, with a storage that fails.                 *)
EXTENDS FaultyHosting, MCFileHosting

(* Every operation, without any discipline of the clients.                  *)
FaultyRequests == CoreRequests \cup {On("getFile", a), On("getFiles", a)}
=============================================================================
