--------------------------- MODULE MCFileTransfer ---------------------------
(***************************************************************************)
(* FileTransfer on small instances: an empty file, one that fits into the  *)
(* send buffer and one that has to wait for it to drain.                   *)
(***************************************************************************)
EXTENDS FileTransfer

CONSTANTS empty, short, long

MCFiles == {empty, short, long}
MCSize == [f \in MCFiles |-> CASE f = empty -> 0 [] f = short -> 1 [] f = long -> 4]

=============================================================================
