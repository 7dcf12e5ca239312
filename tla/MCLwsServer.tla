---------------------------- MODULE MCLwsServer -----------------------------
(***************************************************************************)
(* LwsServer for TLC.  Connections, descriptors and ids are                *)
(* interchangeable.                                                        *)
(***************************************************************************)
EXTENDS LwsServer, TLC

Symmetry == Permutations(Conn) \cup Permutations(Fd) \cup Permutations(Id)
=============================================================================
