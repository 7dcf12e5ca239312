---------------------------- MODULE MCTcpServer -----------------------------
(***************************************************************************)
(* TcpServer for TLC: the safety runs identify states that differ only in  *)
(* the names of connections, descriptors or ids.                           *)
(***************************************************************************)
EXTENDS TcpServer, TLC

Symmetry == Permutations(Conn) \cup Permutations(Fd) \cup Permutations(Id)
=============================================================================
