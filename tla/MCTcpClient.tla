----------------------------- MODULE MCTcpClient -----------------------------
(* Instances of TcpClient for TLC: the names of sockets and threads.       *)
EXTENDS TcpClient

CONSTANTS f1, f2, s1, s2
==============================================================================
