----------------------------- MODULE MCTcpServer -----------------------------
(* Instances of TcpServer for TLC: the pools of io loops.                  *)
EXTENDS TcpServer

CONSTANTS io1, io2

NoPool  == <<>>
OneLoop == <<io1>>
TwoLoops == <<io1, io2>>
==============================================================================
