----------------------------- MODULE MCTcpServer -----------------------------
(* Small instances of TcpServer: the constants are in the configurations.   *)
EXTENDS TcpServer
=============================================================================
