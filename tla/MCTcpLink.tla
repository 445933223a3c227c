----------------------------- MODULE MCTcpLink ------------------------------
(***************************************************************************)
(* Instances of TcpLink for TLC.                                            *)
(***************************************************************************)
EXTENDS TcpLink
=============================================================================
