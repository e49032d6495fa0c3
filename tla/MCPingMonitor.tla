--------------------------- MODULE MCPingMonitor ---------------------------
(* A small instance of PingMonitor for TLC. *)
EXTENDS PingMonitor
=============================================================================
