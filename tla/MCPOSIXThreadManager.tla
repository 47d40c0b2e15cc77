------------------------ MODULE MCPOSIXThreadManager ------------------------
(* POSIXThreadManager for TLC. *)
EXTENDS POSIXThreadManagerProperties
=============================================================================
