------------------------- MODULE MCConnectorSession -------------------------
(* A small instance of ConnectorSession. *)
EXTENDS ConnectorSession
=============================================================================
