--------------------------- MODULE MCRtlTcpServer ---------------------------
(* Instances of RtlTcpServer for TLC; the cfg files give every constant. *)
EXTENDS RtlTcpServer
=============================================================================
