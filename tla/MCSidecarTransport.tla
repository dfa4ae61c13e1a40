--------------------------- MODULE MCSidecarTransport ---------------------------
(***************************************************************************)
(* SidecarTransport on a small instance.                                   *)
(***************************************************************************)
EXTENDS SidecarTransport
===============================================================================
