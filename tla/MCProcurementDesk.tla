------------------------- MODULE MCProcurementDesk -------------------------
(* Two resources, one type of activity and two offers. *)
EXTENDS ProcurementDesk
=============================================================================
