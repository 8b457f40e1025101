---------------------------- MODULE MCOrderDesk ----------------------------
(* One existing order and the orders the tab creates. *)
EXTENDS OrderDesk
=============================================================================
