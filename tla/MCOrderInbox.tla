---------------------------- MODULE MCOrderInbox ----------------------------
(* Small instances of OrderInbox for TLC. *)
EXTENDS OrderInbox
=============================================================================
