--------------------------- MODULE MCDocumentDesk ---------------------------
(* One quotation or invoice, and what the tab adds to it. *)
EXTENDS DocumentDesk
=============================================================================
