---------------------------- MODULE MCCatalogDesk ----------------------------
(* One tab on the catalog: a new product, or one that exists. *)
EXTENDS CatalogDesk
=============================================================================
