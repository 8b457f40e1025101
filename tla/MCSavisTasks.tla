---------------------------- MODULE MCSavisTasks ----------------------------
(* Small instances of SavisTasks for TLC. *)
EXTENDS SavisTasks, TLC

CONSTANTS t1, t2, o1

\* Two refreshes of one offer.
MCRefreshes == (t1 :> o1) @@ (t2 :> o1)

\* A refresh and a collection.
MCRefreshAndCollection == (t1 :> o1) @@ (t2 :> NoOffer)
=============================================================================
