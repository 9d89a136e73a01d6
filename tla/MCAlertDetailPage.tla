------------------------- MODULE MCAlertDetailPage -------------------------
(* The detail page going back and forth between two alerts. *)
EXTENDS AlertDetailPage
=============================================================================
