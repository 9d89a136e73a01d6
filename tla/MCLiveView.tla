----------------------------- MODULE MCLiveView -----------------------------
(* The live page with two alerts and a feed of one row. *)
EXTENDS LiveView
=============================================================================
