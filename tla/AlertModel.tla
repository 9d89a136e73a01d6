----------------------------- MODULE AlertModel -----------------------------
(* An alert as the dashboard sees it, on every page. *)

CONSTANT Alert  \* alerts

Status == {"NEW", "ACKNOWLEDGED"}
=============================================================================
