--------------------------- MODULE MCHistoryPage ---------------------------
(* Two pages without a filter, one with the first, none with the second. *)
EXTENDS HistoryPage

MCPages == [all |-> 2, some |-> 1, none |-> 0]
=============================================================================
