--------------------------- MODULE MCAlertEpisodes ---------------------------
(* Two machines: m1 with windows within a gap, at its edge and beyond it,  *)
(* and m2, whose later window moves the watermark past m1's run.           *)
EXTENDS AlertEpisodes

CONSTANTS m1, m2

MCRow == ({m1} \X {0, 1, 4, 5, 6}) \cup ({m2} \X {1, 6})
=============================================================================
