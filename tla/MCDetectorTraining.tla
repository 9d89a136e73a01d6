------------------------- MODULE MCDetectorTraining -------------------------
(* Two partitions of one machine each; the cuts of the splits lie inside    *)
(* windows, and the topics hold copies of a sample and of a label.          *)
EXTENDS DetectorTraining

CONSTANTS p1, p2, m1, m2, e1, e2, iforest, ocsvm, t1, t2

Sample(id, m, t, state, episode) ==
    [id |-> id, form |-> "whole", machine |-> m, time |-> t, ingest |-> t,
     state |-> state, rpm |-> 1, power |-> 2, episode |-> episode]

Healthy(id, m, t) == Sample(id, m, t, "RUNNING", Null)
Anomalous(id, m, t, e) == Sample(id, m, t, "RUNNING", e)

\* Training before 7, validation before 15, test from 15 on.
MCLogs == {
    p1 :> <<Healthy(1, m1, 1), Healthy(2, m1, 5), Anomalous(3, m1, 8, e1),
            Healthy(4, m1, 8), Healthy(4, m1, 8), Anomalous(5, m1, 11, e1),
            Anomalous(5, m1, 11, e1), Healthy(6, m1, 13), Anomalous(7, m1, 16, e2)>>
    @@ p2 :> <<Healthy(8, m2, 6), [Healthy(9, m2, 9) EXCEPT !.form = "readings"],
               Anomalous(10, m2, 12, e2)>> }

MCCandidates == <<iforest, ocsvm>>

\* Scores of a window by its start: a detector that sees the first episode,
\* one that sees the second, one that sees noise.
MCScores ==
    {[w \in {m1, m2} \X {s \in -2..16 : s % 2 = 0} |->
         IF w[2] \in 4..14 THEN score[w[1]][(w[2] - 2) \div 2] ELSE 0] :
        score \in {(m1 :> <<1, 2, 2, 2, 1, 0>> @@ m2 :> <<0, 0, 0, 0, 0, 0>>),
                   (m1 :> <<0, 0, 1, 0, 0, 0>> @@ m2 :> <<0, 0, 2, 2, 2, 0>>),
                   (m1 :> <<2, 2, 0, 2, 2, 2>> @@ m2 :> <<2, 2, 0, 2, 0, 0>>)}}
=============================================================================
