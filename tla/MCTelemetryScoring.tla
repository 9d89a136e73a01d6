-------------------------- MODULE MCTelemetryScoring -------------------------
(* Histories of two machines: windows of six seconds every three, a        *)
(* watermark of four.                                                      *)
EXTENDS TelemetryScoring

CONSTANTS m1, m2

Whole(m, t, ingest, state, rpm, power) ==
    [form |-> "whole", machine |-> m, time |-> t, ingest |-> ingest,
     state |-> state, rpm |-> rpm, power |-> power]

Running(m, t, rpm, power) == Whole(m, t, t, "RUNNING", rpm, power)
Broken(m, t, form) == [Running(m, t, 1, 2) EXCEPT !.form = form]

MCTopics == {
    \* a complete window, out of order, and the window after it
    <<Running(m1, 6, 1, 2), Running(m1, 10, 2, 4), Running(m1, 8, 1, Null), Running(m1, 18, 1, 2)>>,
    \* another machine's clock moves the watermark past a window in progress;
    \* a message without its readings
    <<Running(m1, 7, 1, 2), Running(m2, 21, 2, 2), Running(m1, 9, 2, 2),
      [Broken(m1, 10, "readings") EXCEPT !.rpm = Null, !.power = Null]>>,
    \* late, held back, without ingest time
    <<Running(m1, 9, 1, 1), Whole(m1, 6, 11, "RUNNING", 2, 2),
      Whole(m1, 8, 12, "RUNNING", 2, 4),
      [Broken(m1, 11, "ingest_time") EXCEPT !.ingest = Null]>>,
    \* rejected in three ways, and a copy of a message
    <<Broken(m1, 8, "garbage"), Running(m1, 8, 0, 2), Broken(m1, 9, "event_time"),
      Running(m1, 8, 0, 2)>>,
    \* a machine that stops in its window
    <<Running(m1, 6, 2, 2), Broken(m1, 9, "foreign"), Whole(m1, 11, 11, "STOPPED", 0, 0),
      Running(m1, 8, 2, 4)>> }
=============================================================================
