---------------------------- MODULE MCStatistics ----------------------------
(***************************************************************************)
(* An instance of get_stats for TLC: one capture is read, another one      *)
(* starts and stops beside it.                                             *)
(***************************************************************************)
EXTENDS CaptureStatistics

CONSTANTS c1, c2

MCCaptures == {c1, c2}
MCReaders  == {c1}

\* Bounds: the other capture is started and stopped, with a cleanup that
\* succeeds; and is not yet there when the reader polls or frees its own.
MCBystander == /\ call[c2] \in {"create", "start", "stop"}
               /\ status[c2] \in {"OK", "ALREADY_ACTIVE"}
               /\ call[c1] \in {"poll", "destroy"} => ctl[c2] = "absent"
===============================================================================
