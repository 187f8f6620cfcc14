---------------------------- MODULE MCTaskQuery ----------------------------
(* A small instance of TaskQuery for TLC. *)
EXTENDS TaskQuery

CONSTANTS a1, w1

OneTask == {a1}
OneWorker == {w1}
=============================================================================
