---------------------------- MODULE MCTaskQueue ----------------------------
(* Small instances of TaskQueue for TLC. *)
EXTENDS TaskQueue, TLC

CONSTANTS a1, s1, s2, s3, w1, w2

(* a1 is a polled request, the others are blocking ones.  With one place in *)
(* the buffer, a second submission can park, and a third behind it.         *)
OnePolled == {a1}
NonePolled == {}
SmallTasks == {a1, s1}
BlockingTasks == {s1, s2, s3}

OneWorker == {w1}
TwoWorkers == {w1, w2}

(* Workers are interchangeable, and so are the blocking requests. *)
Interchangeable == Permutations(TwoWorkers) \cup Permutations(BlockingTasks)
=============================================================================
