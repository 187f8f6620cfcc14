------------------------ MODULE MCChunkedRecognition ------------------------
(* Small instances of ChunkedRecognition for TLC. *)
EXTENDS ChunkedRecognition

CONSTANTS w1, w2, x

TwoWorkers == {w1, w2}
OneText == {x}
=============================================================================
