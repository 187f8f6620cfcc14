--------------------------- MODULE MCStreamingASR ---------------------------
(* Small instances of StreamingASR for TLC. *)
EXTENDS StreamingASR, TLC

CONSTANTS c1, c2, x, y

OneConn == {c1}
TwoConns == {c1, c2}
OneText == {x}
TwoTexts == {x, y}

(* One connection talks, the other only wants its slot. *)
Uneven == [c \in TwoConns |-> IF c = c1 THEN 3 ELSE 0]
OneMessage == [c \in OneConn |-> 1]
=============================================================================
