---------------------------- MODULE TaskService ----------------------------
(***************************************************************************)
(* What the recognition task queue promises its callers, without the       *)
(* channel, the locks and the counters it is built from.                   *)
(*                                                                         *)
(* A submitted task joins the end of one line.  The first Capacity places  *)
(* of the line are safe: a task that reached one of them can only leave it *)
(* to be served, in the order of the line.  A task further back may be     *)
(* turned away, and so may a task that has not joined yet.  At most        *)
(* Cardinality(Server) tasks are served at a time, and serving a task ends *)
(* with one outcome, which never changes.                                  *)
(***************************************************************************)
EXTENDS Naturals, FiniteSets, SequencesExt

CONSTANTS Task,      \* the submissions
          Server,    \* the servers
          Capacity   \* how many places of the line are safe

VARIABLES line,      \* the tasks waiting to be served, first in line first
          serving,   \* the tasks being served
          turnedAway,\* the tasks that were refused
          outcome    \* outcome[t]: "none" until t was served, then its result

vars == <<line, serving, turnedAway, outcome>>

Outcome == {"ok", "err"}

Init == /\ line = <<>>
        /\ serving = {}
        /\ turnedAway = {}
        /\ outcome = [t \in Task |-> "none"]

(* A task nobody has heard of yet. *)
Fresh(t) == /\ t \notin ToSet(line) \cup serving \cup turnedAway
            /\ outcome[t] = "none"

Join(t) == /\ Fresh(t)
           /\ line' = Append(line, t)
           /\ UNCHANGED <<serving, turnedAway, outcome>>

TurnAway(t) == /\ Fresh(t)
               /\ turnedAway' = turnedAway \cup {t}
               /\ UNCHANGED <<line, serving, outcome>>

(* One task that has no safe place leaves the line. *)
GiveUp(i) == /\ i > Capacity
             /\ line' = RemoveAt(line, i)
             /\ turnedAway' = turnedAway \cup {line[i]}
             /\ UNCHANGED <<serving, outcome>>

(* The service stops admitting: every task without a safe place leaves. *)
StopAdmitting ==
    /\ Len(line) > Capacity
    /\ line' = SubSeq(line, 1, Capacity)
    /\ turnedAway' = turnedAway \cup ToSet(SubSeq(line, Capacity + 1, Len(line)))
    /\ UNCHANGED <<serving, outcome>>

Serve == /\ line # <<>>
         /\ Cardinality(serving) < Cardinality(Server)
         /\ serving' = serving \cup {Head(line)}
         /\ line' = Tail(line)
         /\ UNCHANGED <<turnedAway, outcome>>

Finish(t) == /\ t \in serving
             /\ serving' = serving \ {t}
             /\ \E o \in Outcome : outcome' = [outcome EXCEPT ![t] = o]
             /\ UNCHANGED <<line, turnedAway>>

Next == \/ \E t \in Task : Join(t) \/ TurnAway(t) \/ Finish(t)
        \/ \E i \in 1 .. Len(line) : GiveUp(i)
        \/ StopAdmitting
        \/ Serve

Spec == Init /\ [][Next]_vars
=============================================================================
