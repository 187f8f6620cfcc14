------------------------------ MODULE TaskQuery ------------------------------
(***************************************************************************)
(* The readers of the task queue: the client that polls a task through     *)
(* HandleASRTaskQuery (src/internal/handler/asr.go) and the administrator  *)
(* who lists the tasks through ListTasks (src/internal/asr/task_queue.go). *)
(* TaskQueue goes on unchanged around them, and the progress it leaves out *)
(* is added here: a worker's callback stores the number of chunks and then *)
(* the number of finished ones, in two atomic operations.                  *)
(*                                                                         *)
(* A response is put together from up to four looks at the status, each    *)
(* under the task's mutex, and from reads of Result, Error, CompleteTime   *)
(* and of the two numbers outside it; the task goes on in between, so each *)
(* look is a step, and one under the mutex waits until Complete gives it   *)
(* back.  Result is read with the look that found the task completed,      *)
(* because the result of a completed task is final (SettledIsFinal).  A    *)
(* read that races with a write returns the old or the new value: Result   *)
(* and Error are one pointer and an interface whose type word never        *)
(* changes.                                                                *)
(*                                                                         *)
(* Left out: the times in a listing other than whether a completion time   *)
(* is set, and the texts themselves.                                       *)
(***************************************************************************)
EXTENDS TaskQueue

CONSTANT NumChunks  \* total in the progress callback: chunks or segments

ASSUME NumChunksAssumption == NumChunks \in Nat \ {0}

VARIABLES
    chunks,   \* chunks[t]: TotalChunks and DoneChunks
    poll,     \* poll[t]: the query under way for t: its place and its response
    seen,     \* seen[t]: the last response the client got
    list      \* the listing under way: its place, the tasks left, the row

readerVars == <<poll, seen, list>>

allVars == <<vars, chunks, readerVars>>

(* The fields of OfflineASRTaskResponse.  Progress counts chunks; NumChunks *)
(* of them are 100 percent.                                                 *)
Blank == [status |-> "none", progress |-> 0, text |-> "none", error |-> "none"]

NotFound == [Blank EXCEPT !.status = "not found"]

PollPC == {"idle", "found", "progress", "total", "done", "known", "incomplete", "failed"}

BlankRow == [task |-> NoTask, status |-> "none", finished |-> FALSE, progress |-> 0]

ListPC == {"idle", "next", "time", "progress", "total", "done", "known"}

QueryInit ==
    /\ Init
    /\ chunks = [t \in Task |-> [total |-> 0, done |-> 0]]
    /\ poll = [t \in Async |-> [pc |-> "idle", resp |-> Blank]]
    /\ seen = [t \in Async |-> Blank]
    /\ list = [pc |-> "idle", left |-> {}, row |-> BlankRow]

-----------------------------------------------------------------------------
(* The worker's callback *)

StoreTotal(w) ==
    /\ wpc[w] = "running"
    /\ chunks[wtask[w]].total = 0
    /\ chunks' = [chunks EXCEPT ![wtask[w]].total = NumChunks]
    /\ UNCHANGED <<vars, readerVars>>

(* Mutant: the callback gets the number of the chunk that is finished. *)
MutStoreDone(w) ==
    /\ wpc[w] = "running"
    /\ chunks[wtask[w]].total > 0
    /\ \E n \in 1 .. NumChunks : chunks' = [chunks EXCEPT ![wtask[w]].done = n]
    /\ UNCHANGED <<vars, readerVars>>

(* Mutant: a chunk can be counted twice. *)
MutStoreTwice(w) ==
    /\ wpc[w] = "running"
    /\ chunks[wtask[w]].total > 0
    /\ chunks' = [chunks EXCEPT ![wtask[w]].done = @ + 1]
    /\ UNCHANGED <<vars, readerVars>>

StoreDone(w) ==
    /\ wpc[w] = "running"
    /\ chunks[wtask[w]].total > chunks[wtask[w]].done
    /\ chunks' = [chunks EXCEPT ![wtask[w]].done = @ + 1]
    /\ UNCHANGED <<vars, readerVars>>

(* Between the two stores of the first callback. *)
InCallback(w) ==
    wpc[w] = "running" /\ chunks[wtask[w]].total > 0 /\ chunks[wtask[w]].done = 0

(* ListTasks holds storeMu for reading. *)
Listing == list.pc # "idle"

(* Bound: readers only read, so no two of them have to be under way at once. *)
NobodyPolls == \A t \in Async : poll[t].pc = "idle"

(* A step of the queue: recognition does not return in the middle of a      *)
(* callback, and nobody takes storeMu for writing during a listing.         *)
QueueStep ==
    /\ Next
    /\ \A w \in Worker : InCallback(w) => wpc'[w] = "running"
    /\ Listing => taskStore' = taskStore /\ (StoreLocked' => StoreLocked)
    /\ UNCHANGED <<chunks, readerVars>>

-----------------------------------------------------------------------------
(* Mutant: the share of the finished chunks, also of a completed task. *)
MutGetProgress(t, pc, next, value) ==
    \/ pc = "progress" /\ next = "total" /\ value = 0
    \/ pc = "total" /\ chunks[t].total = 0 /\ next = "known" /\ value = 0
    \/ pc = "total" /\ chunks[t].total > 0 /\ next = "done" /\ value = 0
    \/ pc = "done" /\ next = "known" /\ value = chunks[t].done

(* GetProgress: a look at the status, then at one number after the other.   *)
(* The reader goes from pc to next and knows the progress in the end.       *)
GetProgress(t, pc, next, value) ==
    \/ /\ pc = "progress" /\ ~Locked(t) /\ status[t] = "completed"
       /\ next = "known" /\ value = NumChunks
    \/ /\ pc = "progress" /\ ~Locked(t) /\ status[t] # "completed"
       /\ next = "total" /\ value = 0
    \/ pc = "total" /\ chunks[t].total = 0 /\ next = "known" /\ value = 0
    \/ pc = "total" /\ chunks[t].total > 0 /\ next = "done" /\ value = 0
    \/ pc = "done" /\ next = "known" /\ value = chunks[t].done

-----------------------------------------------------------------------------
(* The polling client, HandleASRTaskQuery *)

PollTo(t, pc, resp) ==
    /\ poll' = [poll EXCEPT ![t] = [pc |-> pc, resp |-> resp]]
    /\ UNCHANGED <<vars, chunks, seen, list>>

Respond(t, resp) ==
    /\ poll' = [poll EXCEPT ![t] = [pc |-> "idle", resp |-> Blank]]
    /\ seen' = [seen EXCEPT ![t] = resp]
    /\ UNCHANGED <<vars, chunks, list>>

(* The client has the ID once Submit accepted the task; GetTask takes       *)
(* storeMu for reading.                                                     *)
FindTask(t) ==
    /\ handler[t] = "accepted"
    /\ NobodyPolls /\ ~Listing
    /\ ~StoreLocked
    /\ IF t \in taskStore THEN PollTo(t, "found", Blank) ELSE Respond(t, NotFound)

ReportStatus(t) ==
    /\ poll[t].pc = "found"
    /\ ~Locked(t)
    /\ PollTo(t, "progress", [Blank EXCEPT !.status = status[t]])

ReportProgress(t) ==
    \E next \in PollPC, value \in 0 .. NumChunks :
        /\ GetProgress(t, poll[t].pc, next, value)
        /\ PollTo(t, next, [poll[t].resp EXCEPT !.progress = value])

(* A second look at the status decides whether the response has a text. *)
ReportText(t) ==
    /\ poll[t].pc = "known"
    /\ ~Locked(t)
    /\ IF status[t] = "completed" /\ result[t] # "none"
         THEN Respond(t, [poll[t].resp EXCEPT !.text = result[t]])
         ELSE PollTo(t, "incomplete", poll[t].resp)

(* A third look decides whether it has an error ... *)
CheckFailed(t) ==
    /\ poll[t].pc = "incomplete"
    /\ ~Locked(t)
    /\ IF status[t] = "failed" THEN PollTo(t, "failed", poll[t].resp)
                               ELSE Respond(t, poll[t].resp)

(* ... which is read afterwards. *)
ReportError(t) ==
    /\ poll[t].pc = "failed"
    /\ Respond(t, [poll[t].resp EXCEPT !.error = error[t]])

PollStep(t) == \/ ReportStatus(t) \/ ReportProgress(t) \/ ReportText(t)
               \/ CheckFailed(t) \/ ReportError(t)

-----------------------------------------------------------------------------
(* The administrator's listing, ListTasks *)

ListTo(pc, row) ==
    /\ list' = [list EXCEPT !.pc = pc, !.row = row]
    /\ UNCHANGED <<vars, chunks, poll, seen>>

StartListing ==
    /\ ~Listing
    /\ NobodyPolls
    /\ ~StoreLocked
    /\ list' = [pc |-> "next", left |-> taskStore, row |-> BlankRow]
    /\ UNCHANGED <<vars, chunks, poll, seen>>

(* The row of the next task begins with its status. *)
RowStatus(t) ==
    /\ list.pc = "next"
    /\ t \in list.left
    /\ ~Locked(t)
    /\ list' = [pc |-> "time", left |-> list.left \ {t},
                row |-> [BlankRow EXCEPT !.task = t, !.status = status[t]]]
    /\ UNCHANGED <<vars, chunks, poll, seen>>

RowTime ==
    /\ list.pc = "time"
    /\ ListTo("progress", [list.row EXCEPT !.finished = completeTime[list.row.task] # "never"])

RowProgress ==
    \E next \in ListPC, value \in 0 .. NumChunks :
        /\ GetProgress(list.row.task, list.pc, next, value)
        /\ ListTo(next, [list.row EXCEPT !.progress = value])

(* The row that is known now is part of the listing. *)
AppendRow ==
    /\ list.pc = "known"
    /\ ListTo("next", BlankRow)

EndListing ==
    /\ list.pc = "next"
    /\ list.left = {}
    /\ ListTo("idle", BlankRow)

ListStep == RowTime \/ RowProgress \/ AppendRow \/ EndListing \/ \E t \in Async : RowStatus(t)

-----------------------------------------------------------------------------
QueryNext ==
    \/ QueueStep
    \/ \E w \in Worker : StoreTotal(w) \/ StoreDone(w)
    \/ \E t \in Async : FindTask(t) \/ PollStep(t)
    \/ StartListing \/ ListStep

QuerySpec == QueryInit /\ [][QueryNext]_allVars

(* The queue's goroutines run as in TaskQueue, handlers and listings that   *)
(* have begun go on, and the client polls again and again.  Finding the     *)
(* task and the queue's own steps compete for storeMu, which Go hands to    *)
(* whoever waits: strong fairness.                                          *)
QueryFairness ==
    /\ \A w \in Worker : /\ WF_allVars(QueueStep /\ WorkerStep(w))
                         /\ WF_allVars(StoreTotal(w)) /\ WF_allVars(StoreDone(w))
    /\ SF_allVars(QueueStep /\ CleanerStep)
    /\ \A t \in Async : SF_allVars(FindTask(t)) /\ WF_allVars(PollStep(t))
    /\ WF_allVars(ListStep)

FairQuerySpec == QuerySpec /\ QueryFairness

-----------------------------------------------------------------------------
(* Properties *)

(* The readers' variables keep their types; in particular the client is     *)
(* never shown more than 100 percent.                                       *)
QueryTypeOK ==
    /\ chunks \in [Task -> [total : {0, NumChunks}, done : 0 .. NumChunks]]
    /\ \A t \in Async : /\ poll[t].pc \in PollPC
                        /\ {poll[t].resp, seen[t]} \subseteq
                              [status : Status \cup {"none", "not found"}, progress : 0 .. NumChunks,
                               text : Answer \cup {"none"}, error : {"none", "cancelled", "recognition"}]
    /\ list.pc \in ListPC /\ list.left \subseteq Async
    /\ list.row \in [task : Async \cup {NoTask}, status : Status \cup {"none"},
                     finished : BOOLEAN, progress : 0 .. NumChunks]

(* Whatever happened between the looks, a response that says "completed" is *)
(* whole: it has the text of the task's one run, 100 percent and no error;  *)
(* a response with a text belongs to a task that has it; and a row of the   *)
(* listing that says "completed" has its completion time and 100 percent.   *)
CompletedIsWhole ==
    /\ \A t \in Async :
          /\ seen[t].status = "completed" =>
                seen[t] = [status |-> "completed", progress |-> NumChunks,
                           text |-> "ok", error |-> "none"]
          /\ seen[t].text # "none" => result[t] = "ok"
    /\ list.pc = "known" /\ list.row.status = "completed" =>
          list.row.finished /\ list.row.progress = NumChunks

(* From one response to the next a client sees the task go forward: the     *)
(* progress of a task that is found never falls, a completed task stays     *)
(* completed until it is collected, and a collected one never comes back.   *)
PollsMoveForward ==
    [][\A t \in Async : seen'[t] # seen[t] =>
          /\ seen[t] # NotFound
          /\ seen'[t] # NotFound =>
                /\ seen'[t].progress >= seen[t].progress
                /\ seen[t].status # "completed"]_allVars

(* A client that keeps polling comes to a response it can stop at. *)
PollingEnds ==
    \A t \in Async : handler[t] = "accepted"
                        ~> seen[t].status \in {"completed", "failed", "not found"}
=============================================================================
