----------------------------- MODULE TaskQueue -----------------------------
(***************************************************************************)
(* The recognition task queue (src/internal/asr/task_queue.go) with the    *)
(* request handlers that feed it (src/internal/handler/asr.go), the        *)
(* administrator who cancels tasks (src/internal/handler/admin.go), the    *)
(* collector of old tasks, and Close.                                      *)
(*                                                                         *)
(* Actors, all of them goroutines:                                         *)
(*   - one handler per request.  A request in Async goes through           *)
(*     HandleOfflineASRAsync: its task is stored, submitted, and the       *)
(*     caller polls.  The other requests go through                        *)
(*     HandleOfflineASRWithQueue: the task is not stored and the handler   *)
(*     blocks in Wait until it has an answer;                              *)
(*   - the workers, which take tasks from the channel and run them;        *)
(*   - administrators, who look a stored task up and then cancel it;       *)
(*   - the collector, which removes finished tasks an hour later;          *)
(*   - whoever calls Close.                                                *)
(*                                                                         *)
(* Grain of atomicity.  A critical section of a task's mutex is one step,  *)
(* except that of Complete, which sends to a channel and cancels a context *)
(* that Wait selects from without the mutex: Record, Deliver and Release.  *)
(* Whoever wants the mutex between them is held up (Locked).  The fields   *)
(* Record writes are read without the mutex by others, but only one field  *)
(* between two looks under it.                                             *)
(*                                                                         *)
(* A channel operation is one step, with the semantics of a buffered Go    *)
(* channel: senders that find the buffer full park in FIFO order (sendq),  *)
(* a receive moves the first parked sender's value into the buffer, and    *)
(* closing the channel makes every parked and later sender panic.  A       *)
(* select takes any ready case, and parks when there is none.  Atomic      *)
(* updates of different counters with nothing in between are one step.     *)
(* The collector reads a task's status and its CompleteTime in two steps.  *)
(* The unlocked read of CompleteTime returns the old or the new value: a   *)
(* non-zero time keeps its monotonic reading in one word and Before        *)
(* compares only that word.                                                *)
(*                                                                         *)
(* Left out: audio, text, progress and times other than the three the      *)
(* code compares (5 s to submit, 30 min to wait, 1 h to keep a task).      *)
(***************************************************************************)
EXTENDS Integers, FiniteSets, SequencesExt

CONSTANTS Task,        \* the requests, each with the task it makes
          Async,       \* the requests made through HandleOfflineASRAsync
          Worker,      \* the workers
          QueueSize,   \* capacity of the channel
          AllowClose,  \* whether somebody may call Close
          NoTask       \* the nil task

ASSUME QueueSizeAssumption == QueueSize \in Nat \ {0}
ASSUME TaskAssumption == Async \subseteq Task /\ NoTask \notin Task
ASSUME WorkerAssumption == Worker # {} /\ IsFiniteSet(Worker)
ASSUME AllowCloseAssumption == AllowClose \in BOOLEAN

VARIABLES
    (* fields of ASRTask *)
    status,       \* status[t]: Status
    error,        \* error[t]: what Error says, "none" for nil
    result,       \* result[t]: "none" until Complete, then whether it was an error
    completeTime, \* completeTime[t]: "never", "recent" or "old" (over an hour ago)
    ctx,          \* ctx[t]: "live", "cancelled" or "expired" (the 30 minutes)
    resultChan,   \* resultChan[t]: the value in the one-place channel, or "none"
    (* fields of TaskQueue *)
    queue,        \* the buffer of the channel
    sendq,        \* the senders parked on the channel
    taskStore,    \* the tasks known by ID
    stats,        \* the counters of taskQueueStats
    closer,       \* how far Close has come
    (* goroutines *)
    handler,      \* handler[t]: where the request's handler is
    reply,        \* reply[t]: what Wait returned to a blocking handler
    wpc,          \* wpc[w]: where the worker is
    wtask,        \* wtask[w]: the task it holds, NoTask for none
    wres,         \* wres[w]: what the recognition it ran returned
    cancelling,   \* tasks an administrator looked up and is about to cancel
    cleaner,      \* where the collector is
    todo,         \* the tasks its pass has still to visit
    candidate     \* the task whose status it read as finished, or NoTask

taskVars    == <<status, error, result, completeTime>>
chanVars    == <<queue, sendq>>
workerVars  == <<wpc, wtask, wres>>
cleanerVars == <<cleaner, todo, candidate>>

vars == <<status, error, result, completeTime, ctx, resultChan, queue, sendq,
          taskStore, stats, closer, handler, reply, wpc, wtask, wres,
          cancelling, cleaner, todo, candidate>>

Status == {"pending", "processing", "completed", "failed"}

Finished == {"completed", "failed"}

Answer == {"ok", "err"}

HandlerPC == {"absent", "built", "counted", "parked", "accepted",
              "waiting", "answered", "refused", "panicked"}

WorkerPC == {"idle", "taken", "begun", "running", "decoded", "recorded",
             "delivered", "completed", "exited"}

Counter == {"total", "queued", "processing", "completed", "failed"}

(* The states of a worker in which its task has no result yet. *)
Unfinished == {"taken", "begun", "running", "decoded"}

ShutdownClosed == closer # "open"
QueueClosed    == closer \in {"closed", "done"}
StoreLocked    == cleaner = "scanning"

(* A worker is inside Complete and holds the mutex of t. *)
Locked(t) == \E w \in Worker : wtask[w] = t /\ wpc[w] \in {"recorded", "delivered"}

-----------------------------------------------------------------------------
(* A task has the fields NewASRTask gives it from the start; nobody can see *)
(* them while its handler is "absent".                                      *)
Init ==
    /\ status       = [t \in Task |-> "pending"]
    /\ error        = [t \in Task |-> "none"]
    /\ result       = [t \in Task |-> "none"]
    /\ completeTime = [t \in Task |-> "never"]
    /\ ctx          = [t \in Task |-> "live"]
    /\ resultChan   = [t \in Task |-> "none"]
    /\ queue = <<>>
    /\ sendq = <<>>
    /\ taskStore = {}
    /\ stats = [c \in Counter |-> 0]
    /\ closer = "open"
    /\ handler = [t \in Task |-> "absent"]
    /\ reply   = [t \in Task |-> "none"]
    /\ wpc   = [w \in Worker |-> "idle"]
    /\ wtask = [w \in Worker |-> NoTask]
    /\ wres  = [w \in Worker |-> "none"]
    /\ cancelling = {}
    /\ cleaner = "idle"
    /\ todo = {}
    /\ candidate = NoTask

-----------------------------------------------------------------------------
(* The request handlers *)

(* Set one handler's place. *)
HandlerTo(t, pc) == handler' = [handler EXCEPT ![t] = pc]

(* HandleOfflineASRAsync: NewASRTask, then StoreTask under storeMu. *)
CreateStored(t) ==
    /\ t \in Async
    /\ handler[t] = "absent"
    /\ ~StoreLocked
    /\ taskStore' = taskStore \cup {t}
    /\ HandlerTo(t, "built")
    /\ UNCHANGED <<taskVars, ctx, resultChan, chanVars, stats, closer, reply,
                   workerVars, cancelling, cleanerVars>>

(* HandleOfflineASRWithQueue: NewASRTask only. *)
CreateUnstored(t) ==
    /\ t \notin Async
    /\ handler[t] = "absent"
    /\ HandlerTo(t, "built")
    /\ UNCHANGED <<taskVars, ctx, resultChan, chanVars, taskStore, stats, closer,
                   reply, workerVars, cancelling, cleanerVars>>

(* Submit counts the task before it tries to send it. *)
CountSubmission(t) ==
    /\ handler[t] = "built"
    /\ stats' = [stats EXCEPT !["total"] = @ + 1, !["queued"] = @ + 1]
    /\ HandlerTo(t, "counted")
    /\ UNCHANGED <<taskVars, ctx, resultChan, chanVars, taskStore, closer, reply,
                   workerVars, cancelling, cleanerVars>>

(* Mutant: room for one task more than make(chan, maxQueueSize) gives. *)
MutBufferFull == Len(queue) > QueueSize

BufferFull == Len(queue) >= QueueSize

(* Mutant: Submit sends again after a send that succeeded. *)
MutSend(t) ==
    /\ handler[t] = "counted"
    /\ ~QueueClosed /\ ~BufferFull
    /\ queue' = Append(queue, t)
    /\ UNCHANGED <<taskVars, ctx, resultChan, sendq, taskStore, stats, closer,
                   handler, reply, workerVars, cancelling, cleanerVars>>

(* Submit's send finds room in the buffer. *)
Send(t) ==
    /\ handler[t] = "counted"
    /\ ~QueueClosed
    /\ ~BufferFull
    /\ queue' = Append(queue, t)
    /\ HandlerTo(t, "accepted")
    /\ UNCHANGED <<taskVars, ctx, resultChan, sendq, taskStore, stats, closer,
                   reply, workerVars, cancelling, cleanerVars>>

(* Submit's select has no ready case: the handler parks for up to 5 seconds. *)
Park(t) ==
    /\ handler[t] = "counted"
    /\ ~QueueClosed
    /\ BufferFull
    /\ sendq' = Append(sendq, t)
    /\ HandlerTo(t, "parked")
    /\ UNCHANGED <<taskVars, ctx, resultChan, queue, taskStore, stats, closer,
                   reply, workerVars, cancelling, cleanerVars>>

(* Mutant: the send goes on in the background after the timeout. *)
MutUnpark(t) == UNCHANGED sendq

Unpark(t) == \E i \in 1 .. Len(sendq) :
                /\ sendq[i] = t
                /\ sendq' = RemoveAt(sendq, i)

(* Mutant: the submission stays counted as queued. *)
MutTakeBackCount == UNCHANGED stats

TakeBackCount == stats' = [stats EXCEPT !["queued"] = @ - 1]

(* The 5 seconds are over first: Submit takes its count back and fails. *)
GiveUp(t) ==
    /\ handler[t] = "parked"
    /\ Unpark(t)
    /\ TakeBackCount
    /\ HandlerTo(t, "refused")
    /\ UNCHANGED <<taskVars, ctx, resultChan, queue, taskStore, closer, reply,
                   workerVars, cancelling, cleanerVars>>

(* A send on the closed channel panics; the counters keep the submission. *)
SendOnClosed(t) ==
    /\ handler[t] = "counted"
    /\ QueueClosed
    /\ HandlerTo(t, "panicked")
    /\ UNCHANGED <<taskVars, ctx, resultChan, chanVars, taskStore, stats, closer,
                   reply, workerVars, cancelling, cleanerVars>>

(* Wait's select takes the result when it is there already ... *)
WaitTakesResult(t) ==
    /\ t \notin Async
    /\ handler[t] = "accepted"
    /\ resultChan[t] # "none"
    /\ reply' = [reply EXCEPT ![t] = resultChan[t]]
    /\ resultChan' = [resultChan EXCEPT ![t] = "none"]
    /\ HandlerTo(t, "answered")
    /\ UNCHANGED <<taskVars, ctx, chanVars, taskStore, stats, closer, workerVars,
                   cancelling, cleanerVars>>

(* ... or the done context, with or without a result beside it ... *)
WaitTakesDone(t) ==
    /\ t \notin Async
    /\ handler[t] = "accepted"
    /\ ctx[t] # "live"
    /\ reply' = [reply EXCEPT ![t] = "timeout"]
    /\ HandlerTo(t, "answered")
    /\ UNCHANGED <<taskVars, ctx, resultChan, chanVars, taskStore, stats, closer,
                   workerVars, cancelling, cleanerVars>>

(* ... and parks when neither is ready. *)
WaitParks(t) ==
    /\ t \notin Async
    /\ handler[t] = "accepted"
    /\ resultChan[t] = "none"
    /\ ctx[t] = "live"
    /\ HandlerTo(t, "waiting")
    /\ UNCHANGED <<taskVars, ctx, resultChan, chanVars, taskStore, stats, closer,
                   reply, workerVars, cancelling, cleanerVars>>

(* Mutant: Wait does not look at the context. *)
MutExpire(t) ==
    /\ t \notin Async
    /\ handler[t] \notin {"absent", "answered", "refused", "panicked"}
    /\ ctx[t] = "live"
    /\ ctx' = [ctx EXCEPT ![t] = "expired"]
    /\ UNCHANGED <<taskVars, resultChan, chanVars, taskStore, stats, closer,
                   handler, reply, workerVars, cancelling, cleanerVars>>

(* The context of t is done: a parked Wait returns. *)
WakeWait(t) ==
    IF handler[t] = "waiting"
      THEN /\ HandlerTo(t, "answered")
           /\ reply' = [reply EXCEPT ![t] = "timeout"]
      ELSE UNCHANGED <<handler, reply>>

(* The 30 minutes of NewASRTask's context are over; a parked Wait returns.  *)
(* Only Wait reads the context, so only the blocking requests need this.    *)
Expire(t) ==
    /\ t \notin Async
    /\ handler[t] \notin {"absent", "answered", "refused", "panicked"}
    /\ ctx[t] = "live"
    /\ ctx' = [ctx EXCEPT ![t] = "expired"]
    /\ WakeWait(t)
    /\ UNCHANGED <<taskVars, resultChan, chanVars, taskStore, stats, closer,
                   workerVars, cancelling, cleanerVars>>

-----------------------------------------------------------------------------
(* The workers *)

WorkerTo(w, pc) == wpc' = [wpc EXCEPT ![w] = pc]

(* The receive of run's select; the first parked sender's task takes the    *)
(* place that became free.  The select may choose it over a closed shutdown. *)
Take(w) ==
    /\ wpc[w] = "idle"
    /\ queue # <<>>
    /\ wtask' = [wtask EXCEPT ![w] = Head(queue)]
    /\ WorkerTo(w, "taken")
    /\ IF sendq = <<>>
         THEN /\ queue' = Tail(queue)
              /\ UNCHANGED <<sendq, handler>>
         ELSE /\ queue' = Append(Tail(queue), Head(sendq))
              /\ sendq' = Tail(sendq)
              /\ HandlerTo(Head(sendq), "accepted")
    /\ UNCHANGED <<taskVars, ctx, resultChan, taskStore, stats, closer, reply,
                   wres, cancelling, cleanerVars>>

(* processTask moves the task from the queued to the processing counter. *)
BeginTask(w) ==
    /\ wpc[w] = "taken"
    /\ stats' = [stats EXCEPT !["queued"] = @ - 1, !["processing"] = @ + 1]
    /\ WorkerTo(w, "begun")
    /\ UNCHANGED <<taskVars, ctx, resultChan, chanVars, taskStore, closer, handler,
                   reply, wtask, wres, cancelling, cleanerVars>>

(* SetStatus(TaskStatusProcessing): no look at the status it replaces. *)
SetProcessing(w) ==
    /\ wpc[w] = "begun"
    /\ status' = [status EXCEPT ![wtask[w]] = "processing"]
    /\ WorkerTo(w, "running")
    /\ UNCHANGED <<error, result, completeTime, ctx, resultChan, chanVars,
                   taskStore, stats, closer, handler, reply, wtask, wres,
                   cancelling, cleanerVars>>

(* The recogniser returns a text or an error. *)
Recognize(w) ==
    /\ wpc[w] = "running"
    /\ \E r \in Answer : wres' = [wres EXCEPT ![w] = r]
    /\ WorkerTo(w, "decoded")
    /\ UNCHANGED <<taskVars, ctx, resultChan, chanVars, taskStore, stats, closer,
                   handler, reply, wtask, cancelling, cleanerVars>>

(* Mutant: Complete leaves a cancelled task alone. *)
MutRecordResult(t, r) ==
    IF status[t] = "failed"
      THEN UNCHANGED taskVars
      ELSE /\ result' = [result EXCEPT ![t] = r]
           /\ status' = [status EXCEPT ![t] = IF r = "err" THEN "failed" ELSE "completed"]
           /\ error'  = [error EXCEPT ![t] = IF r = "err" THEN "recognition" ELSE @]
           /\ completeTime' = [completeTime EXCEPT ![t] = "recent"]

(* Mutant: Complete forgets the status. *)
MutRecordNoStatus(t, r) ==
    /\ result' = [result EXCEPT ![t] = r]
    /\ error'  = [error EXCEPT ![t] = IF r = "err" THEN "recognition" ELSE @]
    /\ completeTime' = [completeTime EXCEPT ![t] = "recent"]
    /\ UNCHANGED status

(* What Complete stores in the fields of t, Cancel's traces included: an    *)
(* error from Cancel stays where the recognition succeeded.                 *)
RecordResult(t, r) ==
    /\ result' = [result EXCEPT ![t] = r]
    /\ status' = [status EXCEPT ![t] = IF r = "err" THEN "failed" ELSE "completed"]
    /\ error'  = [error EXCEPT ![t] = IF r = "err" THEN "recognition" ELSE @]
    /\ completeTime' = [completeTime EXCEPT ![t] = "recent"]

(* Mutant: the result is sent before its error is set. *)
MutDeliverEarly(t, r) ==
    IF handler[t] = "waiting"
      THEN /\ HandlerTo(t, "answered")
           /\ reply' = [reply EXCEPT ![t] = "ok"]
           /\ UNCHANGED resultChan
      ELSE /\ resultChan' = [resultChan EXCEPT ![t] = IF @ = "none" THEN "ok" ELSE @]
           /\ UNCHANGED <<handler, reply>>

(* Complete's non-blocking send: a parked Wait gets the value at once, else *)
(* it goes into the empty channel, else it is dropped.                      *)
DeliverResult(t, r) ==
    IF handler[t] = "waiting"
      THEN /\ HandlerTo(t, "answered")
           /\ reply' = [reply EXCEPT ![t] = r]
           /\ UNCHANGED resultChan
      ELSE /\ resultChan' = [resultChan EXCEPT ![t] = IF @ = "none" THEN r ELSE @]
           /\ UNCHANGED <<handler, reply>>

(* What cancel() does to a context: nothing once it is done. *)
CancelContext(t) == ctx' = [ctx EXCEPT ![t] = IF @ = "live" THEN "cancelled" ELSE @]

(* Mutant: Complete cancels the context before it sends the result. *)
MutRecord(w) ==
    /\ wpc[w] = "decoded"
    /\ RecordResult(wtask[w], wres[w])
    /\ CancelContext(wtask[w])
    /\ WakeWait(wtask[w])
    /\ WorkerTo(w, "recorded")
    /\ UNCHANGED <<resultChan, chanVars, taskStore, stats, closer, wtask, wres,
                   cancelling, cleanerVars>>

(* Complete takes the task's mutex and records the result ... *)
Record(w) ==
    /\ wpc[w] = "decoded"
    /\ RecordResult(wtask[w], wres[w])
    /\ WorkerTo(w, "recorded")
    /\ UNCHANGED <<ctx, resultChan, chanVars, taskStore, stats, closer, handler,
                   reply, wtask, wres, cancelling, cleanerVars>>

(* ... sends it ... *)
Deliver(w) ==
    /\ wpc[w] = "recorded"
    /\ DeliverResult(wtask[w], wres[w])
    /\ WorkerTo(w, "delivered")
    /\ UNCHANGED <<taskVars, ctx, chanVars, taskStore, stats, closer, wtask, wres,
                   cancelling, cleanerVars>>

(* ... cancels the context and gives the mutex back. *)
Release(w) ==
    /\ wpc[w] = "delivered"
    /\ CancelContext(wtask[w])
    /\ WakeWait(wtask[w])
    /\ WorkerTo(w, "completed")
    /\ UNCHANGED <<taskVars, resultChan, chanVars, taskStore, stats, closer, wtask,
                   wres, cancelling, cleanerVars>>

(* The counter of the outcome, then the deferred calls of processTask. *)
Retire(w) ==
    /\ wpc[w] = "completed"
    /\ stats' = [stats EXCEPT !["failed"]     = IF wres[w] = "err" THEN @ + 1 ELSE @,
                              !["completed"]  = IF wres[w] = "err" THEN @ ELSE @ + 1,
                              !["processing"] = @ - 1]
    /\ wtask' = [wtask EXCEPT ![w] = NoTask]
    /\ wres'  = [wres EXCEPT ![w] = "none"]
    /\ WorkerTo(w, "idle")
    /\ UNCHANGED <<taskVars, ctx, resultChan, chanVars, taskStore, closer, handler,
                   reply, cancelling, cleanerVars>>

(* Mutant: the workers are told to leave after Close waited for them. *)
MutMayExit == closer = "done"

(* Shutdown is closed, or the closed channel is drained. *)
MayExit == ShutdownClosed \/ (QueueClosed /\ queue = <<>>)

(* run returns. *)
WorkerExit(w) ==
    /\ wpc[w] = "idle"
    /\ MayExit
    /\ WorkerTo(w, "exited")
    /\ UNCHANGED <<taskVars, ctx, resultChan, chanVars, taskStore, stats, closer,
                   handler, reply, wtask, wres, cancelling, cleanerVars>>

-----------------------------------------------------------------------------
(* The administrator *)

(* CancelTask looks the task up under storeMu ... *)
FindToCancel(t) ==
    /\ t \in taskStore
    /\ ~StoreLocked
    /\ cancelling' = cancelling \cup {t}
    /\ UNCHANGED <<taskVars, ctx, resultChan, chanVars, taskStore, stats, closer,
                   handler, reply, workerVars, cleanerVars>>

(* Mutant: a completed task can be cancelled. *)
MutMayCancel(t) == status[t] # "failed"

MayCancel(t) == status[t] \in {"pending", "processing"}

(* ... and cancels what it found, whatever happened since.  An unfinished   *)
(* task fails; its place in the channel or at a worker stays as it is.      *)
Cancel(t) ==
    /\ t \in cancelling
    /\ ~Locked(t)
    /\ cancelling' = cancelling \ {t}
    /\ IF MayCancel(t)
         THEN /\ status' = [status EXCEPT ![t] = "failed"]
              /\ error'  = [error EXCEPT ![t] = "cancelled"]
              /\ completeTime' = [completeTime EXCEPT ![t] = "recent"]
              /\ CancelContext(t)
              /\ resultChan' = [resultChan EXCEPT ![t] = IF @ = "none" THEN "err" ELSE @]
              /\ UNCHANGED result
         ELSE UNCHANGED <<taskVars, ctx, resultChan>>
    /\ UNCHANGED <<chanVars, taskStore, stats, closer, handler, reply, workerVars,
                   cleanerVars>>

-----------------------------------------------------------------------------
(* The collector *)

(* The ticker starts a pass, which holds storeMu and compares with the time *)
(* of its start.                                                            *)
StartPass ==
    /\ cleaner = "idle"
    /\ cleaner' = "scanning"
    /\ todo' = taskStore
    /\ UNCHANGED <<taskVars, ctx, resultChan, chanVars, taskStore, stats, closer,
                   handler, reply, workerVars, cancelling, candidate>>

(* Mutant: the collector trusts CompleteTime alone. *)
MutCollectable(t) == TRUE

(* Mutant: the collector forgets the tasks that failed. *)
MutCollectableCompleted(t) == status[t] = "completed"

Collectable(t) == status[t] \in Finished

(* The pass reads the status of the next task. *)
ReadStatus(t) ==
    /\ cleaner = "scanning"
    /\ candidate = NoTask
    /\ t \in todo
    /\ ~Locked(t)
    /\ todo' = todo \ {t}
    /\ candidate' = IF Collectable(t) THEN t ELSE NoTask
    /\ UNCHANGED <<taskVars, ctx, resultChan, chanVars, taskStore, stats, closer,
                   handler, reply, workerVars, cancelling, cleaner>>

(* CompleteTime.Before(deadline): also true of a time that was never set. *)
ReadTime ==
    /\ candidate # NoTask
    /\ taskStore' = IF completeTime[candidate] # "recent"
                      THEN taskStore \ {candidate} ELSE taskStore
    /\ candidate' = NoTask
    /\ UNCHANGED <<taskVars, ctx, resultChan, chanVars, stats, closer, handler,
                   reply, workerVars, cancelling, cleaner, todo>>

EndPass ==
    /\ cleaner = "scanning"
    /\ todo = {}
    /\ candidate = NoTask
    /\ cleaner' = "idle"
    /\ UNCHANGED <<taskVars, ctx, resultChan, chanVars, taskStore, stats, closer,
                   handler, reply, workerVars, cancelling, todo, candidate>>

CleanerExit ==
    /\ cleaner = "idle"
    /\ ShutdownClosed
    /\ cleaner' = "exited"
    /\ UNCHANGED <<taskVars, ctx, resultChan, chanVars, taskStore, stats, closer,
                   handler, reply, workerVars, cancelling, todo, candidate>>

(* An hour passes after t finished.  A pass compares with its start, so an  *)
(* hour that ends during a pass is an hour that ends after it.              *)
Age(t) ==
    /\ cleaner = "idle"
    /\ t \in taskStore
    /\ completeTime[t] = "recent"
    /\ completeTime' = [completeTime EXCEPT ![t] = "old"]
    /\ UNCHANGED <<status, error, result, ctx, resultChan, chanVars, taskStore,
                   stats, closer, handler, reply, workerVars, cancelling,
                   cleanerVars>>

-----------------------------------------------------------------------------
(* Close *)

CloseShutdown ==
    /\ AllowClose
    /\ closer = "open"
    /\ closer' = "stopping"
    /\ UNCHANGED <<taskVars, ctx, resultChan, chanVars, taskStore, stats, handler,
                   reply, workerVars, cancelling, cleanerVars>>

(* Mutant: Close throws the buffered tasks away. *)
MutCloseQueue ==
    /\ closer = "stopping"
    /\ closer' = "closed"
    /\ handler' = [t \in Task |-> IF handler[t] = "parked" THEN "panicked" ELSE handler[t]]
    /\ queue' = <<>> /\ sendq' = <<>>
    /\ UNCHANGED <<taskVars, ctx, resultChan, taskStore, stats, reply,
                   workerVars, cancelling, cleanerVars>>

(* Mutant: the tasks of the panicked senders can still be received. *)
MutCloseKeepsParked ==
    /\ closer = "stopping"
    /\ closer' = "closed"
    /\ handler' = [t \in Task |-> IF handler[t] = "parked" THEN "panicked" ELSE handler[t]]
    /\ UNCHANGED <<taskVars, ctx, resultChan, chanVars, taskStore, stats, reply,
                   workerVars, cancelling, cleanerVars>>

(* close(queue): every parked sender panics, the buffer keeps its tasks. *)
CloseQueue ==
    /\ closer = "stopping"
    /\ closer' = "closed"
    /\ handler' = [t \in Task |-> IF handler[t] = "parked" THEN "panicked" ELSE handler[t]]
    /\ sendq' = <<>>
    /\ UNCHANGED <<taskVars, ctx, resultChan, queue, taskStore, stats, reply,
                   workerVars, cancelling, cleanerVars>>

(* wg.Wait returns. *)
CloseReturn ==
    /\ closer = "closed"
    /\ \A w \in Worker : wpc[w] = "exited"
    /\ closer' = "done"
    /\ UNCHANGED <<taskVars, ctx, resultChan, chanVars, taskStore, stats, handler,
                   reply, workerVars, cancelling, cleanerVars>>

-----------------------------------------------------------------------------
(* One step of Submit or of Wait. *)
SubmitStep(t) == \/ CountSubmission(t) \/ Send(t) \/ Park(t)
                 \/ GiveUp(t) \/ SendOnClosed(t)

WaitStep(t) == WaitTakesResult(t) \/ WaitTakesDone(t) \/ WaitParks(t)

WorkerStep(w) == \/ Take(w) \/ BeginTask(w) \/ SetProcessing(w) \/ Recognize(w)
                 \/ Record(w) \/ Deliver(w) \/ Release(w) \/ Retire(w)
                 \/ WorkerExit(w)

CleanerStep == \/ StartPass \/ ReadTime \/ EndPass \/ CleanerExit
               \/ \E t \in Task : ReadStatus(t)

CloseStep == CloseQueue \/ CloseReturn

Next ==
    \/ \E t \in Task : \/ CreateStored(t) \/ CreateUnstored(t)
                       \/ SubmitStep(t) \/ WaitStep(t) \/ Expire(t)
                       \/ FindToCancel(t) \/ Cancel(t) \/ Age(t)
    \/ \E w \in Worker : WorkerStep(w)
    \/ CleanerStep
    \/ CloseShutdown
    \/ CloseStep

Spec == Init /\ [][Next]_vars

(* Goroutines that can run do run, native recognition returns, and timers   *)
(* fire.  Age needs strong fairness because it is disabled during a pass,   *)
(* while in the code time passes all the same.  Nobody has to submit, to    *)
(* cancel or to close.                                                      *)
Fairness ==
    /\ \A t \in Task : /\ WF_vars(SubmitStep(t))
                       /\ WF_vars(WaitStep(t))
                       /\ WF_vars(Expire(t))
                       /\ WF_vars(Cancel(t))
                       /\ SF_vars(Age(t))
    /\ \A w \in Worker : WF_vars(WorkerStep(w))
    /\ WF_vars(CleanerStep)
    /\ WF_vars(CloseStep)

FairSpec == Spec /\ Fairness

-----------------------------------------------------------------------------
(* Properties *)

(* Every variable keeps its type: in particular the result channel holds at *)
(* most one value and the channel's buffer at most QueueSize tasks.         *)
TypeOK ==
    /\ status       \in [Task -> Status]
    /\ error        \in [Task -> {"none", "cancelled", "recognition"}]
    /\ result       \in [Task -> Answer \cup {"none"}]
    /\ completeTime \in [Task -> {"never", "recent", "old"}]
    /\ ctx          \in [Task -> {"live", "cancelled", "expired"}]
    /\ resultChan   \in [Task -> Answer \cup {"none"}]
    /\ queue \in Seq(Task) /\ Len(queue) <= QueueSize
    /\ sendq \in Seq(Task)
    /\ taskStore \subseteq Async
    /\ stats \in [Counter -> Int]
    /\ closer \in {"open", "stopping", "closed", "done"}
    /\ handler \in [Task -> HandlerPC]
    /\ reply   \in [Task -> Answer \cup {"none", "timeout"}]
    /\ wpc   \in [Worker -> WorkerPC]
    /\ wtask \in [Worker -> Task \cup {NoTask}]
    /\ wres  \in [Worker -> Answer \cup {"none"}]
    /\ cancelling \subseteq Async
    /\ cleaner \in {"idle", "scanning", "exited"}
    /\ todo \subseteq Async
    /\ candidate \in Async \cup {NoTask}

(* The handlers whose Submit returned nil. *)
Submitted == {"accepted", "waiting", "answered"}

InQueue(t) == t \in ToSet(queue)
InSendq(t) == t \in ToSet(sendq)

(* No task is in two places: not twice in the channel, not parked and       *)
(* buffered, not with two workers, not with a worker and in the channel.    *)
(* Whatever submits, gives up, cancels or closes, a task is run by one      *)
(* worker and never comes back to the channel.                              *)
OnePlace ==
    /\ IsInjective(queue)
    /\ IsInjective(sendq)
    /\ \A t \in Task : ~(InQueue(t) /\ InSendq(t))
    /\ \A w \in Worker : ~InQueue(wtask[w]) /\ ~InSendq(wtask[w])
    /\ \A v, w \in Worker : wtask[v] = wtask[w] /\ wtask[v] # NoTask => v = w

(* Where a task is, what its handler knows and what its fields say agree:   *)
(* the channel and a worker without a result hold submitted tasks without  *)
(* a result, only a worker that holds a task is busy, a task not submitted  *)
(* never ran, and a task with a result is finished.                         *)
ChannelPlacement ==
    \A t \in Task : /\ InQueue(t) => handler[t] \in Submitted /\ result[t] = "none"
                    /\ InSendq(t) => handler[t] = "parked"

WorkerPlacement ==
    \A w \in Worker :
        /\ wtask[w] = NoTask <=> wpc[w] \in {"idle", "exited"}
        /\ wpc[w] \in Unfinished =>
              handler[wtask[w]] \in Submitted /\ result[wtask[w]] = "none"
        /\ wpc[w] \in {"recorded", "delivered", "completed"} =>
              result[wtask[w]] = wres[w]
        /\ wpc[w] \in {"decoded", "recorded", "delivered", "completed"} =>
              wres[w] \in Answer

FieldPlacement ==
    \A t \in Task :
        /\ handler[t] \notin Submitted =>
              result[t] = "none" /\ status[t] \in {"pending", "failed"}
        /\ result[t] # "none" => status[t] \in Finished

Placement == ChannelPlacement /\ WorkerPlacement /\ FieldPlacement

(* Once a worker recorded the result of a task, nobody changes its status, its *)
(* error or its result any more: no cancellation, no second run.            *)
SettledIsFinal ==
    [][\A t \in Task : result[t] # "none" =>
          /\ result'[t] = result[t]
          /\ status'[t] = status[t]
          /\ error'[t] = error[t]]_vars

(* A task whose Submit succeeded is not lost: it is in the buffer, at a     *)
(* worker that will record its result, or has it.  Cancelling it, a         *)
(* timed-out caller or Close take nothing out of the channel.               *)
AcceptedNotLost ==
    \A t \in Task : handler[t] \in Submitted =>
        \/ InQueue(t)
        \/ \E w \in Worker : wtask[w] = t /\ wpc[w] \in Unfinished
        \/ result[t] # "none"

(* A caller whose Submit failed can submit the audio again without having   *)
(* it recognised twice: the refused task is nowhere and never ran.          *)
RefusedNeverRuns ==
    \A t \in Task : handler[t] \in {"refused", "panicked"} =>
        /\ ~InQueue(t) /\ ~InSendq(t)
        /\ \A w \in Worker : wtask[w] # t
        /\ status[t] \in {"pending", "failed"}
        /\ result[t] = "none"

(* A Wait parked in its select returns the task's one result, or a timeout  *)
(* because the 30 minutes are over.  Complete makes both of its channels    *)
(* ready, one after the other and without Wait taking the mutex, but it     *)
(* never makes a parked Wait report a timeout.                              *)
WaiterIsTold ==
    [][\A t \in Task : handler[t] = "waiting" /\ handler'[t] # "waiting" =>
          \/ reply'[t] \in Answer /\ reply'[t] = result'[t]
          \/ reply'[t] = "timeout" /\ ctx'[t] = "expired"]_vars

(* What a blocking caller gets as a result, from the channel or directly,   *)
(* is the result of the task's one run.                                     *)
ReplyIsTrue ==
    \A t \in Task :
        /\ t \notin Async /\ resultChan[t] # "none" => resultChan[t] = result[t]
        /\ reply[t] \in Answer => reply[t] = result[t]

(* The counters of taskQueueStats agree with what the goroutines are doing: *)
(* every submission is counted once, and the only ones the queued counter   *)
(* never gives back are those that panicked on the closed channel.          *)
StatsLedger ==
    LET Handlers(S) == Cardinality({t \in Task : handler[t] \in S})
        Workers(S)  == Cardinality({w \in Worker : wpc[w] \in S})
        Retired     == {t \in Task : result[t] # "none"} \ {wtask[w] : w \in Worker}
    IN  /\ stats["total"] = Handlers(HandlerPC \ {"absent", "built"})
        /\ stats["queued"] = Handlers({"counted", "parked", "panicked"})
                               + Len(queue) + Workers({"taken"})
        /\ stats["processing"] = Workers({"begun", "running", "decoded", "recorded",
                                             "delivered", "completed"})
        /\ stats["completed"] = Cardinality({t \in Retired : result[t] = "ok"})
        /\ stats["failed"] = Cardinality({t \in Retired : result[t] = "err"})

(* The collector only removes a task that has its result, or that an        *)
(* administrator cancelled: a caller that polls and whose task nobody       *)
(* cancelled does not lose it before it is done.                            *)
CollectedIsSettled ==
    [][\A t \in taskStore \ taskStore' :
          result[t] # "none" \/ error[t] = "cancelled"]_vars

(* The queue keeps the promise of TaskService: one line in the order of     *)
(* arrival, safe places that are only left to be served, a bounded number   *)
(* of tasks served at a time, one outcome each.                             *)
Service == INSTANCE TaskService
             WITH Server <- Worker, Capacity <- QueueSize,
                  line <- queue \o sendq,
                  serving <- {wtask[w] : w \in {v \in Worker : wpc[v] \in Unfinished}},
                  turnedAway <- {t \in Task : handler[t] \in {"refused", "panicked"}},
                  outcome <- result

ImplementsService == Service!Spec

(* Liveness, under FairSpec *)

(* A task whose Submit succeeded is run to its result, unless Close lets    *)
(* the workers leave first.                                                 *)
AcceptedIsServed ==
    \A t \in Task : handler[t] \in Submitted ~> result[t] # "none" \/ ShutdownClosed

(* Every request is answered, also when the queue closes around it: the     *)
(* submission fails, the asynchronous caller gets its ID, the blocking one  *)
(* a result or its timeout.                                                 *)
RequestIsAnswered ==
    \A t \in Task : handler[t] = "built" ~>
        handler[t] \in {"refused", "panicked", IF t \in Async THEN "accepted" ELSE "answered"}

(* Close returns although workers are busy and the buffer is full. *)
CloseReturns == closer = "stopping" ~> closer = "done"

(* A finished task that stays finished leaves the store, unless Close stops *)
(* the collector.                                                           *)
SettledIsCollected ==
    \A t \in Task : t \in taskStore /\ result[t] # "none"
                       ~> t \notin taskStore \/ ShutdownClosed

(* What the code's own words promise and the code does not do *)

(* "Cancel" (task_queue.go): a cancelled task stays cancelled. *)
CancelledStaysFailed ==
    \A t \in Task : error[t] = "cancelled" => status[t] = "failed"
=============================================================================
