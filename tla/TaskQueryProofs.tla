--------------------------- MODULE TaskQueryProofs ---------------------------
(***************************************************************************)
(* Theorems about TaskQuery: what a polling client and an administrator    *)
(* are told is true and whole, although the task goes on between the looks *)
(* their responses are made of.  ReadersInv is the inductive invariant; it *)
(* rests on that of the queue.                                             *)
(***************************************************************************)
EXTENDS TaskQuery, TaskQueueProofs

(* The responses of the query handler and the rows of a listing. *)
Response == [status   : Status \cup {"none", "not found"},
             progress : 0 .. NumChunks,
             text     : Answer \cup {"none"},
             error    : {"none", "cancelled", "recognition"}]

Row == [task     : Async \cup {NoTask},
        status   : Status \cup {"none"},
        finished : BOOLEAN,
        progress : 0 .. NumChunks]

Poll == [pc : PollPC, resp : Response]

ChunkTypes == chunks \in [Task -> [total : {0, NumChunks}, done : 0 .. NumChunks]]

ListTypes == list \in [pc : ListPC, left : SUBSET Async, row : Row]

(* What the readers rely on in the task's own fields. *)
CompletedFields ==
    \A t \in Task : status[t] = "completed" => result[t] = "ok" /\ completeTime[t] # "never"

ChunksInOrder == \A t \in Task : chunks[t].done <= chunks[t].total

(* The progress a reader would be told that started now. *)
Progress(t) == IF status[t] = "completed" THEN NumChunks ELSE chunks[t].done

(* The query p under way for t: what its response says already is still     *)
(* true, and if it says "completed" it is on the way to a text.             *)
PollIsTrue(t, p) ==
    /\ p.pc \in {"idle", "found"} => p.resp = Blank
    /\ p.resp.text = "none" /\ p.resp.error = "none" /\ p.resp.status # "not found"
    /\ p.resp.progress <= Progress(t)
    /\ p.resp.status = "completed" =>
          /\ status[t] = "completed" /\ p.pc \in {"progress", "known"}
          /\ p.pc = "known" => p.resp.progress = NumChunks

(* The last response s the client got: it is whole, and neither the task    *)
(* nor the query p under way has fallen behind it.                          *)
SeenIsTrue(t, p, s) ==
    /\ s.status = "completed" =>
          /\ status[t] = "completed"
          /\ s.progress = NumChunks /\ s.text = "ok" /\ s.error = "none"
          /\ p.pc \notin {"idle", "found"} => p.resp.status = "completed"
    /\ s.text # "none" => result[t] = "ok" /\ s.text = "ok"
    /\ s.status = "not found" =>
          s = NotFound /\ t \notin taskStore /\ handler[t] # "absent" /\ p.pc = "idle"
    /\ s.progress <= Progress(t)
    /\ p.pc \in {"total", "done"} => s.progress <= chunks[t].done
    /\ p.pc \in {"known", "incomplete", "failed"} => s.progress <= p.resp.progress

PollsAreTrue ==
    /\ poll \in [Async -> Poll] /\ seen \in [Async -> Response]
    /\ \A t \in Async : PollIsTrue(t, poll[t]) /\ SeenIsTrue(t, poll[t], seen[t])

(* The row being put together. *)
RowIsTrue ==
    list.row.status = "completed" =>
        /\ list.row.task \in Async /\ status[list.row.task] = "completed"
        /\ list.pc \in {"time", "progress", "known"}
        /\ list.pc \in {"progress", "known"} => list.row.finished
        /\ list.pc = "known" => list.row.progress = NumChunks

(* The inductive invariant of the readers, beside that of the queue. *)
ReadersInv ==
    /\ ChunkTypes /\ ChunksInOrder
    /\ CompletedFields
    /\ PollsAreTrue
    /\ ListTypes /\ RowIsTrue

-----------------------------------------------------------------------------
(* The queue goes on under the readers: what it never takes back.           *)

(* A completion time changes in three places only. *)
LEMMA TimeChanges ==
    ASSUME [Next]_vars
    PROVE  \/ UNCHANGED completeTime
           \/ \E w \in Worker : Record(w)
           \/ \E t \in Task : Cancel(t) \/ Age(t)
  BY DEF Next, SubmitStep, WaitStep, WorkerStep, CleanerStep, CloseStep, vars, taskVars,
     CreateStored, CreateUnstored, CountSubmission, Send, Park, GiveUp, SendOnClosed,
     WaitTakesResult, WaitTakesDone, WaitParks, Expire, FindToCancel, ReadStatus,
     Take, BeginTask, SetProcessing, Recognize, Deliver, Release, Retire, WorkerExit,
     StartPass, ReadTime, EndPass, CleanerExit, CloseShutdown, CloseQueue, CloseReturn

(* Once it is set it stays set. *)
LEMMA TimeStays ==
    ASSUME IInv, [Next]_vars, NEW t \in Task, completeTime[t] # "never"
    PROVE  completeTime'[t] # "never"
<1>1. ASSUME NEW w \in Worker, Record(w) PROVE completeTime'[t] # "never"
  BY <1>1 DEF IInv, TypeOK, Record, RecordResult
<1>2. ASSUME NEW u \in Task, Cancel(u) PROVE completeTime'[t] # "never"
  BY <1>2 DEF IInv, TypeOK, Cancel, taskVars
<1>3. ASSUME NEW u \in Task, Age(u) PROVE completeTime'[t] # "never"
  BY <1>3 DEF IInv, TypeOK, Age
<1> QED
  BY <1>1, <1>2, <1>3, TimeChanges

(* A step completes a task only with a text and a time. *)
LEMMA CompletedStep ==
    ASSUME IInv, CompletedFields, [Next]_vars
    PROVE  CompletedFields'
<1> SUFFICES ASSUME NEW t \in Task, status'[t] = "completed"
             PROVE  result'[t] = "ok" /\ completeTime'[t] # "never"
  BY DEF CompletedFields
<1>1. CASE status[t] = "completed"
  BY <1>1, FinalStep, TimeStays DEF CompletedFields
<1>2. CASE status[t] # "completed"
  <2>1. ASSUME NEW w \in Worker, SetProcessing(w) PROVE FALSE
    BY <1>2, <2>1 DEF IInv, TypeOK, SetProcessing
  <2>2. ASSUME NEW u \in Task, Cancel(u) PROVE FALSE
    BY <1>2, <2>2 DEF IInv, TypeOK, Cancel, taskVars
  <2>3. ASSUME NEW w \in Worker, Record(w)
        PROVE  result'[t] = "ok" /\ completeTime'[t] # "never"
    <3>1. wres[w] \in Answer
      BY <2>3 DEF IInv, Placement, WorkerPlacement, Record
    <3>2. t = wtask[w] /\ wres[w] # "err"
      BY <1>2, <2>3 DEF IInv, TypeOK, Record, RecordResult
    <3> QED
      BY <2>3, <3>1, <3>2 DEF IInv, TypeOK, Record, RecordResult, Answer
  <2> QED
    BY <1>2, <2>1, <2>2, <2>3, FieldChanges
<1> QED
  BY <1>1, <1>2

(* A request once made never becomes one to be made again. *)
LEMMA StaysMade ==
    ASSUME IInv, [Next]_vars, NEW t \in Task, handler[t] # "absent"
    PROVE  handler'[t] # "absent"
<1> USE DEF HandlerTo, IInv, TypeOK
<1>1. ASSUME NEW u \in Task,
             \/ CreateStored(u) \/ CreateUnstored(u) \/ CountSubmission(u) \/ Send(u)
             \/ Park(u) \/ GiveUp(u) \/ SendOnClosed(u) \/ WaitTakesResult(u)
             \/ WaitTakesDone(u) \/ WaitParks(u)
      PROVE  handler'[t] # "absent"
  BY <1>1 DEF CreateStored, CreateUnstored, CountSubmission, Send, Park, GiveUp, SendOnClosed,
     WaitTakesResult, WaitTakesDone, WaitParks
<1>2. ASSUME NEW u \in Task, Expire(u) PROVE handler'[t] # "absent"
  BY <1>2 DEF Expire, WakeWait
<1>3. ASSUME NEW w \in Worker, Take(w) PROVE handler'[t] # "absent"
  BY <1>3 DEF Take
<1>4. ASSUME NEW w \in Worker, Deliver(w) \/ Release(w) PROVE handler'[t] # "absent"
  BY <1>4, OnlyWaitMoves
<1>5. CASE CloseQueue
  BY <1>5 DEF CloseQueue
<1>6. CASE UNCHANGED handler
  BY <1>6
<1> QED
  BY <1>1, <1>2, <1>3, <1>4, <1>5, <1>6
  DEF Next, SubmitStep, WaitStep, WorkerStep, CleanerStep, CloseStep, vars,
      FindToCancel, Cancel, Age, ReadStatus, BeginTask, SetProcessing, Recognize, Record,
      Retire, WorkerExit, StartPass, ReadTime, EndPass, CleanerExit, CloseShutdown, CloseReturn

(* A task that was collected is not stored a second time. *)
LEMMA StaysCollected ==
    ASSUME IInv, [Next]_vars, NEW t \in Task, handler[t] # "absent", t \notin taskStore
    PROVE  t \notin taskStore'
  BY StoreChanges DEF CreateStored, ReadStatus, ReadTime

-----------------------------------------------------------------------------
(* What the readers know stays true.                                        *)

(* The types of one query and of the last response. *)
LEMMA QueryTypes ==
    ASSUME ReadersInv, NEW t \in Async
    PROVE  /\ t \in Task
           /\ poll[t] \in Poll /\ seen[t] \in Response
           /\ chunks[t] \in [total : {0, NumChunks}, done : 0 .. NumChunks]
           /\ chunks[t].done <= chunks[t].total
           /\ PollIsTrue(t, poll[t]) /\ SeenIsTrue(t, poll[t], seen[t])
           /\ Progress(t) \in 0 .. NumChunks /\ chunks[t].done <= Progress(t)
<1>1. t \in Task
  BY TaskAssumption
<1>2. /\ chunks[t] \in [total : {0, NumChunks}, done : 0 .. NumChunks]
      /\ chunks[t].done <= chunks[t].total
  BY <1>1 DEF ReadersInv, ChunkTypes, ChunksInOrder
<1>3. Progress(t) \in 0 .. NumChunks /\ chunks[t].done <= Progress(t)
  BY <1>2, NumChunksAssumption DEF Progress
<1> QED
  BY <1>1, <1>2, <1>3 DEF ReadersInv, PollsAreTrue

(* What a step may do to a task the readers were told about. *)
MovesOn(t) ==
    /\ status[t] = "completed" => status'[t] = "completed"
    /\ result[t] # "none" => result'[t] = result[t]
    /\ handler[t] # "absent" /\ t \notin taskStore =>
          handler'[t] # "absent" /\ t \notin taskStore'
    /\ chunks[t].done <= chunks'[t].done

(* While the readers rest, a task that only goes forward keeps everything   *)
(* they were told true.                                                     *)
LEMMA TasksMoveOn ==
    ASSUME IInv, ReadersInv, UNCHANGED readerVars,
           (ChunkTypes /\ ChunksInOrder /\ CompletedFields)',
           \A t \in Task : MovesOn(t)
    PROVE  ReadersInv'
<1>1. poll' = poll /\ seen' = seen /\ list' = list /\ Async \subseteq Task
  BY TaskAssumption DEF readerVars
<1>2. ASSUME NEW t \in Async
      PROVE  PollIsTrue(t, poll[t])' /\ SeenIsTrue(t, poll[t], seen[t])'
  <2>1. /\ status[t] = "completed" => status'[t] = "completed"
        /\ result[t] = "ok" => result'[t] = "ok"
        /\ handler[t] # "absent" /\ t \notin taskStore =>
              handler'[t] # "absent" /\ t \notin taskStore'
        /\ chunks[t].done <= chunks'[t].done
    BY <1>1 DEF MovesOn
  <2>2. PICK p \in Poll, r \in Response : p = poll[t] /\ r = seen[t]
    BY QueryTypes
  <2>3. /\ Progress(t) \in Int /\ chunks[t].done \in Int
        /\ PollIsTrue(t, p) /\ SeenIsTrue(t, p, r)
    BY <2>2, QueryTypes, NumChunksAssumption
  <2>4. Progress(t)' \in Int /\ chunks'[t].done \in Int /\ Progress(t) <= Progress(t)'
    <3>1. t \in Task /\ chunks'[t] \in [total : {0, NumChunks}, done : 0 .. NumChunks]
      BY <1>1 DEF ChunkTypes
    <3>2. chunks'[t].done \in 0 .. NumChunks /\ chunks[t].done \in 0 .. NumChunks
      BY <3>1, QueryTypes
    <3> QED
      BY <2>1, <3>2, NumChunksAssumption DEF Progress
  <2>5. p.resp.progress \in Int /\ r.progress \in Int
    <3>1. p.resp.progress \in 0 .. NumChunks /\ r.progress \in 0 .. NumChunks
      BY DEF Poll, Response
    <3> QED
      BY <3>1, NumChunksAssumption
  <2>6. PollIsTrue(t, p)'
    <3>1. p.resp.progress <= Progress(t)
      BY <2>3, Zenon DEF PollIsTrue
    <3>2. p.resp.progress <= Progress(t)'
      BY <2>3, <2>4, <2>5, <3>1
    <3> QED
      BY <2>1, <2>3, <3>2, Zenon DEF PollIsTrue
  <2>7. SeenIsTrue(t, p, r)'
    <3>1. r.progress <= Progress(t)
      BY <2>3, Zenon DEF SeenIsTrue
    <3>2. r.progress <= Progress(t)'
      BY <2>3, <2>4, <2>5, <3>1
    <3>3. p.pc \in {"total", "done"} => r.progress <= chunks[t].done
      BY <2>3, Zenon DEF SeenIsTrue
    <3>4. p.pc \in {"total", "done"} => r.progress <= chunks'[t].done
      BY <2>1, <2>3, <2>4, <2>5, <3>3
    <3> QED
      BY <2>1, <2>3, <3>2, <3>4, Zenon DEF SeenIsTrue
  <2>8. p = poll'[t] /\ r = seen'[t]
    BY <1>1, <2>2
  <2> QED
    BY <2>6, <2>7, <2>8 DEF PollIsTrue, SeenIsTrue
<1>3. PollsAreTrue'
  BY <1>1, <1>2 DEF ReadersInv, PollsAreTrue
<1>4. (ListTypes /\ RowIsTrue)'
  <2>1. list.row.task \in Async /\ status[list.row.task] = "completed"
           => status'[list.row.task] = "completed"
    BY <1>1 DEF MovesOn
  <2> QED
    BY <1>1, <2>1 DEF ReadersInv, ListTypes, RowIsTrue
<1> QED
  BY <1>3, <1>4 DEF ReadersInv

(* A step of the queue. *)
LEMMA QueueStepKeeps ==
    ASSUME IInv, ReadersInv, [Next]_vars, UNCHANGED <<chunks, readerVars>>
    PROVE  ReadersInv'
<1>1. (ChunkTypes /\ ChunksInOrder /\ CompletedFields)'
  BY CompletedStep DEF ReadersInv, ChunkTypes, ChunksInOrder
<1>2. ASSUME NEW t \in Task
      PROVE  MovesOn(t)
  <2>1. status[t] = "completed" => status'[t] = "completed"
    BY FinalStep DEF ReadersInv, CompletedFields
  <2>2. chunks[t].done <= chunks'[t].done
    BY DEF ReadersInv, ChunkTypes
  <2> QED
    BY <2>1, <2>2, FinalStep, StaysMade, StaysCollected DEF MovesOn
<1> QED
  BY <1>1, <1>2, TasksMoveOn

(* The two stores of the worker's callback. *)
LEMMA CallbackKeeps ==
    ASSUME IInv, ReadersInv, NEW w \in Worker, StoreTotal(w) \/ StoreDone(w)
    PROVE  ReadersInv'
<1> DEFINE x == wtask[w]
<1>1. wpc[w] = "running" /\ UNCHANGED <<vars, readerVars>>
  BY DEF StoreTotal, StoreDone
<1>2. x \in Task
  <2>1. x \in Task \cup {NoTask} /\ x # NoTask
    BY <1>1 DEF IInv, TypeOK, Placement, WorkerPlacement
  <2> QED
    BY <2>1
<1>3. /\ \/ chunks[x].total = 0 /\ chunks' = [chunks EXCEPT ![x].total = NumChunks]
         \/ chunks[x].total > chunks[x].done
               /\ chunks' = [chunks EXCEPT ![x].done = chunks[x].done + 1]
  BY DEF StoreTotal, StoreDone
<1> HIDE DEF x
<1>4. chunks \in [Task -> [total : {0, NumChunks}, done : 0 .. NumChunks]]
  BY DEF ReadersInv, ChunkTypes
<1>5. /\ chunks[x].total \in {0, NumChunks} /\ chunks[x].done \in 0 .. NumChunks
      /\ chunks[x].done <= chunks[x].total
  BY <1>2, <1>4 DEF ReadersInv, ChunksInOrder
<1>6. ChunkTypes' /\ ChunksInOrder'
      /\ \A t \in Task : chunks[t].done <= chunks'[t].done
  <2>1. CASE chunks[x].total = 0 /\ chunks' = [chunks EXCEPT ![x].total = NumChunks]
    BY <1>2, <1>4, <1>5, <2>1, NumChunksAssumption
    DEF ReadersInv, ChunksInOrder, ChunkTypes
  <2>2. CASE /\ chunks[x].total > chunks[x].done
             /\ chunks' = [chunks EXCEPT ![x].done = chunks[x].done + 1]
    <3>1. chunks[x].done + 1 \in 0 .. NumChunks /\ chunks[x].done + 1 <= chunks[x].total
      BY <1>5, <2>2, NumChunksAssumption
    <3> QED
      BY <1>2, <1>4, <1>5, <2>2, <3>1, NumChunksAssumption
      DEF ReadersInv, ChunksInOrder, ChunkTypes
  <2> QED
    BY <1>3, <2>1, <2>2
<1>7. CompletedFields'
  BY <1>1 DEF ReadersInv, CompletedFields, vars
<1>8. UNCHANGED <<status, result, handler, taskStore, readerVars>>
  BY <1>1 DEF vars
<1>9. \A t \in Task : MovesOn(t)
  BY <1>6, <1>8 DEF MovesOn
<1> QED
  BY <1>6, <1>7, <1>8, <1>9, TasksMoveOn

(* A query for t that goes on to p, with s as the last response now. *)
LEMMA QueryKeeps ==
    ASSUME ReadersInv, UNCHANGED <<vars, chunks, list>>,
           NEW t \in Async, NEW p \in Poll, NEW s \in Response,
           PollIsTrue(t, p), SeenIsTrue(t, p, s),
           poll' = [poll EXCEPT ![t] = p], seen' = [seen EXCEPT ![t] = s]
    PROVE  ReadersInv'
<1>1. (ChunkTypes /\ ChunksInOrder /\ CompletedFields /\ ListTypes /\ RowIsTrue)'
  BY DEF vars, ReadersInv, ChunkTypes, ChunksInOrder, CompletedFields, ListTypes, RowIsTrue
<1>2. poll' \in [Async -> Poll] /\ seen' \in [Async -> Response]
  BY DEF ReadersInv, PollsAreTrue
<1>3. ASSUME NEW u \in Async
      PROVE  PollIsTrue(u, poll'[u]) /\ SeenIsTrue(u, poll'[u], seen'[u])
  <2>1. CASE u = t
    <3>1. poll'[u] = p /\ seen'[u] = s
      BY <2>1 DEF ReadersInv, PollsAreTrue
    <3> QED
      BY <2>1, <3>1
  <2>2. CASE u # t
    <3>1. poll'[u] = poll[u] /\ seen'[u] = seen[u]
      BY <2>2 DEF ReadersInv, PollsAreTrue
    <3> QED
      BY <3>1 DEF ReadersInv, PollsAreTrue
  <2> QED
    BY <2>1, <2>2
<1>4. ASSUME NEW u \in Async
      PROVE  PollIsTrue(u, poll[u])' /\ SeenIsTrue(u, poll[u], seen[u])'
  <2>1. PICK q, r : q = poll'[u] /\ r = seen'[u]
    OBVIOUS
  <2>2. PollIsTrue(u, q) /\ SeenIsTrue(u, q, r)
    BY <1>3, <2>1
  <2>3. UNCHANGED <<status, result, taskStore, handler, chunks>>
    BY DEF vars
  <2>4. PollIsTrue(u, q)' /\ SeenIsTrue(u, q, r)'
    BY <2>2, <2>3 DEF PollIsTrue, SeenIsTrue, Progress
  <2> QED
    BY <2>1, <2>4 DEF PollIsTrue, SeenIsTrue
<1> QED
  BY <1>1, <1>2, <1>4 DEF ReadersInv, PollsAreTrue

(* One step of a query: what it looked at is true, and the response that    *)
(* ends it is whole and not behind the one before.                          *)
LEMMA QueryStepKeeps ==
    ASSUME IInv, ReadersInv, NEW t \in Async, FindTask(t) \/ PollStep(t)
    PROVE  ReadersInv'
<1> DEFINE p == poll[t]
           s == seen[t]
<1> USE DEF PollPC
<1>1. /\ t \in Task /\ p \in Poll /\ s \in Response
      /\ chunks[t] \in [total : {0, NumChunks}, done : 0 .. NumChunks]
      /\ chunks[t].done <= chunks[t].total
      /\ PollIsTrue(t, p) /\ SeenIsTrue(t, p, s)
      /\ Progress(t) \in 0 .. NumChunks /\ chunks[t].done <= Progress(t)
  BY QueryTypes
<1>2. /\ Blank \in Response /\ NotFound \in Response
      /\ 0 \in 0 .. NumChunks /\ NumChunks \in 0 .. NumChunks
      /\ \A k \in 0 .. NumChunks : k \in Nat
  <2>1. /\ 0 \in 0 .. NumChunks /\ NumChunks \in 0 .. NumChunks
        /\ \A k \in 0 .. NumChunks : k \in Nat
    BY NumChunksAssumption
  <2>2. Blank \in Response /\ NotFound \in Response
    BY <2>1 DEF Blank, NotFound, Response
  <2> QED
    BY <2>1, <2>2
<1>3. /\ status[t] \in Status
      /\ error[t] \in {"none", "cancelled", "recognition"}
      /\ result[t] \in Answer \cup {"none"}
      /\ status[t] = "completed" => result[t] = "ok"
  BY <1>1 DEF IInv, TypeOK, ReadersInv, CompletedFields
<1>4. p.resp \in Response /\ p.pc \in PollPC
      /\ p.resp.progress \in 0 .. NumChunks /\ s.progress \in 0 .. NumChunks
      /\ poll \in [Async -> Poll] /\ seen \in [Async -> Response]
  <2>1. p.resp \in Response /\ p.pc \in PollPC
    BY <1>1 DEF Poll
  <2>2. p.resp.progress \in 0 .. NumChunks /\ s.progress \in 0 .. NumChunks
    BY <1>1, <2>1 DEF Response
  <2> QED
    BY <2>1, <2>2 DEF ReadersInv, PollsAreTrue
<1>5. ASSUME NEW pc \in PollPC, NEW resp \in Response, PollTo(t, pc, resp),
             PollIsTrue(t, [pc |-> pc, resp |-> resp]),
             SeenIsTrue(t, [pc |-> pc, resp |-> resp], s)
      PROVE  ReadersInv'
  <2> DEFINE q == [pc |-> pc, resp |-> resp]
  <2>1. q \in Poll
    BY <1>5 DEF Poll
  <2>2. UNCHANGED <<vars, chunks, list>> /\ poll' = [poll EXCEPT ![t] = q]
    BY <1>5 DEF PollTo
  <2>3. seen' = [seen EXCEPT ![t] = s]
    BY <1>4, <1>5 DEF PollTo
  <2>4. PollIsTrue(t, q) /\ SeenIsTrue(t, q, s)
    BY <1>5
  <2> HIDE DEF q
  <2> QED
    BY <1>1, <2>1, <2>2, <2>3, <2>4, QueryKeeps
<1>6. ASSUME NEW resp \in Response, Respond(t, resp),
             SeenIsTrue(t, [pc |-> "idle", resp |-> Blank], resp)
      PROVE  ReadersInv'
  <2> DEFINE q == [pc |-> "idle", resp |-> Blank]
  <2>1. q \in Poll
    BY <1>2 DEF Poll
  <2>2. UNCHANGED <<vars, chunks, list>> /\ poll' = [poll EXCEPT ![t] = q]
        /\ seen' = [seen EXCEPT ![t] = resp]
    BY <1>6 DEF Respond
  <2>3. PollIsTrue(t, q)
    <3>1. q.pc = "idle" /\ q.resp = Blank
      OBVIOUS
    <3>2. /\ Blank.text = "none" /\ Blank.error = "none"
          /\ Blank.status = "none" /\ Blank.progress = 0
      BY DEF Blank
    <3>3. 0 <= Progress(t)
      BY <1>1, <1>2
    <3> QED
      BY <3>1, <3>2, <3>3 DEF PollIsTrue
  <2>4. SeenIsTrue(t, q, resp)
    BY <1>6
  <2> HIDE DEF q
  <2> QED
    BY <2>1, <2>2, <2>3, <2>4, QueryKeeps
<1>7. ASSUME FindTask(t) PROVE ReadersInv'
  <2>1. p.pc = "idle" /\ p.resp = Blank /\ handler[t] = "accepted"
    BY <1>1, <1>7 DEF FindTask, NobodyPolls, PollIsTrue
  <2>2. CASE t \in taskStore
    <3>1. PollTo(t, "found", Blank)
      BY <1>7, <2>2 DEF FindTask
    <3>2. PollIsTrue(t, [pc |-> "found", resp |-> Blank])
      BY <1>1, <2>1 DEF PollIsTrue
    <3>3. SeenIsTrue(t, [pc |-> "found", resp |-> Blank], s)
      BY <1>1, <2>1, <2>2 DEF SeenIsTrue
    <3> QED
      BY <1>2, <1>5, <3>1, <3>2, <3>3
  <2>3. CASE t \notin taskStore
    <3>1. Respond(t, NotFound)
      BY <1>7, <2>3 DEF FindTask
    <3>2. /\ NotFound.status = "not found" /\ NotFound.progress = 0
          /\ NotFound.text = "none"
      BY DEF NotFound, Blank
    <3>3. 0 <= Progress(t)
      BY <1>1, <1>2
    <3>4. SeenIsTrue(t, [pc |-> "idle", resp |-> Blank], NotFound)
      BY <2>1, <2>3, <3>2, <3>3 DEF SeenIsTrue
    <3> QED
      BY <1>2, <1>6, <3>1, <3>4
  <2> QED
    BY <2>2, <2>3
<1>8. ASSUME ReportStatus(t) PROVE ReadersInv'
  <2> DEFINE resp == [Blank EXCEPT !.status = status[t]]
  <2>1. p.pc = "found" /\ PollTo(t, "progress", resp)
    BY <1>8 DEF ReportStatus
  <2>2. resp = [status |-> status[t], progress |-> 0, text |-> "none", error |-> "none"]
    BY DEF Blank
  <2>3. resp \in Response
    BY <1>2, <1>3, <2>2 DEF Response
  <2>4. /\ resp.status = status[t] /\ resp.progress = 0
        /\ resp.text = "none" /\ resp.error = "none"
    BY <2>2
  <2> HIDE DEF resp
  <2>5. 0 <= Progress(t) /\ status[t] # "not found"
    <3>1. 0 <= Progress(t)
      BY <1>1, <1>2
    <3>2. status[t] # "not found"
      BY <1>3 DEF Status
    <3> QED
      BY <3>1, <3>2
  <2>6. PollIsTrue(t, [pc |-> "progress", resp |-> resp])
    BY <2>4, <2>5 DEF PollIsTrue
  <2>7. SeenIsTrue(t, [pc |-> "progress", resp |-> resp], s)
    BY <1>1, <2>1, <2>4 DEF SeenIsTrue
  <2> QED
    BY <1>5, <2>1, <2>3, <2>6, <2>7
<1>9. ASSUME ReportProgress(t) PROVE ReadersInv'
  <2>1. PICK next \in PollPC, value \in 0 .. NumChunks :
            /\ GetProgress(t, p.pc, next, value)
            /\ PollTo(t, next, [p.resp EXCEPT !.progress = value])
    BY <1>9 DEF ReportProgress
  <2> DEFINE resp == [p.resp EXCEPT !.progress = value]
             q == [pc |-> next, resp |-> resp]
  <2>2. /\ resp \in Response /\ resp.progress = value
        /\ resp.status = p.resp.status /\ resp.text = p.resp.text
        /\ resp.error = p.resp.error
    BY <1>4 DEF Response
  <2>3. /\ p.pc \in {"progress", "total", "done"}
        /\ next \in {"total", "done", "known"}
        /\ value <= Progress(t)
        /\ p.resp.status = "completed" => next = "known" /\ value = NumChunks
        /\ s.status = "completed" => p.resp.status = "completed"
        /\ next = "known" => s.progress <= value
        /\ next \in {"total", "done"} => s.progress <= chunks[t].done
    <3>1. /\ p.resp.status = "completed" => status[t] = "completed" /\ p.pc \in {"progress", "known"}
          /\ p.pc \in {"progress", "total", "done"} /\ s.status = "completed" =>
                p.resp.status = "completed"
          /\ s.progress <= Progress(t)
          /\ p.pc \in {"total", "done"} => s.progress <= chunks[t].done
      BY <1>1, Zenon DEF PollIsTrue, SeenIsTrue
    <3>2. Progress(t) = IF status[t] = "completed" THEN NumChunks ELSE chunks[t].done
      BY DEF Progress
    <3>3. chunks[t].done \in 0 .. NumChunks /\ chunks[t].total \in {0, NumChunks}
      BY <1>1
    <3>4. Progress(t) \in Nat /\ chunks[t].done \in Nat /\ s.progress \in 0 .. NumChunks
      BY <1>1, <1>2, <1>4, <3>3
    <3>5. CASE p.pc = "progress" /\ status[t] = "completed" /\ next = "known" /\ value = NumChunks
      BY <1>2, <3>1, <3>2, <3>4, <3>5, NumChunksAssumption
    <3>6. CASE p.pc = "progress" /\ status[t] # "completed" /\ next = "total" /\ value = 0
      BY <1>2, <3>1, <3>2, <3>4, <3>6
    <3>7. CASE p.pc = "total" /\ chunks[t].total = 0 /\ next = "known" /\ value = 0
      BY <1>1, <1>2, <3>1, <3>2, <3>4, <3>7
    <3>8. CASE p.pc = "total" /\ chunks[t].total > 0 /\ next = "done" /\ value = 0
      BY <1>2, <3>1, <3>2, <3>4, <3>8
    <3>9. CASE p.pc = "done" /\ next = "known" /\ value = chunks[t].done
      BY <1>1, <1>2, <3>1, <3>2, <3>4, <3>9
    <3> QED
      BY <2>1, <3>5, <3>6, <3>7, <3>8, <3>9, Zenon DEF GetProgress
  <2>4. q.pc = next /\ q.resp = resp
    OBVIOUS
  <2>5. PollTo(t, next, resp)
    BY <2>1
  <2> HIDE DEF resp
  <2>6. PollIsTrue(t, q)
    <3>1. p.resp.text = "none" /\ p.resp.error = "none" /\ p.resp.status # "not found"
      BY <1>1, Zenon DEF PollIsTrue
    <3>2. p.resp.status = "completed" => status[t] = "completed"
      BY <1>1, Zenon DEF PollIsTrue
    <3>3. next \notin {"idle", "found"}
      BY <2>3
    <3> HIDE DEF q
    <3> QED
      BY <2>2, <2>3, <2>4, <3>1, <3>2, <3>3, Zenon DEF PollIsTrue
  <2>7. SeenIsTrue(t, q, s)
    <3>1. s.status # "not found"
      BY <1>1, <2>3 DEF SeenIsTrue
    <3>2. next \notin {"incomplete", "failed"}
      BY <2>3
    <3> HIDE DEF q
    <3> QED
      BY <1>1, <2>2, <2>3, <2>4, <3>1, <3>2, Zenon DEF SeenIsTrue
  <2> QED
    BY <1>5, <2>2, <2>5, <2>6, <2>7
<1>10. ASSUME p.pc \in {"known", "incomplete", "failed"},
              NEW resp \in Response,
              resp.progress = p.resp.progress, resp.status = p.resp.status,
              resp.text # "none" => resp.text = "ok" /\ result[t] = "ok",
              p.resp.status = "completed" => resp.text = "ok" /\ resp.error = "none",
              Respond(t, resp)
       PROVE  ReadersInv'
  <2>2. /\ p.resp.status # "not found" /\ p.resp.progress <= Progress(t)
        /\ p.resp.status = "completed" =>
              status[t] = "completed" /\ p.pc = "known" /\ p.resp.progress = NumChunks
    <3>1. /\ p.resp.status # "not found" /\ p.resp.progress <= Progress(t)
          /\ p.resp.status = "completed" =>
                /\ status[t] = "completed" /\ p.pc \in {"progress", "known"}
                /\ p.pc = "known" => p.resp.progress = NumChunks
      BY <1>1, Zenon DEF PollIsTrue
    <3> QED
      BY <1>10, <3>1
  <2>3. SeenIsTrue(t, [pc |-> "idle", resp |-> Blank], resp)
    <3> DEFINE q == [pc |-> "idle", resp |-> Blank]
    <3>1. q.pc = "idle"
      OBVIOUS
    <3> HIDE DEF q
    <3>2. SeenIsTrue(t, q, resp)
      BY <1>10, <2>2, <3>1 DEF SeenIsTrue
    <3> QED
      BY <3>2 DEF q
  <2> QED
    BY <1>6, <1>10, <2>3
<1>11. p.resp.text = "none" /\ p.resp.error = "none"
  BY <1>1, Zenon DEF PollIsTrue
<1>12. /\ \A x \in Answer : LET r == [p.resp EXCEPT !.text = x]
                             IN  /\ r \in Response /\ r.text = x
                                 /\ r.status = p.resp.status /\ r.progress = p.resp.progress
                                 /\ r.error = "none"
       /\ LET r == [p.resp EXCEPT !.error = error[t]]
          IN  /\ r \in Response /\ r.text = "none"
              /\ r.status = p.resp.status /\ r.progress = p.resp.progress
  BY <1>3, <1>4, <1>11 DEF Response
<1>13. p.resp.status = "completed" =>
          status[t] = "completed" /\ p.pc \notin {"incomplete", "failed"}
  BY <1>1 DEF PollIsTrue
<1>14. ASSUME p.pc \in {"known", "incomplete"}, NEW next \in {"incomplete", "failed"},
              p.resp.status # "completed", status[t] # "completed",
              PollTo(t, next, p.resp)
       PROVE  ReadersInv'
  <2> DEFINE q == [pc |-> next, resp |-> p.resp]
  <2>1. q.pc = next /\ q.resp = p.resp /\ next \notin {"idle", "found"}
    OBVIOUS
  <2>2. /\ s.progress <= Progress(t) /\ s.progress <= p.resp.progress
        /\ p.resp.progress <= Progress(t) /\ p.resp.status # "not found"
    BY <1>1, <1>14, Zenon DEF PollIsTrue, SeenIsTrue
  <2> HIDE DEF q
  <2>3. PollIsTrue(t, q)
    BY <1>11, <1>14, <2>1, <2>2, Zenon DEF PollIsTrue
  <2>4. SeenIsTrue(t, q, s)
    <3>1. /\ s.status # "completed" /\ s.status # "not found"
          /\ s.text # "none" => result[t] = "ok" /\ s.text = "ok"
      BY <1>1, <1>14 DEF SeenIsTrue
    <3>2. next \notin {"total", "done"}
      OBVIOUS
    <3> QED
      BY <2>1, <2>2, <3>1, <3>2, Zenon DEF SeenIsTrue
  <2> QED
    BY <1>4, <1>5, <1>14, <2>3, <2>4 DEF q
<1>15. ASSUME ReportText(t) PROVE ReadersInv'
  <2>1. CASE status[t] = "completed" /\ result[t] # "none"
    <3> DEFINE r == [p.resp EXCEPT !.text = result[t]]
    <3>1. p.pc = "known" /\ Respond(t, r) /\ result[t] = "ok"
      BY <1>3, <1>15, <2>1 DEF ReportText
    <3>2. /\ r \in Response /\ r.text = "ok" /\ r.error = "none"
          /\ r.status = p.resp.status /\ r.progress = p.resp.progress
      BY <1>12, <3>1 DEF Answer
    <3> HIDE DEF r
    <3> QED
      BY <1>10, <3>1, <3>2
  <2>2. CASE ~(status[t] = "completed" /\ result[t] # "none")
    <3>1. p.pc = "known" /\ PollTo(t, "incomplete", p.resp) /\ status[t] # "completed"
      BY <1>3, <1>15, <2>2 DEF ReportText
    <3> QED
      BY <1>13, <1>14, <3>1
  <2> QED
    BY <2>1, <2>2
<1>16. ASSUME CheckFailed(t) PROVE ReadersInv'
  <2>1. p.pc = "incomplete" /\ p.resp.status # "completed"
    BY <1>13, <1>16 DEF CheckFailed
  <2>2. CASE status[t] = "failed"
    BY <1>14, <1>16, <2>1, <2>2 DEF CheckFailed
  <2>3. CASE status[t] # "failed"
    <3>1. Respond(t, p.resp)
      BY <1>16, <2>3 DEF CheckFailed
    <3> QED
      BY <1>4, <1>10, <1>11, <2>1, <3>1
  <2> QED
    BY <2>2, <2>3
<1>17. ASSUME ReportError(t) PROVE ReadersInv'
  <2> DEFINE r == [p.resp EXCEPT !.error = error[t]]
  <2>1. p.pc = "failed" /\ p.resp.status # "completed" /\ Respond(t, r)
    BY <1>13, <1>17 DEF ReportError
  <2>2. /\ r \in Response /\ r.text = "none"
        /\ r.status = p.resp.status /\ r.progress = p.resp.progress
    BY <1>12
  <2> HIDE DEF r
  <2> QED
    BY <1>10, <2>1, <2>2
<1> QED
  BY <1>7, <1>8, <1>9, <1>15, <1>16, <1>17 DEF PollStep

(* One step of a listing: a row that says "completed" goes on to be whole. *)
LEMMA ListStepKeeps ==
    ASSUME IInv, ReadersInv, StartListing \/ ListStep
    PROVE  ReadersInv'
<1> USE DEF ListPC
<1>1. /\ list \in [pc : ListPC, left : SUBSET Async, row : Row]
      /\ list.row \in Row /\ list.left \subseteq Async /\ list.pc \in ListPC
  BY DEF ReadersInv, ListTypes
<1>2. BlankRow \in Row /\ BlankRow.status = "none"
  <2>1. 0 \in 0 .. NumChunks
    BY NumChunksAssumption
  <2> QED
    BY <2>1 DEF BlankRow, Row
<1>3. UNCHANGED <<vars, chunks, poll, seen>>
  BY DEF StartListing, ListStep, RowTime, RowProgress, AppendRow, EndListing, RowStatus, ListTo
<1>4. UNCHANGED status /\ (ChunkTypes /\ ChunksInOrder /\ CompletedFields)'
  BY <1>3 DEF vars, ReadersInv, ChunkTypes, ChunksInOrder, CompletedFields
<1>5. PollsAreTrue'
  <2>1. ASSUME NEW t \in Async
        PROVE  PollIsTrue(t, poll[t])' /\ SeenIsTrue(t, poll[t], seen[t])'
    <3>1. PollIsTrue(t, poll[t]) /\ SeenIsTrue(t, poll[t], seen[t])
      BY DEF ReadersInv, PollsAreTrue
    <3>2. UNCHANGED <<status, result, taskStore, handler, chunks, poll, seen>>
      BY <1>3 DEF vars
    <3> QED
      BY <3>1, <3>2 DEF PollIsTrue, SeenIsTrue, Progress
  <2> QED
    BY <1>3, <2>1 DEF ReadersInv, PollsAreTrue
<1>6. ASSUME NEW pc \in ListPC, NEW row \in Row, NEW left \in SUBSET Async,
             list' = [pc |-> pc, left |-> left, row |-> row],
             row.status = "completed" =>
                 /\ row.task \in Async /\ status[row.task] = "completed"
                 /\ pc \in {"time", "progress", "known"}
                 /\ pc \in {"progress", "known"} => row.finished
                 /\ pc = "known" => row.progress = NumChunks
      PROVE  ReadersInv'
  <2>1. ListTypes' /\ RowIsTrue'
    BY <1>4, <1>6 DEF ListTypes, RowIsTrue
  <2> QED
    BY <1>4, <1>5, <2>1 DEF ReadersInv
<1>7. ASSUME NEW pc \in ListPC, NEW row \in Row, ListTo(pc, row)
      PROVE  list' = [pc |-> pc, left |-> list.left, row |-> row]
  BY <1>1, <1>7 DEF ListTo
<1>8. CASE StartListing
  <2>1. list' = [pc |-> "next", left |-> taskStore, row |-> BlankRow]
    BY <1>8 DEF StartListing
  <2>2. taskStore \subseteq Async
    BY DEF IInv, TypeOK
  <2> QED
    BY <1>2, <1>6, <2>1, <2>2
<1>9. ASSUME NEW t \in Async, RowStatus(t) PROVE ReadersInv'
  <2> DEFINE row == [BlankRow EXCEPT !.task = t, !.status = status[t]]
  <2>1. list' = [pc |-> "time", left |-> list.left \ {t}, row |-> row]
    BY <1>9 DEF RowStatus
  <2>2. row \in Row /\ row.task = t /\ row.status = status[t]
    <3>1. status[t] \in Status
      BY TaskAssumption DEF IInv, TypeOK
    <3> QED
      BY <1>2, <3>1 DEF Row
  <2> HIDE DEF row
  <2>3. list.left \ {t} \in SUBSET Async
    BY <1>1
  <2> QED
    BY <1>6, <2>1, <2>2, <2>3
<1>10. CASE RowTime
  <2> DEFINE row == [list.row EXCEPT !.finished = completeTime[list.row.task] # "never"]
  <2>1. list.pc = "time" /\ ListTo("progress", row)
    BY <1>10 DEF RowTime
  <2>2. /\ row \in Row /\ row.task = list.row.task /\ row.status = list.row.status
        /\ row.finished = (completeTime[list.row.task] # "never")
    BY <1>1 DEF Row
  <2> HIDE DEF row
  <2>3. row.status = "completed" =>
            row.task \in Async /\ status[row.task] = "completed" /\ row.finished
    BY <2>2, TaskAssumption DEF ReadersInv, RowIsTrue, CompletedFields
  <2>4. list' = [pc |-> "progress", left |-> list.left, row |-> row]
    BY <1>7, <2>1, <2>2
  <2> QED
    BY <1>1, <1>6, <2>2, <2>3, <2>4
<1>11. CASE RowProgress
  <2>1. PICK next \in ListPC, value \in 0 .. NumChunks :
            /\ GetProgress(list.row.task, list.pc, next, value)
            /\ ListTo(next, [list.row EXCEPT !.progress = value])
    BY <1>11 DEF RowProgress
  <2> DEFINE row == [list.row EXCEPT !.progress = value]
  <2>2. /\ row \in Row /\ row.task = list.row.task /\ row.status = list.row.status
        /\ row.finished = list.row.finished /\ row.progress = value
    BY <1>1 DEF Row
  <2>3. ListTo(next, row)
    BY <2>1
  <2> HIDE DEF row
  <2>4. row.status = "completed" =>
            /\ row.task \in Async /\ status[row.task] = "completed"
            /\ row.finished /\ next = "known" /\ value = NumChunks
    BY <2>1, <2>2 DEF ReadersInv, RowIsTrue, GetProgress
  <2>5. list' = [pc |-> next, left |-> list.left, row |-> row]
    BY <1>7, <2>2, <2>3
  <2> QED
    BY <1>1, <1>6, <2>2, <2>4, <2>5
<1>12. CASE AppendRow \/ EndListing
  <2>1. PICK pc \in {"next", "idle"} : ListTo(pc, BlankRow)
    BY <1>12 DEF AppendRow, EndListing
  <2>2. list' = [pc |-> pc, left |-> list.left, row |-> BlankRow]
    BY <1>2, <1>7, <2>1
  <2> QED
    BY <1>1, <1>2, <1>6, <2>2
<1> QED
  BY <1>8, <1>9, <1>10, <1>11, <1>12 DEF ListStep

-----------------------------------------------------------------------------
(* Every step of the readers and of the queue keeps both invariants. *)
LEMMA ReadersStep ==
    ASSUME IInv, ReadersInv, [QueryNext]_allVars
    PROVE  ReadersInv' /\ [Next]_vars
<1>1. CASE QueueStep
  BY <1>1, QueueStepKeeps DEF QueueStep
<1>2. ASSUME NEW w \in Worker, StoreTotal(w) \/ StoreDone(w) PROVE ReadersInv' /\ [Next]_vars
  BY <1>2, CallbackKeeps DEF StoreTotal, StoreDone
<1>3. ASSUME NEW t \in Async, FindTask(t) \/ PollStep(t) PROVE ReadersInv' /\ [Next]_vars
  <2>1. UNCHANGED vars
    BY <1>3 DEF FindTask, PollStep, ReportStatus, ReportProgress, ReportText, CheckFailed,
       ReportError, PollTo, Respond
  <2> QED
    BY <1>3, <2>1, QueryStepKeeps
<1>4. CASE StartListing \/ ListStep
  <2>1. UNCHANGED vars
    BY <1>4 DEF StartListing, ListStep, RowTime, RowProgress, AppendRow, EndListing,
       RowStatus, ListTo
  <2> QED
    BY <1>4, <2>1, ListStepKeeps
<1>5. CASE UNCHANGED allVars
  <2>1. UNCHANGED vars /\ UNCHANGED <<chunks, readerVars>>
    BY <1>5 DEF allVars
  <2> QED
    BY <2>1, QueueStepKeeps
<1> QED
  BY <1>1, <1>2, <1>3, <1>4, <1>5 DEF QueryNext

(* In the beginning the readers know nothing. *)
LEMMA InitReaders == QueryInit => IInv /\ ReadersInv
<1> SUFFICES ASSUME QueryInit PROVE IInv /\ ReadersInv
  OBVIOUS
<1>1. IInv
  BY InitIInv DEF QueryInit
<1>2. /\ 0 \in 0 .. NumChunks /\ 0 \in Int
      /\ Blank = [status |-> "none", progress |-> 0, text |-> "none", error |-> "none"]
      /\ Async \subseteq Task
  BY NumChunksAssumption, TaskAssumption DEF Blank
<1>3. ChunkTypes /\ ChunksInOrder
  BY <1>2 DEF QueryInit, ChunkTypes, ChunksInOrder
<1>4. CompletedFields
  BY DEF QueryInit, Init, CompletedFields
<1>5. Blank \in Response
  BY <1>2 DEF Response
<1>6. poll \in [Async -> Poll] /\ seen \in [Async -> Response]
  BY <1>5 DEF QueryInit, Poll, PollPC
<1>7. ASSUME NEW t \in Async
      PROVE  PollIsTrue(t, poll[t]) /\ SeenIsTrue(t, poll[t], seen[t])
  <2>1. poll[t] = [pc |-> "idle", resp |-> Blank] /\ seen[t] = Blank
    BY DEF QueryInit
  <2>2. status[t] = "pending" /\ chunks[t].done = 0
    BY <1>2 DEF QueryInit, Init
  <2>3. Progress(t) = 0
    BY <2>2 DEF Progress
  <2>4. /\ Blank.status = "none" /\ Blank.text = "none" /\ Blank.error = "none"
        /\ Blank.progress <= Progress(t)
        /\ poll[t].pc = "idle" /\ poll[t].resp = Blank
    BY <1>2, <2>1, <2>3
  <2>5. PollIsTrue(t, poll[t])
    BY <2>4 DEF PollIsTrue
  <2>6. SeenIsTrue(t, poll[t], seen[t])
    BY <2>1, <2>4 DEF SeenIsTrue
  <2> QED
    BY <2>5, <2>6
<1>8. ListTypes /\ RowIsTrue
  BY <1>2 DEF QueryInit, ListTypes, RowIsTrue, ListPC, Row, BlankRow
<1> QED
  BY <1>1, <1>3, <1>4, <1>6, <1>7, <1>8 DEF ReadersInv, PollsAreTrue

(* The invariants hold in every reachable state. *)
THEOREM QueryInductive == QuerySpec => [](IInv /\ ReadersInv)
<1>1. IInv /\ ReadersInv /\ [QueryNext]_allVars => (IInv /\ ReadersInv)'
  BY ReadersStep, TypeStep, OnePlaceStep, PlacementStep DEF IInv
<1> QED
  BY InitReaders, <1>1, PTL DEF QuerySpec

(* The readers' variables keep their types, so that no client is ever shown *)
(* more than 100 percent.                                                   *)
THEOREM QueryTypesCorrect == QuerySpec => []QueryTypeOK
<1>1. ReadersInv => QueryTypeOK
  <2> SUFFICES ASSUME ReadersInv PROVE QueryTypeOK
    OBVIOUS
  <2>1. ASSUME NEW t \in Async
        PROVE  poll[t].pc \in PollPC /\ poll[t].resp \in Response /\ seen[t] \in Response
    BY QueryTypes DEF Poll
  <2>2. list.pc \in ListPC /\ list.left \subseteq Async /\ list.row \in Row
    BY DEF ReadersInv, ListTypes
  <2>3. ASSUME NEW t \in Async PROVE {poll[t].resp, seen[t]} \subseteq Response
    BY <2>1
  <2> QED
    BY <2>1, <2>2, <2>3, Zenon DEF ReadersInv, ChunkTypes, QueryTypeOK, Response, Row
<1> QED
  BY QueryInductive, <1>1, PTL

(* The invariant says that what is shown as completed is whole. *)
LEMMA WholeReaders == ReadersInv => CompletedIsWhole
<1> SUFFICES ASSUME ReadersInv PROVE CompletedIsWhole
  OBVIOUS
<1>1. ASSUME NEW t \in Async
      PROVE  /\ seen[t].status = "completed" =>
                   seen[t] = [status |-> "completed", progress |-> NumChunks,
                              text |-> "ok", error |-> "none"]
             /\ seen[t].text # "none" => result[t] = "ok"
  BY QueryTypes DEF SeenIsTrue, Response
<1> QED
  BY <1>1 DEF ReadersInv, RowIsTrue, CompletedIsWhole

(* A response or a row that says "completed" is whole, whatever happened    *)
(* between the looks it was made of.                                        *)
THEOREM CompletedAnswersAreWhole == QuerySpec => []CompletedIsWhole
  BY QueryInductive, WholeReaders, PTL

(* What the last response becomes when it changes: "not found", or the      *)
(* response of the query that ends.                                         *)
LEMMA SeenChanges ==
    ASSUME [QueryNext]_allVars, ReadersInv, NEW t \in Async, seen'[t] # seen[t]
    PROVE  \/ poll[t].pc = "idle" /\ seen'[t] = NotFound
           \/ /\ poll[t].pc \in {"known", "incomplete", "failed"}
              /\ seen'[t].progress = poll[t].resp.progress
              /\ seen'[t].status = poll[t].resp.status
<1>1. seen \in [Async -> Response]
  BY DEF ReadersInv, PollsAreTrue
<1>2. PICK u \in Async : FindTask(u) \/ ReportText(u) \/ CheckFailed(u) \/ ReportError(u)
  <2>1. seen' # seen
    OBVIOUS
  <2> QED
    BY <2>1 DEF QueryNext, allVars, readerVars, QueueStep, StoreTotal, StoreDone, PollStep,
       ReportStatus, ReportProgress, PollTo, StartListing, ListStep, RowTime, RowProgress,
       AppendRow, EndListing, RowStatus, ListTo
<1>3. ASSUME NEW resp, Respond(u, resp) PROVE u = t /\ seen'[t] = resp
  BY <1>1, <1>3 DEF Respond
<1>4. poll[t].resp \in Response
  BY QueryTypes DEF Poll
<1>5. CASE FindTask(u)
  <2>1. Respond(u, NotFound)
    BY <1>5 DEF FindTask, PollTo
  <2> QED
    BY <1>3, <1>5, <2>1 DEF FindTask, NobodyPolls
<1>6. CASE ReportText(u)
  <2>1. poll[u].pc = "known" /\ Respond(u, [poll[u].resp EXCEPT !.text = result[u]])
    BY <1>6 DEF ReportText, PollTo
  <2>2. u = t /\ seen'[t] = [poll[u].resp EXCEPT !.text = result[u]]
    BY <1>3, <2>1
  <2> QED
    BY <1>4, <2>1, <2>2 DEF Response
<1>7. CASE CheckFailed(u)
  <2>1. poll[u].pc = "incomplete" /\ Respond(u, poll[u].resp)
    BY <1>7 DEF CheckFailed, PollTo
  <2>2. u = t /\ seen'[t] = poll[u].resp
    BY <1>3, <2>1
  <2> QED
    BY <2>1, <2>2
<1>8. CASE ReportError(u)
  <2>1. poll[u].pc = "failed" /\ Respond(u, [poll[u].resp EXCEPT !.error = error[u]])
    BY <1>8 DEF ReportError
  <2>2. u = t /\ seen'[t] = [poll[u].resp EXCEPT !.error = error[u]]
    BY <1>3, <2>1
  <2> QED
    BY <1>4, <2>1, <2>2 DEF Response
<1> QED
  BY <1>2, <1>5, <1>6, <1>7, <1>8

(* From one response to the next a client sees the task go forward: the     *)
(* progress never falls, a completed task stays completed until it is       *)
(* collected, and a collected one never comes back.                         *)
THEOREM ClientsSeeProgress == QuerySpec => PollsMoveForward
<1> DEFINE Forward(t) == seen'[t] # seen[t] =>
                            /\ seen[t] # NotFound
                            /\ seen'[t] # NotFound =>
                                  /\ seen'[t].progress >= seen[t].progress
                                  /\ seen[t].status # "completed"
<1>1. ASSUME ReadersInv, CompletedIsWhole, CompletedIsWhole', ReadersInv',
             [QueryNext]_allVars, NEW t \in Async
      PROVE  Forward(t)
  <2> SUFFICES ASSUME seen'[t] # seen[t] PROVE Forward(t)
    OBVIOUS
  <2>1. /\ SeenIsTrue(t, poll[t], seen[t])
        /\ seen[t] \in Response /\ seen'[t] \in Response /\ poll[t].resp \in Response
    BY <1>1, QueryTypes DEF Poll, ReadersInv, PollsAreTrue
  <2>2. NotFound.status = "not found"
    BY DEF NotFound, Blank
  <2>3. CASE poll[t].pc = "idle" /\ seen'[t] = NotFound
    BY <2>3
  <2>4. CASE /\ poll[t].pc \in {"known", "incomplete", "failed"}
             /\ seen'[t].progress = poll[t].resp.progress
             /\ seen'[t].status = poll[t].resp.status
    <3>1. seen[t] # NotFound
      BY <2>1, <2>2, <2>4 DEF SeenIsTrue
    <3>2. seen[t].progress <= seen'[t].progress
      BY <2>1, <2>4 DEF SeenIsTrue
    <3>3. seen[t].progress \in 0 .. NumChunks /\ seen'[t].progress \in 0 .. NumChunks
      BY <2>1 DEF Response
    <3>4. ASSUME seen[t].status = "completed" PROVE FALSE
      <4>1. seen'[t].status = "completed"
        BY <2>1, <2>4, <3>4 DEF SeenIsTrue
      <4>2. CompletedIsWhole /\ CompletedIsWhole'
        BY <1>1
      <4> QED
        BY <3>4, <4>1, <4>2, Zenon DEF CompletedIsWhole
    <3> QED
      BY <3>1, <3>2, <3>3, <3>4, NumChunksAssumption
  <2> QED
    BY <1>1, <2>3, <2>4, SeenChanges
<1>2. (ReadersInv /\ ReadersInv' /\ CompletedIsWhole /\ CompletedIsWhole'
         /\ [QueryNext]_allVars)
        => [\A t \in Async : Forward(t)]_allVars
  BY <1>1
<1> QED
  BY QueryInductive, CompletedAnswersAreWhole, <1>2, PTL DEF QuerySpec, PollsMoveForward
=============================================================================
