-------------------------- MODULE TaskQueueProofs --------------------------
(***************************************************************************)
(* Theorems about TaskQueue for any requests, any workers and any capacity *)
(* of the channel.  IInv is the inductive invariant they all rest on.      *)
(***************************************************************************)
EXTENDS TaskQueue, SequenceFacts, TLAPS

(* The inductive invariant: the types, no task in two places, and the place *)
(* of a task agrees with what its handler and its fields say.               *)
IInv == TypeOK /\ OnePlace /\ Placement

(* Every step keeps the types. *)
LEMMA TypeStep ==
    ASSUME IInv, [Next]_vars
    PROVE  TypeOK'
<1> USE DEF HandlerTo, WorkerTo, taskVars, chanVars, workerVars, cleanerVars,
            Status, Answer, HandlerPC, WorkerPC, Counter
<1>1. ASSUME NEW t \in Task, CreateStored(t) PROVE TypeOK'
  BY <1>1 DEF IInv, TypeOK, CreateStored
<1>2. ASSUME NEW t \in Task, CreateUnstored(t) PROVE TypeOK'
  BY <1>2 DEF IInv, TypeOK, CreateUnstored
<1>3. ASSUME NEW t \in Task, CountSubmission(t) PROVE TypeOK'
  BY <1>3 DEF IInv, TypeOK, CountSubmission
<1>4. ASSUME NEW t \in Task, Send(t) PROVE TypeOK'
  <2>1. queue' \in Seq(Task) /\ Len(queue') <= QueueSize
    <3>1. queue \in Seq(Task) /\ queue' = Append(queue, t) /\ Len(queue) < QueueSize
      BY <1>4, LenProperties, QueueSizeAssumption DEF IInv, TypeOK, Send, BufferFull
    <3>2. queue' \in Seq(Task) /\ Len(queue') = Len(queue) + 1 /\ Len(queue) \in Nat
      BY <3>1, AppendProperties, LenProperties
    <3> QED
      BY <3>1, <3>2, QueueSizeAssumption
  <2> QED
    BY <1>4, <2>1 DEF IInv, TypeOK, Send
<1>5. ASSUME NEW t \in Task, Park(t) PROVE TypeOK'
  BY <1>5 DEF IInv, TypeOK, Park
<1>6. ASSUME NEW t \in Task, GiveUp(t) PROVE TypeOK'
  <2>1. sendq' \in Seq(Task)
    <3>1. PICK i \in 1 .. Len(sendq) : sendq' = RemoveAt(sendq, i)
      BY <1>6 DEF GiveUp, Unpark
    <3> QED
      BY <3>1, RemoveAtInjective DEF IInv, TypeOK, OnePlace
  <2> QED
    BY <1>6, <2>1 DEF IInv, TypeOK, GiveUp, TakeBackCount
<1>7. ASSUME NEW t \in Task, SendOnClosed(t) PROVE TypeOK'
  BY <1>7 DEF IInv, TypeOK, SendOnClosed
<1>8. ASSUME NEW t \in Task, WaitTakesResult(t) PROVE TypeOK'
  BY <1>8 DEF IInv, TypeOK, WaitTakesResult
<1>9. ASSUME NEW t \in Task, WaitTakesDone(t) PROVE TypeOK'
  BY <1>9 DEF IInv, TypeOK, WaitTakesDone
<1>10. ASSUME NEW t \in Task, WaitParks(t) PROVE TypeOK'
  BY <1>10 DEF IInv, TypeOK, WaitParks
<1>11. ASSUME NEW t \in Task, Expire(t) PROVE TypeOK'
  BY <1>11 DEF IInv, TypeOK, Expire, WakeWait
<1>12. ASSUME NEW t \in Task, FindToCancel(t) PROVE TypeOK'
  BY <1>12 DEF IInv, TypeOK, FindToCancel
<1>13. ASSUME NEW t \in Task, Cancel(t) PROVE TypeOK'
  <2>1. CASE ~MayCancel(t)
    BY <1>13, <2>1 DEF IInv, TypeOK, Cancel
  <2>2. CASE MayCancel(t)
    <3>1. /\ status' \in [Task -> Status]
          /\ error' \in [Task -> {"none", "cancelled", "recognition"}]
          /\ completeTime' \in [Task -> {"never", "recent", "old"}]
      <4>1. /\ status' = [status EXCEPT ![t] = "failed"]
            /\ error' = [error EXCEPT ![t] = "cancelled"]
            /\ completeTime' = [completeTime EXCEPT ![t] = "recent"]
        BY <1>13, <2>2 DEF Cancel
      <4> QED
        BY <4>1 DEF IInv, TypeOK
    <3>2. ctx' \in [Task -> {"live", "cancelled", "expired"}]
      BY <1>13, <2>2 DEF IInv, TypeOK, Cancel, CancelContext
    <3>3. resultChan' \in [Task -> Answer \cup {"none"}]
      BY <1>13, <2>2 DEF IInv, TypeOK, Cancel
    <3> QED
      BY <1>13, <2>2, <3>1, <3>2, <3>3 DEF IInv, TypeOK, Cancel
  <2> QED
    BY <2>1, <2>2
<1>14. ASSUME NEW t \in Task, Age(t) PROVE TypeOK'
  BY <1>14 DEF IInv, TypeOK, Age
<1>15. ASSUME NEW t \in Task, ReadStatus(t) PROVE TypeOK'
  BY <1>15 DEF IInv, TypeOK, ReadStatus
<1>16. ASSUME NEW w \in Worker, Take(w) PROVE TypeOK'
  <2>1. /\ queue \in Seq(Task) /\ queue # <<>> /\ Len(queue) <= QueueSize
        /\ sendq \in Seq(Task) /\ IsInjective(queue) /\ IsInjective(sendq)
    BY <1>16 DEF IInv, TypeOK, OnePlace, Take
  <2>2. /\ Tail(queue) \in Seq(Task) /\ Len(Tail(queue)) = Len(queue) - 1
        /\ Head(queue) \in Task /\ Len(queue) \in Nat
    BY <2>1, TailInjective, LenProperties
  <2>3. CASE sendq = <<>>
    <3>1. Len(Tail(queue)) <= QueueSize
      BY <2>1, <2>2, QueueSizeAssumption
    <3> QED
      BY <1>16, <2>2, <2>3, <3>1 DEF IInv, TypeOK, Take
  <2>4. CASE sendq # <<>>
    <3>1. Tail(sendq) \in Seq(Task) /\ Head(sendq) \in Task
      BY <2>1, <2>4, TailInjective
    <3>2. /\ Append(Tail(queue), Head(sendq)) \in Seq(Task)
          /\ Len(Append(Tail(queue), Head(sendq))) = Len(queue)
      BY <2>2, <3>1, AppendProperties
    <3>3. queue' \in Seq(Task) /\ Len(queue') <= QueueSize /\ sendq' \in Seq(Task)
      BY <1>16, <2>1, <2>4, <3>1, <3>2 DEF Take
    <3>4. /\ handler' \in [Task -> HandlerPC] /\ wpc' \in [Worker -> WorkerPC]
          /\ wtask' \in [Worker -> Task \cup {NoTask}]
      BY <1>16, <2>2, <2>4 DEF IInv, TypeOK, Take
    <3> QED
      BY <1>16, <2>4, <3>3, <3>4 DEF IInv, TypeOK, Take
  <2> QED
    BY <2>3, <2>4
<1>17. ASSUME NEW w \in Worker, BeginTask(w) PROVE TypeOK'
  BY <1>17 DEF IInv, TypeOK, BeginTask
<1>18. ASSUME NEW w \in Worker, SetProcessing(w) PROVE TypeOK'
  BY <1>18 DEF IInv, TypeOK, SetProcessing
<1>19. ASSUME NEW w \in Worker, Recognize(w) PROVE TypeOK'
  BY <1>19 DEF IInv, TypeOK, Recognize
<1>20. ASSUME NEW w \in Worker, Record(w) PROVE TypeOK'
  <2>1. wres[w] \in Answer
    BY <1>20 DEF IInv, Placement, WorkerPlacement, Record
  <2>2. /\ status' \in [Task -> Status] /\ result' \in [Task -> Answer \cup {"none"}]
        /\ error' \in [Task -> {"none", "cancelled", "recognition"}]
        /\ completeTime' \in [Task -> {"never", "recent", "old"}]
    BY <1>20, <2>1 DEF IInv, TypeOK, Record, RecordResult
  <2>3. wpc' \in [Worker -> WorkerPC]
    BY <1>20 DEF IInv, TypeOK, Record
  <2> QED
    BY <1>20, <2>2, <2>3 DEF IInv, TypeOK, Record
<1>31. ASSUME NEW w \in Worker, Deliver(w) PROVE TypeOK'
  <2>1. wres[w] \in Answer
    BY <1>31 DEF IInv, Placement, WorkerPlacement, Deliver
  <2>2. /\ handler' \in [Task -> HandlerPC]
        /\ reply' \in [Task -> Answer \cup {"none", "timeout"}]
        /\ resultChan' \in [Task -> Answer \cup {"none"}]
    <3>1. PICK x : x = wtask[w]
      OBVIOUS
    <3>2. CASE handler[x] = "waiting"
      <4>1. /\ handler' = [handler EXCEPT ![x] = "answered"]
            /\ reply' = [reply EXCEPT ![x] = wres[w]] /\ resultChan' = resultChan
        BY <1>31, <3>1, <3>2 DEF Deliver, DeliverResult
      <4> QED
        BY <2>1, <4>1 DEF IInv, TypeOK
    <3>3. CASE handler[x] # "waiting"
      <4>1. /\ UNCHANGED <<handler, reply>>
            /\ resultChan' = [resultChan EXCEPT ![x] = IF resultChan[x] = "none" THEN wres[w]
                                                                               ELSE resultChan[x]]
        BY <1>31, <3>1, <3>3 DEF Deliver, DeliverResult
      <4> QED
        BY <2>1, <4>1 DEF IInv, TypeOK
    <3> QED
      BY <3>2, <3>3
  <2>3. wpc' \in [Worker -> WorkerPC]
    BY <1>31 DEF IInv, TypeOK, Deliver
  <2> QED
    BY <1>31, <2>2, <2>3 DEF IInv, TypeOK, Deliver
<1>32. ASSUME NEW w \in Worker, Release(w) PROVE TypeOK'
  <2>1. ctx' \in [Task -> {"live", "cancelled", "expired"}]
    BY <1>32 DEF IInv, TypeOK, Release, CancelContext
  <2>2. /\ handler' \in [Task -> HandlerPC]
        /\ reply' \in [Task -> Answer \cup {"none", "timeout"}]
    <3>1. CASE handler[wtask[w]] = "waiting"
      BY <1>32, <3>1 DEF IInv, TypeOK, Release, WakeWait
    <3>2. CASE handler[wtask[w]] # "waiting"
      BY <1>32, <3>2 DEF IInv, TypeOK, Release, WakeWait
    <3> QED
      BY <3>1, <3>2
  <2>3. wpc' \in [Worker -> WorkerPC]
    BY <1>32 DEF IInv, TypeOK, Release
  <2> QED
    BY <1>32, <2>1, <2>2, <2>3 DEF IInv, TypeOK, Release
<1>21. ASSUME NEW w \in Worker, Retire(w) PROVE TypeOK'
  BY <1>21 DEF IInv, TypeOK, Retire
<1>22. ASSUME NEW w \in Worker, WorkerExit(w) PROVE TypeOK'
  BY <1>22 DEF IInv, TypeOK, WorkerExit
<1>23. ASSUME StartPass PROVE TypeOK'
  BY <1>23 DEF IInv, TypeOK, StartPass
<1>24. ASSUME ReadTime PROVE TypeOK'
  BY <1>24 DEF IInv, TypeOK, ReadTime
<1>25. ASSUME EndPass PROVE TypeOK'
  BY <1>25 DEF IInv, TypeOK, EndPass
<1>26. ASSUME CleanerExit PROVE TypeOK'
  BY <1>26 DEF IInv, TypeOK, CleanerExit
<1>27. ASSUME CloseShutdown PROVE TypeOK'
  BY <1>27 DEF IInv, TypeOK, CloseShutdown
<1>28. ASSUME CloseQueue PROVE TypeOK'
  BY <1>28 DEF IInv, TypeOK, CloseQueue
<1>29. ASSUME CloseReturn PROVE TypeOK'
  BY <1>29 DEF IInv, TypeOK, CloseReturn
<1>30. CASE UNCHANGED vars
  BY <1>30 DEF vars, IInv, TypeOK
<1> QED
  BY <1>1, <1>2, <1>3, <1>4, <1>5, <1>6, <1>7, <1>8, <1>9, <1>10,
     <1>11, <1>12, <1>13, <1>14, <1>15, <1>16, <1>17, <1>18, <1>19, <1>20,
     <1>21, <1>22, <1>23, <1>24, <1>25, <1>26, <1>27, <1>28, <1>29, <1>30,
     <1>31, <1>32
  DEF Next, SubmitStep, WaitStep, WorkerStep, CleanerStep, CloseStep

(* A task that was not submitted is neither in the buffer nor at a worker,  *)
(* and only a parked handler's task is among the parked senders.            *)
LEMMA Unsubmitted ==
    ASSUME IInv, NEW t \in Task, handler[t] \notin Submitted
    PROVE  /\ ~InQueue(t)
           /\ handler[t] # "parked" => ~InSendq(t)
           /\ \A w \in Worker : wtask[w] # t
<1>1. ~InQueue(t) /\ (handler[t] # "parked" => ~InSendq(t))
  BY DEF IInv, Placement, ChannelPlacement
<1>2. ASSUME NEW w \in Worker, wtask[w] = t PROVE FALSE
  <2>1. wpc[w] \in Unfinished \cup {"recorded", "delivered", "completed"}
    <3>1. wpc[w] \in WorkerPC /\ wtask[w] # NoTask
      BY <1>2, TaskAssumption DEF IInv, TypeOK
    <3>2. wpc[w] \notin {"idle", "exited"}
      BY <3>1 DEF IInv, Placement, WorkerPlacement
    <3> QED
      BY <3>1, <3>2 DEF WorkerPC, Unfinished
  <2>2. CASE wpc[w] \in Unfinished
    BY <1>2, <2>2 DEF IInv, Placement, WorkerPlacement
  <2>3. CASE wpc[w] \in {"recorded", "delivered", "completed"}
    <3>1. result[t] \in Answer
      BY <1>2, <2>3 DEF IInv, Placement, WorkerPlacement
    <3> QED
      BY <3>1 DEF IInv, Placement, FieldPlacement, Answer
  <2> QED
    BY <2>1, <2>2, <2>3
<1> QED
  BY <1>1, <1>2

(* Sending the result and cancelling the context move nobody but a parked   *)
(* Wait.                                                                    *)
LEMMA OnlyWaitMoves ==
    ASSUME IInv, NEW w \in Worker, Deliver(w) \/ Release(w)
    PROVE  /\ wtask[w] \in Task
           /\ \A t \in Task : \/ handler'[t] = handler[t]
                              \/ handler[t] = "waiting" /\ handler'[t] = "answered"
           /\ \A t \in Task : /\ handler'[t] \in Submitted <=> handler[t] \in Submitted
                              /\ handler[t] = "parked" => handler'[t] = "parked"
           /\ wpc[w] \in {"recorded", "delivered"}
           /\ wpc' = [wpc EXCEPT ![w] = IF wpc[w] = "recorded" THEN "delivered" ELSE "completed"]
           /\ UNCHANGED <<status, error, result, completeTime, queue, sendq, wtask, wres>>
<1> USE DEF HandlerTo, WorkerTo, taskVars, chanVars
<1>1. wpc[w] \in {"recorded", "delivered"}
  BY DEF Deliver, Release
<1>2. wtask[w] \in Task
  <2>1. wtask[w] # NoTask
    BY <1>1 DEF IInv, Placement, WorkerPlacement
  <2> QED
    BY <2>1 DEF IInv, TypeOK
<1>3. \A t \in Task : \/ handler'[t] = handler[t]
                      \/ handler[t] = "waiting" /\ handler'[t] = "answered"
  BY <1>2 DEF IInv, TypeOK, Deliver, DeliverResult, Release, WakeWait
<1>4. \A t \in Task : /\ handler'[t] \in Submitted <=> handler[t] \in Submitted
                      /\ handler[t] = "parked" => handler'[t] = "parked"
  BY <1>3 DEF Submitted
<1> QED
  BY <1>1, <1>2, <1>3, <1>4 DEF Deliver, Release

(* The elements of the channel are tasks, so nil is not among them. *)
LEMMA ChannelTasks ==
    ASSUME TypeOK
    PROVE  /\ ToSet(queue) \subseteq Task /\ ToSet(sendq) \subseteq Task
           /\ NoTask \notin ToSet(queue) /\ NoTask \notin ToSet(sendq)
  BY TaskAssumption, ElementOfSeq, LenProperties DEF TypeOK, ToSet

(* A receive: what it takes from the channel and what it leaves there. *)
LEMMA TakeFacts ==
    ASSUME IInv, NEW w \in Worker, Take(w)
    PROVE  /\ Head(queue) \in Task /\ InQueue(Head(queue))
           /\ wtask' = [wtask EXCEPT ![w] = Head(queue)]
           /\ IsInjective(queue') /\ IsInjective(sendq')
           /\ \/ /\ ToSet(queue') = ToSet(queue) \ {Head(queue)}
                 /\ ToSet(sendq') = ToSet(sendq)
                 /\ handler' = handler
              \/ /\ Head(sendq) \in Task /\ InSendq(Head(sendq))
                 /\ ToSet(queue') = (ToSet(queue) \ {Head(queue)}) \cup {Head(sendq)}
                 /\ ToSet(sendq') = ToSet(sendq) \ {Head(sendq)}
                 /\ handler' = [handler EXCEPT ![Head(sendq)] = "accepted"]
<1>1. /\ queue \in Seq(Task) /\ queue # <<>> /\ IsInjective(queue)
      /\ sendq \in Seq(Task) /\ IsInjective(sendq)
  BY DEF IInv, TypeOK, OnePlace, Take
<1>2. /\ Tail(queue) \in Seq(Task) /\ IsInjective(Tail(queue))
      /\ Head(queue) \in Task /\ Head(queue) \in ToSet(queue)
      /\ ToSet(Tail(queue)) = ToSet(queue) \ {Head(queue)}
  BY <1>1, TailInjective
<1>3. CASE sendq = <<>>
  BY <1>1, <1>2, <1>3 DEF Take, InQueue, WorkerTo
<1>4. CASE sendq # <<>>
  <2>1. /\ Tail(sendq) \in Seq(Task) /\ IsInjective(Tail(sendq))
        /\ Head(sendq) \in Task /\ Head(sendq) \in ToSet(sendq)
        /\ ToSet(Tail(sendq)) = ToSet(sendq) \ {Head(sendq)}
    BY <1>1, <1>4, TailInjective
  <2>2. Head(sendq) \notin ToSet(Tail(queue))
    BY <1>2, <2>1 DEF IInv, OnePlace, InQueue, InSendq
  <2>3. /\ IsInjective(Append(Tail(queue), Head(sendq)))
        /\ ToSet(Append(Tail(queue), Head(sendq)))
              = (ToSet(queue) \ {Head(queue)}) \cup {Head(sendq)}
    <3> DEFINE rest == Tail(queue)
               first == Head(sendq)
    <3>1. rest \in Seq(Task) /\ first \in Task /\ IsInjective(rest) /\ first \notin ToSet(rest)
      BY <1>2, <2>1, <2>2
    <3> HIDE DEF rest, first
    <3>2. /\ IsInjective(Append(rest, first))
          /\ ToSet(Append(rest, first)) = ToSet(rest) \cup {first}
      BY <3>1, AppendNewInjective
    <3> QED
      BY <1>2, <3>2 DEF rest, first
  <2> QED
    BY <1>2, <1>4, <2>1, <2>3 DEF Take, InQueue, InSendq, HandlerTo, WorkerTo
<1> QED
  BY <1>3, <1>4

(* Every step leaves each task in at most one place. *)
LEMMA OnePlaceStep ==
    ASSUME IInv, [Next]_vars
    PROVE  OnePlace'
<1> USE DEF chanVars, workerVars, InQueue, InSendq
<1>1. ASSUME NEW t \in Task, CreateStored(t) PROVE OnePlace'
  BY <1>1 DEF IInv, OnePlace, CreateStored
<1>2. ASSUME NEW t \in Task, CreateUnstored(t) PROVE OnePlace'
  BY <1>2 DEF IInv, OnePlace, CreateUnstored
<1>3. ASSUME NEW t \in Task, CountSubmission(t) PROVE OnePlace'
  BY <1>3 DEF IInv, OnePlace, CountSubmission
<1>4. ASSUME NEW t \in Task, Send(t) PROVE OnePlace'
  <2>1. handler[t] \notin Submitted /\ handler[t] # "parked"
    BY <1>4 DEF Send, Submitted
  <2>2. t \notin ToSet(queue) /\ t \notin ToSet(sendq) /\ \A w \in Worker : wtask[w] # t
    BY <2>1, Unsubmitted
  <2>3. IsInjective(queue') /\ ToSet(queue') = ToSet(queue) \cup {t}
    BY <1>4, <2>2, AppendNewInjective DEF IInv, TypeOK, OnePlace, Send
  <2> QED
    BY <1>4, <2>2, <2>3 DEF IInv, OnePlace, Send
<1>5. ASSUME NEW t \in Task, Park(t) PROVE OnePlace'
  <2>1. handler[t] \notin Submitted /\ handler[t] # "parked"
    BY <1>5 DEF Park, Submitted
  <2>2. t \notin ToSet(queue) /\ t \notin ToSet(sendq) /\ \A w \in Worker : wtask[w] # t
    BY <2>1, Unsubmitted
  <2>3. IsInjective(sendq') /\ ToSet(sendq') = ToSet(sendq) \cup {t}
    BY <1>5, <2>2, AppendNewInjective DEF IInv, TypeOK, OnePlace, Park
  <2> QED
    BY <1>5, <2>2, <2>3 DEF IInv, OnePlace, Park
<1>6. ASSUME NEW t \in Task, GiveUp(t) PROVE OnePlace'
  <2>1. PICK i \in 1 .. Len(sendq) : sendq[i] = t /\ sendq' = RemoveAt(sendq, i)
    BY <1>6 DEF GiveUp, Unpark
  <2>2. IsInjective(sendq') /\ ToSet(sendq') = ToSet(sendq) \ {t}
    BY <2>1, RemoveAtInjective DEF IInv, TypeOK, OnePlace
  <2> QED
    BY <1>6, <2>2 DEF IInv, OnePlace, GiveUp
<1>7. ASSUME NEW t \in Task, SendOnClosed(t) PROVE OnePlace'
  BY <1>7 DEF IInv, OnePlace, SendOnClosed
<1>8. ASSUME NEW t \in Task, WaitTakesResult(t) PROVE OnePlace'
  BY <1>8 DEF IInv, OnePlace, WaitTakesResult
<1>9. ASSUME NEW t \in Task, WaitTakesDone(t) PROVE OnePlace'
  BY <1>9 DEF IInv, OnePlace, WaitTakesDone
<1>10. ASSUME NEW t \in Task, WaitParks(t) PROVE OnePlace'
  BY <1>10 DEF IInv, OnePlace, WaitParks
<1>11. ASSUME NEW t \in Task, Expire(t) PROVE OnePlace'
  BY <1>11 DEF IInv, OnePlace, Expire
<1>12. ASSUME NEW t \in Task, FindToCancel(t) PROVE OnePlace'
  BY <1>12 DEF IInv, OnePlace, FindToCancel
<1>13. ASSUME NEW t \in Task, Cancel(t) PROVE OnePlace'
  BY <1>13 DEF IInv, OnePlace, Cancel
<1>14. ASSUME NEW t \in Task, Age(t) PROVE OnePlace'
  BY <1>14 DEF IInv, OnePlace, Age
<1>15. ASSUME NEW t \in Task, ReadStatus(t) PROVE OnePlace'
  BY <1>15 DEF IInv, OnePlace, ReadStatus
<1>16. ASSUME NEW w \in Worker, Take(w) PROVE OnePlace'
  <2>1. /\ IsInjective(queue') /\ IsInjective(sendq')
        /\ \A t \in Task : ~(t \in ToSet(queue') /\ t \in ToSet(sendq'))
    BY <1>16, TakeFacts DEF IInv, OnePlace
  <2>2. \A v \in Worker : wtask[v] # Head(queue)
    BY <1>16, TakeFacts DEF IInv, OnePlace
  <2>3. ASSUME NEW v \in Worker
        PROVE  wtask'[v] \notin ToSet(queue') /\ wtask'[v] \notin ToSet(sendq')
    <3>1. CASE v = w
      <4>1. wtask'[v] = Head(queue) /\ Head(queue) \in Task
        BY <1>16, <3>1, TakeFacts DEF IInv, TypeOK
      <4> QED
        BY <1>16, <4>1, TakeFacts DEF IInv, OnePlace
    <3>2. CASE v # w
      <4>1. wtask'[v] = wtask[v]
        BY <1>16, <3>2, TakeFacts DEF IInv, TypeOK
      <4> QED
        BY <1>16, <4>1, TakeFacts DEF IInv, OnePlace
    <3> QED
      BY <3>1, <3>2
  <2>4. \A u, v \in Worker : wtask'[u] = wtask'[v] /\ wtask'[u] # NoTask => u = v
    BY <1>16, <2>2, TakeFacts DEF IInv, TypeOK, OnePlace
  <2> QED
    BY <2>1, <2>3, <2>4 DEF OnePlace
<1>17. ASSUME NEW w \in Worker, BeginTask(w) PROVE OnePlace'
  BY <1>17 DEF IInv, OnePlace, BeginTask
<1>18. ASSUME NEW w \in Worker, SetProcessing(w) PROVE OnePlace'
  BY <1>18 DEF IInv, OnePlace, SetProcessing
<1>19. ASSUME NEW w \in Worker, Recognize(w) PROVE OnePlace'
  BY <1>19 DEF IInv, OnePlace, Recognize
<1>20. ASSUME NEW w \in Worker, Record(w) PROVE OnePlace'
  BY <1>20 DEF IInv, OnePlace, Record
<1>31. ASSUME NEW w \in Worker, Deliver(w) PROVE OnePlace'
  BY <1>31 DEF IInv, OnePlace, Deliver
<1>32. ASSUME NEW w \in Worker, Release(w) PROVE OnePlace'
  BY <1>32 DEF IInv, OnePlace, Release
<1>21. ASSUME NEW w \in Worker, Retire(w) PROVE OnePlace'
  BY <1>21, ChannelTasks DEF IInv, TypeOK, OnePlace, Retire
<1>22. ASSUME NEW w \in Worker, WorkerExit(w) PROVE OnePlace'
  BY <1>22 DEF IInv, OnePlace, WorkerExit
<1>23. ASSUME StartPass PROVE OnePlace'
  BY <1>23 DEF IInv, OnePlace, StartPass
<1>24. ASSUME ReadTime PROVE OnePlace'
  BY <1>24 DEF IInv, OnePlace, ReadTime
<1>25. ASSUME EndPass PROVE OnePlace'
  BY <1>25 DEF IInv, OnePlace, EndPass
<1>26. ASSUME CleanerExit PROVE OnePlace'
  BY <1>26 DEF IInv, OnePlace, CleanerExit
<1>27. ASSUME CloseShutdown PROVE OnePlace'
  BY <1>27 DEF IInv, OnePlace, CloseShutdown
<1>28. ASSUME CloseQueue PROVE OnePlace'
  <2>1. sendq' = <<>> /\ ToSet(sendq') = {} /\ IsInjective(sendq')
    BY <1>28 DEF CloseQueue, ToSet, IsInjective
  <2> QED
    BY <1>28, <2>1 DEF IInv, OnePlace, CloseQueue
<1>29. ASSUME CloseReturn PROVE OnePlace'
  BY <1>29 DEF IInv, OnePlace, CloseReturn
<1>30. CASE UNCHANGED vars
  BY <1>30 DEF vars, IInv, OnePlace
<1> QED
  BY <1>1, <1>2, <1>3, <1>4, <1>5, <1>6, <1>7, <1>8, <1>9, <1>10,
     <1>11, <1>12, <1>13, <1>14, <1>15, <1>16, <1>17, <1>18, <1>19, <1>20,
     <1>21, <1>22, <1>23, <1>24, <1>25, <1>26, <1>27, <1>28, <1>29, <1>30,
     <1>31, <1>32
  DEF Next, SubmitStep, WaitStep, WorkerStep, CleanerStep, CloseStep

(* Every step keeps where a task is in agreement with its handler and fields. *)
LEMMA PlacementStep ==
    ASSUME IInv, [Next]_vars
    PROVE  Placement'
<1> USE DEF HandlerTo, WorkerTo, taskVars, chanVars, workerVars, cleanerVars,
            InQueue, InSendq, Submitted, Unfinished, Answer, Finished
<1>1. ASSUME NEW t \in Task, CreateStored(t) PROVE Placement'
  BY <1>1 DEF IInv, TypeOK, CreateStored, Placement,
     ChannelPlacement, WorkerPlacement, FieldPlacement
<1>2. ASSUME NEW t \in Task, CreateUnstored(t) PROVE Placement'
  BY <1>2 DEF IInv, TypeOK, CreateUnstored, Placement,
     ChannelPlacement, WorkerPlacement, FieldPlacement
<1>3. ASSUME NEW t \in Task, CountSubmission(t) PROVE Placement'
  BY <1>3 DEF IInv, TypeOK, CountSubmission, Placement,
     ChannelPlacement, WorkerPlacement, FieldPlacement
<1>4. ASSUME NEW t \in Task, Send(t) PROVE Placement'
  <2>1. handler[t] \notin Submitted
    BY <1>4 DEF Send
  <2>2. t \notin ToSet(queue) /\ t \notin ToSet(sendq) /\ \A w \in Worker : wtask[w] # t
    BY <1>4, <2>1, Unsubmitted DEF Send
  <2>3. ToSet(queue') = ToSet(queue) \cup {t}
    BY <1>4, <2>2, AppendNewInjective DEF IInv, TypeOK, OnePlace, Send
  <2>7. ChannelPlacement'
    BY <1>4, <2>2, <2>3 DEF IInv, TypeOK, Send, Placement, ChannelPlacement, WorkerPlacement, FieldPlacement
  <2>8. WorkerPlacement'
    BY <1>4, <2>2 DEF IInv, TypeOK, Send, Placement, ChannelPlacement, WorkerPlacement, FieldPlacement
  <2>9. FieldPlacement'
    BY <1>4 DEF IInv, TypeOK, Send, Placement, ChannelPlacement, WorkerPlacement, FieldPlacement
  <2> QED
    BY <2>7, <2>8, <2>9 DEF Placement
<1>5. ASSUME NEW t \in Task, Park(t) PROVE Placement'
  <2>1. handler[t] \notin Submitted
    BY <1>5 DEF Park
  <2>2. t \notin ToSet(queue) /\ t \notin ToSet(sendq) /\ \A w \in Worker : wtask[w] # t
    BY <1>5, <2>1, Unsubmitted DEF Park
  <2>3. ToSet(sendq') = ToSet(sendq) \cup {t}
    BY <1>5, <2>2, AppendNewInjective DEF IInv, TypeOK, OnePlace, Park
  <2>7. ChannelPlacement'
    BY <1>5, <2>2, <2>3 DEF IInv, TypeOK, Park, Placement, ChannelPlacement, WorkerPlacement, FieldPlacement
  <2>8. WorkerPlacement'
    BY <1>5, <2>2 DEF IInv, TypeOK, Park, Placement, ChannelPlacement, WorkerPlacement, FieldPlacement
  <2>9. FieldPlacement'
    BY <1>5 DEF IInv, TypeOK, Park, Placement, ChannelPlacement, WorkerPlacement, FieldPlacement
  <2> QED
    BY <2>7, <2>8, <2>9 DEF Placement
<1>6. ASSUME NEW t \in Task, GiveUp(t) PROVE Placement'
  <2>1. PICK i \in 1 .. Len(sendq) : sendq[i] = t /\ sendq' = RemoveAt(sendq, i)
    BY <1>6 DEF GiveUp, Unpark
  <2>2. ToSet(sendq') = ToSet(sendq) \ {t}
    BY <2>1, RemoveAtInjective DEF IInv, TypeOK, OnePlace
  <2>7. ChannelPlacement'
    BY <1>6, <2>2 DEF IInv, TypeOK, GiveUp, Placement, ChannelPlacement, WorkerPlacement, FieldPlacement
  <2>8. WorkerPlacement'
    BY <1>6 DEF IInv, TypeOK, GiveUp, Placement, ChannelPlacement, WorkerPlacement, FieldPlacement
  <2>9. FieldPlacement'
    BY <1>6 DEF IInv, TypeOK, GiveUp, Placement, ChannelPlacement, WorkerPlacement, FieldPlacement
  <2> QED
    BY <2>7, <2>8, <2>9 DEF Placement
<1>7. ASSUME NEW t \in Task, SendOnClosed(t) PROVE Placement'
  BY <1>7 DEF IInv, TypeOK, SendOnClosed, Placement,
     ChannelPlacement, WorkerPlacement, FieldPlacement
<1>8. ASSUME NEW t \in Task, WaitTakesResult(t) PROVE Placement'
  BY <1>8 DEF IInv, TypeOK, WaitTakesResult, Placement,
     ChannelPlacement, WorkerPlacement, FieldPlacement
<1>9. ASSUME NEW t \in Task, WaitTakesDone(t) PROVE Placement'
  BY <1>9 DEF IInv, TypeOK, WaitTakesDone, Placement,
     ChannelPlacement, WorkerPlacement, FieldPlacement
<1>10. ASSUME NEW t \in Task, WaitParks(t) PROVE Placement'
  BY <1>10 DEF IInv, TypeOK, WaitParks, Placement,
     ChannelPlacement, WorkerPlacement, FieldPlacement
<1>11. ASSUME NEW t \in Task, Expire(t) PROVE Placement'
  <2>1. \A x \in Task : handler'[x] \in Submitted <=> handler[x] \in Submitted
    BY <1>11 DEF IInv, TypeOK, Expire, WakeWait
  <2>2. \A x \in Task : handler[x] = "parked" => handler'[x] = "parked"
    BY <1>11 DEF IInv, TypeOK, Expire, WakeWait
  <2>3. UNCHANGED <<status, result, queue, sendq, wpc, wtask, wres>>
    BY <1>11 DEF Expire
  <2>4. \A v \in Worker : wpc[v] \in Unfinished => wtask[v] \in Task
    BY DEF IInv, TypeOK, Placement, WorkerPlacement
  <2>7. ChannelPlacement'
    BY <2>1, <2>2, <2>3 DEF IInv, Placement, ChannelPlacement
  <2>8. WorkerPlacement'
    BY <2>1, <2>3, <2>4 DEF IInv, Placement, WorkerPlacement
  <2>9. FieldPlacement'
    BY <2>1, <2>3 DEF IInv, Placement, FieldPlacement
  <2> QED
    BY <2>7, <2>8, <2>9 DEF Placement
<1>12. ASSUME NEW t \in Task, FindToCancel(t) PROVE Placement'
  BY <1>12 DEF IInv, TypeOK, FindToCancel, Placement,
     ChannelPlacement, WorkerPlacement, FieldPlacement
<1>13. ASSUME NEW t \in Task, Cancel(t) PROVE Placement'
  <2>7. ChannelPlacement'
    BY <1>13 DEF IInv, TypeOK, Cancel, MayCancel, Placement, ChannelPlacement, WorkerPlacement, FieldPlacement
  <2>8. WorkerPlacement'
    BY <1>13 DEF IInv, TypeOK, Cancel, MayCancel, Placement, ChannelPlacement, WorkerPlacement, FieldPlacement
  <2>9. FieldPlacement'
    BY <1>13 DEF IInv, TypeOK, Cancel, MayCancel, Placement, ChannelPlacement, WorkerPlacement, FieldPlacement
  <2> QED
    BY <2>7, <2>8, <2>9 DEF Placement
<1>14. ASSUME NEW t \in Task, Age(t) PROVE Placement'
  BY <1>14 DEF IInv, TypeOK, Age, Placement,
     ChannelPlacement, WorkerPlacement, FieldPlacement
<1>15. ASSUME NEW t \in Task, ReadStatus(t) PROVE Placement'
  BY <1>15 DEF IInv, TypeOK, ReadStatus, Placement,
     ChannelPlacement, WorkerPlacement, FieldPlacement
<1>16. ASSUME NEW w \in Worker, Take(w) PROVE Placement'
  <2>1. \A x \in Task : \/ handler'[x] = handler[x]
                        \/ /\ handler[x] = "parked" /\ handler'[x] = "accepted"
                           /\ x \notin ToSet(sendq')
    BY <1>16, TakeFacts DEF IInv, TypeOK, Placement, ChannelPlacement
  <2>2. \A x \in Task : x \in ToSet(queue') =>
           x \in ToSet(queue) \/ (handler[x] = "parked" /\ handler'[x] = "accepted")
    BY <1>16, TakeFacts DEF IInv, TypeOK, Placement, ChannelPlacement
  <2>3. ToSet(sendq') \subseteq ToSet(sendq)
    BY <1>16, TakeFacts
  <2>4. UNCHANGED <<status, result, wres>> /\ wpc[w] = "idle" /\ wpc' = [wpc EXCEPT ![w] = "taken"]
    BY <1>16 DEF Take
  <2>5. \A v \in Worker : wpc[v] \in Unfinished => wtask[v] \in Task
    BY DEF IInv, TypeOK, Placement, WorkerPlacement
  <2>6. \A x \in Task : handler[x] \in Submitted => handler'[x] \in Submitted
    BY <2>1
  <2>7. ChannelPlacement'
    <3>1. ASSUME NEW x \in Task, x \in ToSet(queue')
          PROVE  handler'[x] \in Submitted /\ result'[x] = "none"
      <4>1. CASE x \in ToSet(queue)
        BY <2>4, <2>6, <4>1 DEF IInv, Placement, ChannelPlacement
      <4>2. CASE handler[x] = "parked" /\ handler'[x] = "accepted"
        BY <2>4, <4>2 DEF IInv, Placement, FieldPlacement
      <4> QED
        BY <2>2, <3>1, <4>1, <4>2
    <3>2. ASSUME NEW x \in Task, x \in ToSet(sendq') PROVE handler'[x] = "parked"
      <4>1. x \in ToSet(sendq) /\ handler[x] = "parked"
        BY <2>3, <3>2 DEF IInv, Placement, ChannelPlacement
      <4> QED
        BY <2>1, <3>2, <4>1
    <3> QED
      BY <3>1, <3>2 DEF ChannelPlacement
  <2>8. WorkerPlacement'
    <3> SUFFICES ASSUME NEW v \in Worker
                 PROVE  /\ wtask'[v] = NoTask <=> wpc'[v] \in {"idle", "exited"}
                        /\ wpc'[v] \in Unfinished =>
                              handler'[wtask'[v]] \in Submitted /\ result'[wtask'[v]] = "none"
                        /\ wpc'[v] \in {"recorded", "delivered", "completed"} =>
                              result'[wtask'[v]] = wres'[v]
                        /\ wpc'[v] \in {"decoded", "recorded", "delivered", "completed"} =>
                              wres'[v] \in Answer
      BY DEF WorkerPlacement
    <3>1. CASE v = w
      <4>1. wpc'[v] = "taken" /\ wtask'[v] = Head(queue) /\ Head(queue) \in Task
        BY <1>16, <2>4, <3>1, TakeFacts DEF IInv, TypeOK
      <4>2. handler[Head(queue)] \in Submitted /\ result[Head(queue)] = "none"
        BY <1>16, TakeFacts DEF IInv, Placement, ChannelPlacement
      <4> QED
        BY <2>4, <2>6, <4>1, <4>2, TaskAssumption
    <3>2. CASE v # w
      <4>1. wpc'[v] = wpc[v] /\ wtask'[v] = wtask[v]
        BY <1>16, <2>4, <3>2, TakeFacts DEF IInv, TypeOK
      <4> QED
        BY <2>4, <2>5, <2>6, <4>1 DEF IInv, Placement, WorkerPlacement
    <3> QED
      BY <3>1, <3>2
  <2>9. FieldPlacement'
    BY <2>4, <2>6 DEF IInv, Placement, FieldPlacement
  <2> QED
    BY <2>7, <2>8, <2>9 DEF Placement
<1>17. ASSUME NEW w \in Worker, BeginTask(w) PROVE Placement'
  BY <1>17 DEF IInv, TypeOK, BeginTask, Placement,
     ChannelPlacement, WorkerPlacement, FieldPlacement
<1>18. ASSUME NEW w \in Worker, SetProcessing(w) PROVE Placement'
  BY <1>18 DEF IInv, TypeOK, SetProcessing, Placement,
     ChannelPlacement, WorkerPlacement, FieldPlacement
<1>19. ASSUME NEW w \in Worker, Recognize(w) PROVE Placement'
  BY <1>19 DEF IInv, TypeOK, Recognize, Placement,
     ChannelPlacement, WorkerPlacement, FieldPlacement
<1>20. ASSUME NEW w \in Worker, Record(w) PROVE Placement'
  <2> DEFINE x == wtask[w]
  <2>1. /\ x \in Task /\ handler[x] \in Submitted /\ result[x] = "none"
        /\ wres[w] \in Answer /\ wpc[w] = "decoded"
    <3>1. wpc[w] = "decoded"
      BY <1>20 DEF Record
    <3>2. x \in Task
      BY <3>1 DEF IInv, TypeOK, Placement, WorkerPlacement
    <3> QED
      BY <3>1, <3>2 DEF IInv, Placement, WorkerPlacement
  <2>2. /\ result' = [result EXCEPT ![x] = wres[w]]
        /\ status' = [status EXCEPT ![x] = IF wres[w] = "err" THEN "failed" ELSE "completed"]
        /\ wpc' = [wpc EXCEPT ![w] = "recorded"]
        /\ UNCHANGED <<queue, sendq, wtask, wres>>
    BY <1>20 DEF Record, RecordResult
  <2>3. handler' = handler
    BY <1>20 DEF Record
  <2>5. x \notin ToSet(queue) /\ \A v \in Worker : wtask[v] = x => v = w
    BY <2>1, TaskAssumption DEF IInv, OnePlace
  <2> HIDE DEF x
  <2>7. ChannelPlacement'
    BY <2>1, <2>2, <2>3, <2>5 DEF IInv, TypeOK, Placement, ChannelPlacement
  <2>8. WorkerPlacement'
    <3> SUFFICES ASSUME NEW v \in Worker
                 PROVE  /\ wtask'[v] = NoTask <=> wpc'[v] \in {"idle", "exited"}
                        /\ wpc'[v] \in Unfinished =>
                              handler'[wtask'[v]] \in Submitted /\ result'[wtask'[v]] = "none"
                        /\ wpc'[v] \in {"recorded", "delivered", "completed"} =>
                              result'[wtask'[v]] = wres'[v]
                        /\ wpc'[v] \in {"decoded", "recorded", "delivered", "completed"} =>
                              wres'[v] \in Answer
      BY DEF WorkerPlacement
    <3>1. CASE v = w
      <4>1. wpc'[v] = "recorded" /\ wtask'[v] = x /\ result'[x] = wres'[v] /\ wres'[v] \in Answer
        BY <2>1, <2>2, <3>1 DEF IInv, TypeOK, x
      <4> QED
        BY <2>1, <4>1, TaskAssumption
    <3>2. CASE v # w
      <4>1. /\ wpc'[v] = wpc[v] /\ wtask'[v] = wtask[v] /\ wtask[v] # x
            /\ wtask[v] \in Task \cup {NoTask} /\ wres'[v] = wres[v]
        BY <2>2, <2>5, <3>2 DEF IInv, TypeOK
      <4>2. wtask[v] \in Task => result'[wtask[v]] = result[wtask[v]]
        BY <2>2, <4>1 DEF IInv, TypeOK
      <4> QED
        BY <2>3, <4>1, <4>2 DEF IInv, Placement, WorkerPlacement
    <3> QED
      BY <3>1, <3>2
  <2>9. FieldPlacement'
    BY <2>1, <2>2, <2>3 DEF IInv, TypeOK, Placement, FieldPlacement
  <2> QED
    BY <2>7, <2>8, <2>9 DEF Placement
<1>31. ASSUME NEW w \in Worker, Deliver(w) \/ Release(w) PROVE Placement'
  <2> HIDE DEF Submitted
  <2>1. \A y \in Task : /\ handler'[y] \in Submitted <=> handler[y] \in Submitted
                        /\ handler[y] = "parked" => handler'[y] = "parked"
    BY <1>31, OnlyWaitMoves
  <2>2. /\ wpc[w] \in {"recorded", "delivered"}
        /\ wpc' = [wpc EXCEPT ![w] = IF wpc[w] = "recorded" THEN "delivered" ELSE "completed"]
        /\ UNCHANGED <<status, result, queue, sendq, wtask, wres>>
    BY <1>31, OnlyWaitMoves
  <2>3. ChannelPlacement'
    BY <2>1, <2>2 DEF IInv, Placement, ChannelPlacement
  <2>5. FieldPlacement'
    BY <2>1, <2>2 DEF IInv, Placement, FieldPlacement
  <2>4. WorkerPlacement'
    <3> SUFFICES ASSUME NEW v \in Worker
                 PROVE  /\ wtask'[v] = NoTask <=> wpc'[v] \in {"idle", "exited"}
                        /\ wpc'[v] \in Unfinished =>
                              handler'[wtask'[v]] \in Submitted /\ result'[wtask'[v]] = "none"
                        /\ wpc'[v] \in {"recorded", "delivered", "completed"} =>
                              result'[wtask'[v]] = wres'[v]
                        /\ wpc'[v] \in {"decoded", "recorded", "delivered", "completed"} =>
                              wres'[v] \in Answer
      BY DEF WorkerPlacement
    <3>1. wtask[v] \in Task \/ wtask[v] = NoTask
      BY DEF IInv, TypeOK
    <3>2. CASE v = w
      <4>1. wpc'[v] \in {"delivered", "completed"}
        BY <2>2, <3>2 DEF IInv, TypeOK
      <4> QED
        BY <2>2, <3>2, <4>1 DEF IInv, Placement, WorkerPlacement, Unfinished
    <3>3. CASE v # w
      <4>1. wpc'[v] = wpc[v]
        BY <2>2, <3>3 DEF IInv, TypeOK
      <4> QED
        BY <2>1, <2>2, <3>1, <4>1 DEF IInv, Placement, WorkerPlacement, Unfinished
    <3> QED
      BY <3>2, <3>3
  <2> QED
    BY <2>3, <2>4, <2>5 DEF Placement
<1>21. ASSUME NEW w \in Worker, Retire(w) PROVE Placement'
  BY <1>21 DEF IInv, TypeOK, Retire, Placement,
     ChannelPlacement, WorkerPlacement, FieldPlacement
<1>22. ASSUME NEW w \in Worker, WorkerExit(w) PROVE Placement'
  BY <1>22 DEF IInv, TypeOK, WorkerExit, Placement,
     ChannelPlacement, WorkerPlacement, FieldPlacement
<1>23. ASSUME StartPass PROVE Placement'
  BY <1>23 DEF IInv, TypeOK, StartPass, Placement,
     ChannelPlacement, WorkerPlacement, FieldPlacement
<1>24. ASSUME ReadTime PROVE Placement'
  BY <1>24 DEF IInv, TypeOK, ReadTime, Placement,
     ChannelPlacement, WorkerPlacement, FieldPlacement
<1>25. ASSUME EndPass PROVE Placement'
  BY <1>25 DEF IInv, TypeOK, EndPass, Placement,
     ChannelPlacement, WorkerPlacement, FieldPlacement
<1>26. ASSUME CleanerExit PROVE Placement'
  BY <1>26 DEF IInv, TypeOK, CleanerExit, Placement,
     ChannelPlacement, WorkerPlacement, FieldPlacement
<1>27. ASSUME CloseShutdown PROVE Placement'
  BY <1>27 DEF IInv, TypeOK, CloseShutdown, Placement,
     ChannelPlacement, WorkerPlacement, FieldPlacement
<1>28. ASSUME CloseQueue PROVE Placement'
  <2>1. sendq' = <<>> /\ ToSet(sendq') = {}
    BY <1>28 DEF CloseQueue, ToSet
  <2>7. ChannelPlacement'
    BY <1>28, <2>1 DEF IInv, TypeOK, CloseQueue, Placement, ChannelPlacement, WorkerPlacement, FieldPlacement
  <2>8. WorkerPlacement'
    BY <1>28 DEF IInv, TypeOK, CloseQueue, Placement, ChannelPlacement, WorkerPlacement, FieldPlacement
  <2>9. FieldPlacement'
    BY <1>28 DEF IInv, TypeOK, CloseQueue, Placement, ChannelPlacement, WorkerPlacement, FieldPlacement
  <2> QED
    BY <2>7, <2>8, <2>9 DEF Placement
<1>29. ASSUME CloseReturn PROVE Placement'
  BY <1>29 DEF IInv, TypeOK, CloseReturn, Placement,
     ChannelPlacement, WorkerPlacement, FieldPlacement
<1>30. CASE UNCHANGED vars
  BY <1>30 DEF vars, IInv, Placement,
     ChannelPlacement, WorkerPlacement, FieldPlacement
<1> QED
  BY <1>1, <1>2, <1>3, <1>4, <1>5, <1>6, <1>7, <1>8, <1>9, <1>10,
     <1>11, <1>12, <1>13, <1>14, <1>15, <1>16, <1>17, <1>18, <1>19, <1>20,
     <1>21, <1>22, <1>23, <1>24, <1>25, <1>26, <1>27, <1>28, <1>29, <1>30,
     <1>31
  DEF Next, SubmitStep, WaitStep, WorkerStep, CleanerStep, CloseStep

(* The fields of a task change in three places only. *)
LEMMA FieldChanges ==
    ASSUME [Next]_vars
    PROVE  \/ UNCHANGED <<status, error, result>>
           \/ \E w \in Worker : SetProcessing(w) \/ Record(w)
           \/ \E t \in Task : Cancel(t)
  BY DEF Next, SubmitStep, WaitStep, WorkerStep, CleanerStep, CloseStep, vars, taskVars,
     CreateStored, CreateUnstored, CountSubmission, Send, Park, GiveUp, SendOnClosed,
     WaitTakesResult, WaitTakesDone, WaitParks, Expire, FindToCancel, Age, ReadStatus,
     Take, BeginTask, Recognize, Deliver, Release, Retire, WorkerExit, StartPass, ReadTime, EndPass,
     CleanerExit, CloseShutdown, CloseQueue, CloseReturn

(* The initial states satisfy the inductive invariant. *)
LEMMA InitIInv == Init => IInv
<1> SUFFICES ASSUME Init PROVE IInv
  OBVIOUS
<1>1. TypeOK
  BY QueueSizeAssumption, EmptySeq DEF Init, TypeOK, Status, Answer, HandlerPC, WorkerPC, Counter
<1>2. OnePlace
  BY DEF Init, OnePlace, InQueue, InSendq, ToSet, IsInjective
<1>3. Placement
  BY DEF Init, Placement, ChannelPlacement, WorkerPlacement, FieldPlacement,
         InQueue, InSendq, ToSet, Submitted, Unfinished
<1> QED
  BY <1>1, <1>2, <1>3 DEF IInv

(* The inductive invariant holds in every reachable state. *)
THEOREM Inductive == Spec => []IInv
<1>1. IInv /\ [Next]_vars => IInv'
  BY TypeStep, OnePlaceStep, PlacementStep DEF IInv
<1> QED
  BY InitIInv, <1>1, PTL DEF Spec

(* Every variable of the queue, the handlers, the workers and the collector *)
(* keeps its type, and the buffer never exceeds its capacity.               *)
THEOREM TypeCorrect == Spec => []TypeOK
  BY Inductive, PTL DEF IInv

(* A task is in one place of the channel or at one worker, never two. *)
THEOREM TasksInOnePlace == Spec => []OnePlace
  BY Inductive, PTL DEF IInv

(* Handlers, channel, workers and task fields agree on where each task is. *)
THEOREM PlacesAgree == Spec => []Placement
  BY Inductive, PTL DEF IInv

(* A task whose Submit failed is nowhere and never ran. *)
THEOREM RefusedTasksNeverRun == Spec => []RefusedNeverRuns
<1>1. IInv => RefusedNeverRuns
  <2> SUFFICES ASSUME IInv, NEW t \in Task, handler[t] \in {"refused", "panicked"}
               PROVE  /\ ~InQueue(t) /\ ~InSendq(t)
                      /\ \A w \in Worker : wtask[w] # t
                      /\ status[t] \in {"pending", "failed"}
                      /\ result[t] = "none"
    BY DEF RefusedNeverRuns
  <2>1. handler[t] \notin Submitted /\ handler[t] # "parked"
    BY DEF Submitted
  <2> QED
    BY <2>1, Unsubmitted DEF IInv, Placement, FieldPlacement
<1> QED
  BY Inductive, <1>1, PTL

(* A step changes nothing in the fields of a task that has its result. *)
LEMMA FinalStep ==
    ASSUME IInv, [Next]_vars, NEW t \in Task, result[t] # "none"
    PROVE  /\ result'[t] = result[t]
           /\ status'[t] = status[t]
           /\ error'[t] = error[t]
<1> DEFINE Same == result'[t] = result[t] /\ status'[t] = status[t] /\ error'[t] = error[t]
<1>1. ASSUME NEW w \in Worker, SetProcessing(w) \/ Record(w) PROVE Same
  <2>1. wpc[w] \in Unfinished
    BY <1>1 DEF SetProcessing, Record, Unfinished
  <2>2. wtask[w] # t
    BY <2>1 DEF IInv, Placement, WorkerPlacement
  <2> QED
    BY <1>1, <2>2 DEF IInv, TypeOK, SetProcessing, Record, RecordResult
<1>2. ASSUME NEW u \in Task, Cancel(u) PROVE Same
  <2>1. CASE u = t
    BY <1>2, <2>1 DEF IInv, Placement, FieldPlacement, Cancel, MayCancel, Finished,
       taskVars
  <2>2. CASE u # t
    BY <1>2, <2>2 DEF IInv, TypeOK, Cancel, taskVars
  <2> QED
    BY <2>1, <2>2
<1> QED
  BY <1>1, <1>2, FieldChanges

(* Once it is recorded, nothing changes a task's status, error or result. *)
THEOREM ResultsAreFinal == Spec => SettledIsFinal
<1> DEFINE Final(t) == /\ result'[t] = result[t]
                       /\ status'[t] = status[t]
                       /\ error'[t] = error[t]
<1>1. IInv /\ [Next]_vars => [\A t \in Task : result[t] # "none" => Final(t)]_vars
  BY FinalStep
<1> QED
  BY Inductive, <1>1, PTL DEF Spec, SettledIsFinal

(* Every step keeps a submitted task in the buffer, at a worker, or finished. *)
LEMMA AcceptedStep ==
    ASSUME IInv, AcceptedNotLost, [Next]_vars
    PROVE  AcceptedNotLost'
<1> USE DEF HandlerTo, WorkerTo, taskVars, chanVars, workerVars, cleanerVars,
            InQueue, Submitted, Unfinished
<1>1. ASSUME NEW t \in Task, CreateStored(t) PROVE AcceptedNotLost'
  BY <1>1 DEF IInv, TypeOK, AcceptedNotLost, CreateStored
<1>2. ASSUME NEW t \in Task, CreateUnstored(t) PROVE AcceptedNotLost'
  BY <1>2 DEF IInv, TypeOK, AcceptedNotLost, CreateUnstored
<1>3. ASSUME NEW t \in Task, CountSubmission(t) PROVE AcceptedNotLost'
  BY <1>3 DEF IInv, TypeOK, AcceptedNotLost, CountSubmission
<1>4. ASSUME NEW t \in Task, Send(t) PROVE AcceptedNotLost'
  <2>1. queue \in Seq(Task) /\ queue' = Append(queue, t)
    BY <1>4 DEF IInv, TypeOK, Send
  <2>2. ToSet(queue') = ToSet(queue) \cup {t}
    <3>1. t \notin ToSet(queue)
      BY <1>4, Unsubmitted DEF Send
    <3> QED
      BY <2>1, <3>1, AppendNewInjective DEF IInv, OnePlace
  <2> QED
    BY <1>4, <2>2 DEF IInv, TypeOK, AcceptedNotLost, Send
<1>5. ASSUME NEW t \in Task, Park(t) PROVE AcceptedNotLost'
  BY <1>5 DEF IInv, TypeOK, AcceptedNotLost, Park
<1>6. ASSUME NEW t \in Task, GiveUp(t) PROVE AcceptedNotLost'
  BY <1>6 DEF IInv, TypeOK, AcceptedNotLost, GiveUp
<1>7. ASSUME NEW t \in Task, SendOnClosed(t) PROVE AcceptedNotLost'
  BY <1>7 DEF IInv, TypeOK, AcceptedNotLost, SendOnClosed
<1>8. ASSUME NEW t \in Task, WaitTakesResult(t) PROVE AcceptedNotLost'
  BY <1>8 DEF IInv, TypeOK, AcceptedNotLost, WaitTakesResult
<1>9. ASSUME NEW t \in Task, WaitTakesDone(t) PROVE AcceptedNotLost'
  BY <1>9 DEF IInv, TypeOK, AcceptedNotLost, WaitTakesDone
<1>10. ASSUME NEW t \in Task, WaitParks(t) PROVE AcceptedNotLost'
  BY <1>10 DEF IInv, TypeOK, AcceptedNotLost, WaitParks
<1>11. ASSUME NEW t \in Task, Expire(t) PROVE AcceptedNotLost'
  BY <1>11 DEF IInv, TypeOK, AcceptedNotLost, Expire, WakeWait
<1>12. ASSUME NEW t \in Task, FindToCancel(t) PROVE AcceptedNotLost'
  BY <1>12 DEF IInv, TypeOK, AcceptedNotLost, FindToCancel
<1>13. ASSUME NEW t \in Task, Cancel(t) PROVE AcceptedNotLost'
  BY <1>13 DEF IInv, TypeOK, AcceptedNotLost, Cancel
<1>14. ASSUME NEW t \in Task, Age(t) PROVE AcceptedNotLost'
  BY <1>14 DEF IInv, TypeOK, AcceptedNotLost, Age
<1>15. ASSUME NEW t \in Task, ReadStatus(t) PROVE AcceptedNotLost'
  BY <1>15 DEF IInv, TypeOK, AcceptedNotLost, ReadStatus
<1>16. ASSUME NEW w \in Worker, Take(w) PROVE AcceptedNotLost'
  <2>1. UNCHANGED result /\ wpc[w] = "idle" /\ wpc' = [wpc EXCEPT ![w] = "taken"]
    BY <1>16 DEF Take
  <2>2. wtask[w] = NoTask
    BY <2>1 DEF IInv, Placement, WorkerPlacement
  <2> SUFFICES ASSUME NEW t \in Task, handler'[t] \in Submitted
               PROVE  \/ t \in ToSet(queue')
                      \/ \E v \in Worker : wtask'[v] = t /\ wpc'[v] \in Unfinished
                      \/ result'[t] # "none"
    BY DEF AcceptedNotLost
  <2>3. CASE t = Head(queue)
    <3>1. wtask'[w] = t /\ wpc'[w] = "taken"
      BY <1>16, <2>1, <2>3, TakeFacts DEF IInv, TypeOK
    <3> QED
      BY <3>1
  <2>4. CASE t # Head(queue) /\ t \in ToSet(queue)
    BY <1>16, <2>4, TakeFacts
  <2>5. CASE t \notin ToSet(queue)
    <3>1. t \in ToSet(queue') \/ handler[t] \in Submitted
      BY <1>16, TakeFacts DEF IInv, TypeOK
    <3>2. ASSUME NEW v \in Worker, wtask[v] = t, wpc[v] \in Unfinished
          PROVE  wtask'[v] = t /\ wpc'[v] \in Unfinished
      <4>1. v # w
        BY <2>1, <3>2
      <4> QED
        BY <1>16, <2>1, <3>2, <4>1, TakeFacts DEF IInv, TypeOK
    <3> QED
      BY <2>1, <2>5, <3>1, <3>2 DEF AcceptedNotLost
  <2> QED
    BY <2>3, <2>4, <2>5
<1>17. ASSUME NEW w \in Worker, BeginTask(w) PROVE AcceptedNotLost'
  BY <1>17 DEF IInv, TypeOK, AcceptedNotLost, BeginTask
<1>18. ASSUME NEW w \in Worker, SetProcessing(w) PROVE AcceptedNotLost'
  BY <1>18 DEF IInv, TypeOK, AcceptedNotLost, SetProcessing
<1>19. ASSUME NEW w \in Worker, Recognize(w) PROVE AcceptedNotLost'
  BY <1>19 DEF IInv, TypeOK, AcceptedNotLost, Recognize
<1>20. ASSUME NEW w \in Worker, Record(w) PROVE AcceptedNotLost'
  <2>1. /\ wpc[w] = "decoded" /\ wpc' = [wpc EXCEPT ![w] = "recorded"]
        /\ result' = [result EXCEPT ![wtask[w]] = wres[w]]
        /\ UNCHANGED <<queue, wtask>>
    BY <1>20 DEF Record, RecordResult
  <2>2. wres[w] \in Answer /\ handler[wtask[w]] \in Submitted
    BY <2>1 DEF IInv, Placement, WorkerPlacement
  <2>3. handler' = handler
    BY <1>20 DEF Record
  <2> SUFFICES ASSUME NEW t \in Task, handler'[t] \in Submitted
               PROVE  \/ t \in ToSet(queue')
                      \/ \E v \in Worker : wtask'[v] = t /\ wpc'[v] \in Unfinished
                      \/ result'[t] # "none"
    BY DEF AcceptedNotLost
  <2>4. CASE wtask[w] = t
    BY <2>1, <2>2, <2>4 DEF IInv, TypeOK, Answer
  <2>5. CASE wtask[w] # t
    <3>1. result'[t] = result[t]
      BY <2>1, <2>5 DEF IInv, TypeOK
    <3>2. ASSUME NEW v \in Worker, wtask[v] = t, wpc[v] \in Unfinished
          PROVE  wtask'[v] = t /\ wpc'[v] \in Unfinished
      BY <2>1, <2>5, <3>2 DEF IInv, TypeOK
    <3> QED
      BY <2>1, <2>3, <3>1, <3>2 DEF AcceptedNotLost
  <2> QED
    BY <2>4, <2>5
<1>31. ASSUME NEW w \in Worker, Deliver(w) \/ Release(w) PROVE AcceptedNotLost'
  <2>1. \A t \in Task : handler'[t] \in Submitted => handler[t] \in Submitted
    BY <1>31, OnlyWaitMoves
  <2>2. /\ wpc[w] \notin Unfinished /\ UNCHANGED <<result, queue, wtask>>
        /\ \A v \in Worker : v # w => wpc'[v] = wpc[v]
    <3>1. /\ wpc[w] \in {"recorded", "delivered"} /\ UNCHANGED <<result, queue, wtask>>
          /\ wpc' = [wpc EXCEPT ![w] = IF wpc[w] = "recorded" THEN "delivered" ELSE "completed"]
      BY <1>31, OnlyWaitMoves
    <3> QED
      BY <3>1 DEF IInv, TypeOK
  <2> QED
    BY <2>1, <2>2 DEF AcceptedNotLost
<1>21. ASSUME NEW w \in Worker, Retire(w) PROVE AcceptedNotLost'
  BY <1>21 DEF IInv, TypeOK, AcceptedNotLost, Retire
<1>22. ASSUME NEW w \in Worker, WorkerExit(w) PROVE AcceptedNotLost'
  BY <1>22 DEF IInv, TypeOK, AcceptedNotLost, WorkerExit
<1>23. ASSUME StartPass PROVE AcceptedNotLost'
  BY <1>23 DEF IInv, TypeOK, AcceptedNotLost, StartPass
<1>24. ASSUME ReadTime PROVE AcceptedNotLost'
  BY <1>24 DEF IInv, TypeOK, AcceptedNotLost, ReadTime
<1>25. ASSUME EndPass PROVE AcceptedNotLost'
  BY <1>25 DEF IInv, TypeOK, AcceptedNotLost, EndPass
<1>26. ASSUME CleanerExit PROVE AcceptedNotLost'
  BY <1>26 DEF IInv, TypeOK, AcceptedNotLost, CleanerExit
<1>27. ASSUME CloseShutdown PROVE AcceptedNotLost'
  BY <1>27 DEF IInv, TypeOK, AcceptedNotLost, CloseShutdown
<1>28. ASSUME CloseQueue PROVE AcceptedNotLost'
  BY <1>28 DEF IInv, TypeOK, AcceptedNotLost, CloseQueue
<1>29. ASSUME CloseReturn PROVE AcceptedNotLost'
  BY <1>29 DEF IInv, TypeOK, AcceptedNotLost, CloseReturn
<1>30. CASE UNCHANGED vars
  BY <1>30 DEF vars, AcceptedNotLost
<1> QED
  BY <1>1, <1>2, <1>3, <1>4, <1>5, <1>6, <1>7, <1>8, <1>9, <1>10,
     <1>11, <1>12, <1>13, <1>14, <1>15, <1>16, <1>17, <1>18, <1>19, <1>20,
     <1>21, <1>22, <1>23, <1>24, <1>25, <1>26, <1>27, <1>28, <1>29, <1>30,
     <1>31
  DEF Next, SubmitStep, WaitStep, WorkerStep, CleanerStep, CloseStep

(* What a blocking caller is told changes in these steps only. *)
LEMMA ReplyChanges ==
    ASSUME [Next]_vars
    PROVE  \/ UNCHANGED <<result, resultChan, reply>>
           \/ \E t \in Task : WaitTakesResult(t) \/ WaitTakesDone(t) \/ Expire(t) \/ Cancel(t)
           \/ \E w \in Worker : Record(w) \/ Deliver(w) \/ Release(w)
  BY DEF Next, SubmitStep, WaitStep, WorkerStep, CleanerStep, CloseStep, vars, taskVars,
     CreateStored, CreateUnstored, CountSubmission, Send, Park, GiveUp, SendOnClosed,
     WaitParks, FindToCancel, Age, ReadStatus, Take, BeginTask, SetProcessing, Recognize,
     Retire, WorkerExit, StartPass, ReadTime, EndPass, CleanerExit, CloseShutdown,
     CloseQueue, CloseReturn

(* Every step keeps what a blocking caller is told true. *)
LEMMA ReplyStep ==
    ASSUME IInv, ReplyIsTrue, [Next]_vars
    PROVE  ReplyIsTrue'
<1> USE DEF HandlerTo, WorkerTo, taskVars, Answer
<1>1. CASE UNCHANGED <<result, resultChan, reply>>
  BY <1>1 DEF ReplyIsTrue
<1>2. ASSUME NEW t \in Task, WaitTakesResult(t) PROVE ReplyIsTrue'
  BY <1>2 DEF IInv, TypeOK, ReplyIsTrue, WaitTakesResult
<1>3. ASSUME NEW t \in Task, WaitTakesDone(t) PROVE ReplyIsTrue'
  BY <1>3 DEF IInv, TypeOK, ReplyIsTrue, WaitTakesDone
<1>4. ASSUME NEW t \in Task, Expire(t) PROVE ReplyIsTrue'
  BY <1>4 DEF IInv, TypeOK, ReplyIsTrue, Expire, WakeWait
<1>5. ASSUME NEW t \in Task, Cancel(t) PROVE ReplyIsTrue'
  <2>1. t \in Async /\ UNCHANGED <<result, reply>>
    BY <1>5 DEF IInv, TypeOK, Cancel
  <2>2. \A u \in Task : u # t => resultChan'[u] = resultChan[u]
    BY <1>5 DEF IInv, TypeOK, Cancel
  <2> QED
    BY <2>1, <2>2 DEF ReplyIsTrue
<1>6. ASSUME NEW w \in Worker, Record(w) PROVE ReplyIsTrue'
  <2>1. result[wtask[w]] = "none" /\ wtask[w] # NoTask
    BY <1>6 DEF IInv, Placement, WorkerPlacement, Unfinished, Record
  <2>2. /\ result' = [result EXCEPT ![wtask[w]] = wres[w]] /\ UNCHANGED <<resultChan, reply>>
    BY <1>6 DEF Record, RecordResult
  <2> QED
    BY <2>1, <2>2 DEF IInv, TypeOK, ReplyIsTrue
<1>7. ASSUME NEW w \in Worker, Deliver(w) PROVE ReplyIsTrue'
  <2>1. PICK x \in Task : x = wtask[w]
    BY <1>7, OnlyWaitMoves
  <2>2. result' = result /\ result[x] = wres[w]
    BY <1>7, <2>1 DEF IInv, Placement, WorkerPlacement, Deliver
  <2>3. \/ reply' = [reply EXCEPT ![x] = wres[w]] /\ resultChan' = resultChan
        \/ /\ reply' = reply
           /\ resultChan' = [resultChan EXCEPT ![x] = IF resultChan[x] = "none" THEN wres[w]
                                                                               ELSE resultChan[x]]
    BY <1>7, <2>1 DEF Deliver, DeliverResult
  <2> QED
    BY <2>2, <2>3 DEF IInv, TypeOK, ReplyIsTrue
<1>8. ASSUME NEW w \in Worker, Release(w) PROVE ReplyIsTrue'
  <2>1. PICK x \in Task : x = wtask[w]
    BY <1>8, OnlyWaitMoves
  <2>2. /\ UNCHANGED <<result, resultChan>>
        /\ reply' = reply \/ reply' = [reply EXCEPT ![x] = "timeout"]
    BY <1>8, <2>1 DEF Release, WakeWait
  <2> QED
    BY <2>2 DEF IInv, TypeOK, ReplyIsTrue
<1> QED
  BY <1>1, <1>2, <1>3, <1>4, <1>5, <1>6, <1>7, <1>8, ReplyChanges

(* The worker that recorded the result of t has still to send it. *)
ToBeSent(t) == \E w \in Worker : wtask[w] = t /\ wpc[w] = "recorded"

(* A parked Wait is early: its task has no result, or one that is about to  *)
(* be sent.  A result that was sent is in the channel or with the caller,   *)
(* unless the context is done.                                              *)
WaitersAreEarly ==
    \A t \in Task :
        /\ handler[t] = "waiting" =>
              /\ t \notin Async /\ resultChan[t] = "none" /\ ctx[t] = "live"
              /\ result[t] = "none" \/ ToBeSent(t)
        /\ result[t] # "none" =>
              \/ ToBeSent(t)
              \/ resultChan[t] # "none" \/ handler[t] = "answered" \/ ctx[t] # "live"

(* A step that has nothing to do with parked Waits and results. *)
Calm ==
    /\ UNCHANGED <<result, resultChan, ctx>>
    /\ \A t \in Task : \/ handler'[t] = handler[t]
                       \/ handler[t] \notin {"waiting", "answered"} /\ handler'[t] # "waiting"
    /\ \A w \in Worker : wpc[w] = "recorded" => wpc'[w] = "recorded" /\ wtask'[w] = wtask[w]

(* Most steps are calm. *)
LEMMA OtherSteps ==
    ASSUME IInv, [Next]_vars
    PROVE  \/ Calm
           \/ \E t \in Task : \/ WaitTakesResult(t) \/ WaitTakesDone(t) \/ WaitParks(t)
                              \/ Expire(t) \/ Cancel(t)
           \/ \E w \in Worker : Record(w) \/ Deliver(w) \/ Release(w)
<1> USE DEF HandlerTo, WorkerTo, taskVars, chanVars, workerVars, cleanerVars
<1>1. ASSUME NEW t \in Task,
             CreateStored(t) \/ CreateUnstored(t) \/ CountSubmission(t) \/ Send(t)
      PROVE  Calm
  BY <1>1 DEF IInv, TypeOK, Calm, CreateStored, CreateUnstored, CountSubmission, Send
<1>2. ASSUME NEW t \in Task, Park(t) \/ GiveUp(t) \/ SendOnClosed(t)
      PROVE  Calm
  BY <1>2 DEF IInv, TypeOK, Calm, Park, GiveUp, SendOnClosed
<1>3. ASSUME NEW t \in Task, FindToCancel(t) \/ Age(t) \/ ReadStatus(t)
      PROVE  Calm
  BY <1>3 DEF Calm, FindToCancel, Age, ReadStatus
<1>4. ASSUME NEW w \in Worker, Take(w) PROVE Calm
  <2>1. wpc[w] # "recorded" /\ \A v \in Worker : v # w => wpc'[v] = wpc[v] /\ wtask'[v] = wtask[v]
    BY <1>4 DEF IInv, TypeOK, Take
  <2>2. \A t \in Task : \/ handler'[t] = handler[t]
                        \/ handler[t] = "parked" /\ handler'[t] = "accepted"
    <3>1. CASE handler' = handler
      BY <3>1
    <3>2. ASSUME Head(sendq) \in Task, InSendq(Head(sendq)),
                 handler' = [handler EXCEPT ![Head(sendq)] = "accepted"]
          PROVE  \A t \in Task : \/ handler'[t] = handler[t]
                                 \/ handler[t] = "parked" /\ handler'[t] = "accepted"
      <4>1. PICK x \in Task : x = Head(sendq)
        BY <3>2
      <4>2. handler[x] = "parked"
        BY <3>2, <4>1 DEF IInv, Placement, ChannelPlacement
      <4> QED
        BY <3>2, <4>1, <4>2 DEF IInv, TypeOK
    <3> QED
      BY <1>4, <3>1, <3>2, TakeFacts
  <2> QED
    BY <1>4, <2>1, <2>2 DEF Calm, Take
<1>5. ASSUME NEW w \in Worker,
             BeginTask(w) \/ SetProcessing(w) \/ Recognize(w) \/ Retire(w) \/ WorkerExit(w)
      PROVE  Calm
  <2>1. wpc[w] # "recorded" /\ \A v \in Worker : v # w => wpc'[v] = wpc[v] /\ wtask'[v] = wtask[v]
    BY <1>5 DEF IInv, TypeOK, BeginTask, SetProcessing, Recognize, Retire, WorkerExit
  <2>2. UNCHANGED <<result, resultChan, ctx, handler>>
    BY <1>5 DEF BeginTask, SetProcessing, Recognize, Retire, WorkerExit
  <2> QED
    BY <2>1, <2>2 DEF Calm
<1>6. CASE StartPass \/ ReadTime \/ EndPass \/ CleanerExit \/ CloseShutdown \/ CloseReturn
  BY <1>6 DEF Calm, StartPass, ReadTime, EndPass, CleanerExit, CloseShutdown, CloseReturn
<1>7. CASE CloseQueue
  BY <1>7 DEF Calm, CloseQueue
<1>8. CASE UNCHANGED vars
  BY <1>8 DEF Calm, vars
<1> QED
  BY <1>1, <1>2, <1>3, <1>4, <1>5, <1>6, <1>7, <1>8
  DEF Next, SubmitStep, WaitStep, WorkerStep, CleanerStep, CloseStep

(* A worker about to cancel the context of its task finds nobody parked. *)
LEMMA NobodyToWake ==
    ASSUME IInv, WaitersAreEarly, NEW w \in Worker, Release(w)
    PROVE  handler[wtask[w]] # "waiting" /\ UNCHANGED <<handler, reply>>
<1>1. wtask[w] \in Task /\ wpc[w] = "delivered"
  BY OnlyWaitMoves DEF Release
<1>2. result[wtask[w]] # "none"
  BY <1>1 DEF IInv, Placement, WorkerPlacement, Answer
<1>3. ~ToBeSent(wtask[w])
  BY <1>1, TaskAssumption DEF IInv, OnePlace, ToBeSent
<1> QED
  BY <1>1, <1>2, <1>3 DEF WaitersAreEarly, Release, WakeWait

(* Every step keeps parked Waits early. *)
LEMMA EarlyStep ==
    ASSUME IInv, WaitersAreEarly, [Next]_vars
    PROVE  WaitersAreEarly'
<1> USE DEF HandlerTo, WorkerTo, taskVars, workerVars
<1>1. CASE Calm
  <2>1. \A t \in Task : ToBeSent(t) => ToBeSent(t)'
    BY <1>1 DEF Calm, ToBeSent
  <2> QED
    BY <1>1, <2>1 DEF Calm, WaitersAreEarly
<1>2. ASSUME NEW t \in Task, WaitTakesResult(t) \/ WaitTakesDone(t) \/ WaitParks(t)
                             \/ Expire(t)
      PROVE  WaitersAreEarly'
  <2>1. \A u \in Task : ToBeSent(u)' = ToBeSent(u)
    BY <1>2 DEF ToBeSent, WaitTakesResult, WaitTakesDone, WaitParks, Expire
  <2>2. CASE WaitTakesResult(t)
    BY <2>1, <2>2 DEF IInv, TypeOK, WaitersAreEarly, WaitTakesResult
  <2>3. CASE WaitTakesDone(t)
    BY <2>1, <2>3 DEF IInv, TypeOK, WaitersAreEarly, WaitTakesDone
  <2>4. CASE WaitParks(t)
    BY <2>1, <2>4 DEF IInv, TypeOK, WaitersAreEarly, WaitParks
  <2>5. CASE Expire(t)
    BY <2>1, <2>5 DEF IInv, TypeOK, WaitersAreEarly, Expire, WakeWait
  <2> QED
    BY <1>2, <2>2, <2>3, <2>4, <2>5
<1>3. ASSUME NEW t \in Task, Cancel(t) PROVE WaitersAreEarly'
  <2>1. t \in Async /\ UNCHANGED <<result, handler, wpc, wtask>>
    BY <1>3 DEF IInv, TypeOK, Cancel
  <2>2. \A u \in Task : u # t => resultChan'[u] = resultChan[u] /\ ctx'[u] = ctx[u]
    BY <1>3 DEF IInv, TypeOK, Cancel, CancelContext
  <2>3. resultChan[t] # "none" => resultChan'[t] # "none"
    BY <1>3 DEF IInv, TypeOK, Cancel
  <2>4. ctx[t] # "live" => ctx'[t] # "live"
    BY <1>3 DEF IInv, TypeOK, Cancel, CancelContext
  <2>5. \A u \in Task : ToBeSent(u)' = ToBeSent(u)
    BY <2>1 DEF ToBeSent
  <2> QED
    BY <2>1, <2>2, <2>3, <2>4, <2>5 DEF WaitersAreEarly
<1>4. ASSUME NEW w \in Worker, Record(w) PROVE WaitersAreEarly'
  <2>1. /\ UNCHANGED <<handler, resultChan, ctx, wtask>> /\ wpc[w] = "decoded"
        /\ wpc' = [wpc EXCEPT ![w] = "recorded"]
        /\ result' = [result EXCEPT ![wtask[w]] = wres[w]]
    BY <1>4 DEF Record, RecordResult
  <2>2. ToBeSent(wtask[w])' /\ \A u \in Task : ToBeSent(u) => ToBeSent(u)'
    BY <2>1 DEF IInv, TypeOK, ToBeSent
  <2>3. \A u \in Task : u # wtask[w] => result'[u] = result[u]
    BY <2>1 DEF IInv, TypeOK
  <2> QED
    BY <2>1, <2>2, <2>3 DEF WaitersAreEarly
<1>5. ASSUME NEW w \in Worker, Deliver(w) PROVE WaitersAreEarly'
  <2>1. PICK x \in Task : x = wtask[w]
    BY <1>5, OnlyWaitMoves
  <2>2. /\ UNCHANGED <<result, ctx, wtask>> /\ wpc[w] = "recorded"
        /\ wpc' = [wpc EXCEPT ![w] = "delivered"] /\ wres[w] \in Answer
    BY <1>5 DEF IInv, Placement, WorkerPlacement, Deliver
  <2>3. \A u \in Task : u # x => ToBeSent(u) = ToBeSent(u)'
    BY <2>1, <2>2 DEF IInv, TypeOK, ToBeSent
  <2>4. \A u \in Task : u # x => handler'[u] = handler[u] /\ resultChan'[u] = resultChan[u]
    BY <1>5, <2>1 DEF IInv, TypeOK, Deliver, DeliverResult
  <2>5. handler'[x] # "waiting" /\ (handler'[x] = "answered" \/ resultChan'[x] # "none")
    <3>1. CASE handler[x] = "waiting"
      BY <1>5, <2>1, <3>1 DEF IInv, TypeOK, Deliver, DeliverResult
    <3>2. CASE handler[x] # "waiting"
      BY <1>5, <2>1, <2>2, <3>2 DEF IInv, TypeOK, Deliver, DeliverResult, Answer
    <3> QED
      BY <3>1, <3>2
  <2> QED
    BY <2>2, <2>3, <2>4, <2>5 DEF WaitersAreEarly
<1>6. ASSUME NEW w \in Worker, Release(w) PROVE WaitersAreEarly'
  <2>1. /\ UNCHANGED <<result, resultChan, handler, wtask>> /\ wpc[w] = "delivered"
        /\ wpc' = [wpc EXCEPT ![w] = "completed"] /\ handler[wtask[w]] # "waiting"
    BY <1>6, NobodyToWake DEF Release
  <2>2. \A u \in Task : ToBeSent(u) => ToBeSent(u)'
    BY <2>1 DEF IInv, TypeOK, ToBeSent
  <2>3. \A u \in Task : \/ ctx'[u] = ctx[u]
                        \/ ctx'[u] # "live" /\ handler[u] # "waiting"
    BY <1>6, <2>1 DEF IInv, TypeOK, Release, CancelContext
  <2> QED
    BY <2>1, <2>2, <2>3 DEF WaitersAreEarly
<1> QED
  BY <1>1, <1>2, <1>3, <1>4, <1>5, <1>6, OtherSteps

(* A task whose Submit succeeded is in the buffer, at a worker that will    *)
(* record its result, or has it.                                            *)
THEOREM AcceptedTasksAreNotLost == Spec => []AcceptedNotLost
<1>1. Init => AcceptedNotLost
  BY DEF Init, AcceptedNotLost, Submitted
<1>2. IInv /\ AcceptedNotLost /\ [Next]_vars => AcceptedNotLost'
  BY AcceptedStep
<1> QED
  BY Inductive, <1>1, <1>2, PTL DEF Spec

(* A Wait parked in its select ends with the result of the task's run or    *)
(* because its 30 minutes are over.  Complete makes the result and the done *)
(* context visible in two steps, under a mutex that Wait does not take; the *)
(* context comes second, and by then nobody is parked (NobodyToWake).       *)
THEOREM ParkedWaitIsAnswered == Spec => WaiterIsTold
<1> DEFINE Told(t) == \/ reply'[t] \in Answer /\ reply'[t] = result'[t]
                      \/ reply'[t] = "timeout" /\ ctx'[t] = "expired"
<1>1. Init => WaitersAreEarly
  BY DEF Init, WaitersAreEarly
<1>2. IInv /\ WaitersAreEarly /\ [Next]_vars => WaitersAreEarly'
  BY EarlyStep
<1>3. ASSUME IInv, WaitersAreEarly, [Next]_vars,
             NEW t \in Task, handler[t] = "waiting", handler'[t] # "waiting"
      PROVE  Told(t)
  <2> USE DEF HandlerTo, taskVars
  <2>1. ASSUME NEW u \in Task, WaitTakesResult(u) \/ WaitTakesDone(u) \/ WaitParks(u) \/ Cancel(u)
        PROVE  FALSE
    BY <1>3, <2>1 DEF IInv, TypeOK, WaitTakesResult, WaitTakesDone, WaitParks, Cancel
  <2>2. ASSUME NEW u \in Task, Expire(u) PROVE Told(t)
    BY <1>3, <2>2 DEF IInv, TypeOK, Expire, WakeWait
  <2>3. ASSUME NEW w \in Worker, Deliver(w) PROVE Told(t)
    <3>1. PICK x \in Task : x = wtask[w]
      BY <1>3, <2>3, OnlyWaitMoves
    <3>2. result'[x] = wres[w] /\ wres[w] \in Answer
      BY <1>3, <2>3, <3>1 DEF IInv, Placement, WorkerPlacement, Deliver
    <3>3. handler[x] = "waiting" /\ x = t
      BY <1>3, <2>3, <3>1 DEF IInv, TypeOK, Deliver, DeliverResult
    <3>4. reply' = [reply EXCEPT ![x] = wres[w]]
      BY <2>3, <3>1, <3>3 DEF Deliver, DeliverResult
    <3> QED
      BY <1>3, <2>3, <3>2, <3>3, <3>4 DEF IInv, TypeOK
  <2>4. ASSUME NEW w \in Worker, Record(w) \/ Release(w) PROVE FALSE
    BY <1>3, <2>4, NobodyToWake DEF Record
  <2>5. CASE Calm
    BY <1>3, <2>5 DEF Calm
  <2>6. \/ Calm
        \/ \E u \in Task : \/ WaitTakesResult(u) \/ WaitTakesDone(u) \/ WaitParks(u)
                           \/ Expire(u) \/ Cancel(u)
        \/ \E w \in Worker : Record(w) \/ Deliver(w) \/ Release(w)
    BY <1>3, OtherSteps
  <2> HIDE DEF Told
  <2> QED
    BY <2>1, <2>2, <2>3, <2>4, <2>5, <2>6
<1>4. IInv /\ WaitersAreEarly /\ [Next]_vars
        => [\A t \in Task : handler[t] = "waiting" /\ handler'[t] # "waiting" => Told(t)]_vars
  BY <1>3
<1> QED
  BY Inductive, <1>1, <1>2, <1>4, PTL DEF Spec, WaiterIsTold

(* What Wait returns as a result is the result of the task's one run. *)
THEOREM RepliesAreTrue == Spec => []ReplyIsTrue
<1>1. Init => ReplyIsTrue
  BY DEF Init, ReplyIsTrue, Answer
<1>2. IInv /\ ReplyIsTrue /\ [Next]_vars => ReplyIsTrue'
  BY ReplyStep
<1> QED
  BY Inductive, <1>1, <1>2, PTL DEF Spec

(* The collector's candidate and the store change in three places only. *)
LEMMA StoreChanges ==
    ASSUME [Next]_vars
    PROVE  \/ UNCHANGED <<candidate, taskStore>>
           \/ \E t \in Task : CreateStored(t) \/ ReadStatus(t)
           \/ ReadTime
  BY DEF Next, SubmitStep, WaitStep, WorkerStep, CleanerStep, CloseStep, vars, cleanerVars,
     CreateUnstored, CountSubmission, Send, Park, GiveUp, SendOnClosed,
     WaitTakesResult, WaitTakesDone, WaitParks, Expire, FindToCancel, Cancel, Age,
     Take, BeginTask, SetProcessing, Recognize, Record, Deliver, Release, Retire,
     WorkerExit, StartPass, EndPass, CleanerExit, CloseShutdown, CloseQueue, CloseReturn

(* What the collector may remove: a task with a result, or one that an      *)
(* administrator cancelled.                                                 *)
Settled(t) == result[t] # "none" \/ error[t] = "cancelled"

(* Every finished task is settled, and so is the one the collector chose    *)
(* some steps ago: between its two reads nothing can unsettle it.           *)
OnlySettledChosen ==
    /\ \A t \in Task : status[t] \in Finished => Settled(t)
    /\ candidate # NoTask => Settled(candidate)

(* A settled task stays settled, whatever runs, cancels or completes it. *)
LEMMA StaysSettled ==
    ASSUME IInv, [Next]_vars, NEW t \in Task, Settled(t)
    PROVE  Settled(t)'
<1>1. CASE UNCHANGED <<status, error, result>>
  BY <1>1 DEF Settled
<1>2. ASSUME NEW w \in Worker, SetProcessing(w) PROVE Settled(t)'
  BY <1>2 DEF Settled, SetProcessing
<1>3. ASSUME NEW w \in Worker, Record(w) PROVE Settled(t)'
  <2>1. /\ wres[w] \in Answer /\ result' = [result EXCEPT ![wtask[w]] = wres[w]]
        /\ \A u \in Task : u # wtask[w] => error'[u] = error[u]
    BY <1>3 DEF IInv, TypeOK, Placement, WorkerPlacement, Record, RecordResult
  <2> QED
    BY <2>1 DEF IInv, TypeOK, Settled, Answer
<1>4. ASSUME NEW u \in Task, Cancel(u) PROVE Settled(t)'
  BY <1>4 DEF IInv, TypeOK, Settled, Cancel, taskVars
<1> QED
  BY <1>1, <1>2, <1>3, <1>4, FieldChanges

(* Every step keeps the finished tasks and the candidate settled. *)
LEMMA ChosenStep ==
    ASSUME IInv, OnlySettledChosen, [Next]_vars
    PROVE  OnlySettledChosen'
<1>1. ASSUME NEW t \in Task, status'[t] \in Finished PROVE Settled(t)'
  <2>1. CASE status[t] \in Finished
    BY <2>1, StaysSettled DEF OnlySettledChosen
  <2>2. CASE status[t] \notin Finished
    <3>1. status'[t] # status[t]
      BY <1>1, <2>2
    <3>2. ASSUME NEW w \in Worker, SetProcessing(w) PROVE FALSE
      BY <1>1, <3>1, <3>2 DEF IInv, TypeOK, SetProcessing, Finished
    <3>3. ASSUME NEW w \in Worker, Record(w) PROVE Settled(t)'
      <4>1. /\ wres[w] \in Answer /\ result' = [result EXCEPT ![wtask[w]] = wres[w]]
            /\ t = wtask[w]
        BY <3>1, <3>3 DEF IInv, TypeOK, Placement, WorkerPlacement, Record, RecordResult
      <4> QED
        BY <4>1 DEF IInv, TypeOK, Settled, Answer
    <3>4. ASSUME NEW u \in Task, Cancel(u) PROVE Settled(t)'
      BY <3>1, <3>4 DEF IInv, TypeOK, Settled, Cancel, taskVars
    <3> QED
      BY <3>1, <3>2, <3>3, <3>4, FieldChanges
  <2> QED
    BY <2>1, <2>2
<1>2. ASSUME candidate' # NoTask PROVE Settled(candidate)'
  <2>1. CASE candidate' = candidate
    <3>1. candidate \in Task /\ Settled(candidate)
      BY <1>2, <2>1, TaskAssumption DEF IInv, TypeOK, OnlySettledChosen
    <3> QED
      BY <2>1, <3>1, StaysSettled DEF Settled
  <2>2. ASSUME NEW t \in Task, ReadStatus(t) PROVE Settled(candidate)'
    <3>1. candidate' = t /\ status[t] \in Finished /\ UNCHANGED <<result, error>>
      BY <1>2, <2>2 DEF ReadStatus, Collectable, taskVars
    <3> QED
      BY <3>1 DEF OnlySettledChosen, Settled
  <2>3. CASE ReadTime
    BY <1>2, <2>3 DEF ReadTime
  <2>4. ASSUME NEW t \in Task, CreateStored(t) PROVE candidate' = candidate
    BY <2>4 DEF CreateStored, cleanerVars
  <2> QED
    BY <2>1, <2>2, <2>3, <2>4, StoreChanges
<1> QED
  BY <1>1, <1>2 DEF OnlySettledChosen

(* The collector removes only tasks that have their result or were          *)
(* cancelled, although it reads status and time in two steps and may be     *)
(* looking at a task that a worker or an administrator is changing.         *)
THEOREM CollectsOnlySettled == Spec => CollectedIsSettled
<1>1. Init => OnlySettledChosen
  BY DEF Init, OnlySettledChosen, Finished
<1>2. IInv /\ OnlySettledChosen /\ [Next]_vars => OnlySettledChosen'
  BY ChosenStep
<1>3. IInv /\ OnlySettledChosen /\ [Next]_vars
        => [\A t \in taskStore \ taskStore' : Settled(t)]_vars
  <2> SUFFICES ASSUME IInv, OnlySettledChosen, [Next]_vars, NEW t \in taskStore \ taskStore'
               PROVE  Settled(t)
    OBVIOUS
  <2>1. ReadTime
    BY StoreChanges DEF CreateStored, ReadStatus
  <2> QED
    BY <2>1 DEF ReadTime, OnlySettledChosen
<1> QED
  BY Inductive, <1>1, <1>2, <1>3, PTL DEF Spec, CollectedIsSettled, Settled
=============================================================================
