------------------------- MODULE TaskServiceProofs -------------------------
(***************************************************************************)
(* What TaskQueue is to those who use it, for any requests, workers and    *)
(* capacity.  It implements TaskService: the line of the service is the    *)
(* buffer of the channel followed by the parked senders, and the tasks it  *)
(* serves are those of the workers that have yet to record a result.  And  *)
(* the counters of taskQueueStats are right: there may be infinitely many  *)
(* requests, so that invariant also says that only finitely many were ever *)
(* made; without it there would be nothing to count.                       *)
(***************************************************************************)
EXTENDS TaskQueueProofs, FiniteSetTheorems

(* The state of the service, seen in the queue. *)
Line       == queue \o sendq
AtWork     == {v \in Worker : wpc[v] \in Unfinished}
Serving    == {wtask[w] : w \in AtWork}
TurnedAway == {t \in Task : handler[t] \in {"refused", "panicked"}}

(* What makes the first places of the line the safe ones: senders are       *)
(* parked only beside a full buffer.  And a handler that says it is parked  *)
(* is in the line, so closing the channel turns away exactly that part.     *)
SafePlaces ==
    /\ sendq # <<>> => Len(queue) = QueueSize
    /\ \A t \in Task : handler[t] = "parked" => InSendq(t)

(* The steps that matter to the service. *)
LEMMA ServiceSteps ==
    ASSUME [Next]_vars
    PROVE  \/ UNCHANGED <<queue, sendq, wpc, wtask, handler, result>>
           \/ \E t \in Task : \/ CreateStored(t) \/ CreateUnstored(t)
                              \/ SubmitStep(t) \/ WaitStep(t) \/ Expire(t)
           \/ \E w \in Worker : WorkerStep(w)
           \/ CloseQueue
  BY DEF Next, CleanerStep, CloseStep, vars, taskVars, chanVars, workerVars, cleanerVars,
     FindToCancel, Cancel, Age, ReadStatus, StartPass, ReadTime, EndPass, CleanerExit,
     CloseShutdown, CloseReturn

(* Handlers that neither submit nor are woken from the line change between  *)
(* places that mean nothing to the service.                                 *)
LEMMA QuietHandlers ==
    ASSUME IInv,
           \/ \E t \in Task : \/ CreateStored(t) \/ CreateUnstored(t) \/ CountSubmission(t)
                              \/ WaitStep(t) \/ Expire(t)
           \/ \E w \in Worker : \/ BeginTask(w) \/ SetProcessing(w) \/ Recognize(w)
                                \/ Record(w) \/ Deliver(w) \/ Release(w)
                                \/ Retire(w) \/ WorkerExit(w)
    PROVE  /\ UNCHANGED <<queue, sendq>>
           /\ \A t \in Task :
                 \/ handler'[t] = handler[t]
                 \/ /\ handler[t] \notin {"parked", "refused", "panicked"}
                    /\ handler'[t] \notin {"parked", "refused", "panicked"}
<1> USE DEF HandlerTo, chanVars
<1>1. ASSUME NEW t \in Task,
             CreateStored(t) \/ CreateUnstored(t) \/ CountSubmission(t) \/ WaitStep(t) \/ Expire(t)
      PROVE  /\ UNCHANGED <<queue, sendq>>
             /\ \/ handler' = handler
                \/ /\ handler[t] \notin {"parked", "refused", "panicked"}
                   /\ \E pc \in {"built", "counted", "answered", "waiting"} :
                         handler' = [handler EXCEPT ![t] = pc]
  BY <1>1 DEF CreateStored, CreateUnstored, CountSubmission, WaitStep, WaitTakesResult,
     WaitTakesDone, WaitParks, Expire, WakeWait
<1>2. ASSUME NEW w \in Worker,
             \/ BeginTask(w) \/ SetProcessing(w) \/ Recognize(w) \/ Record(w)
             \/ Retire(w) \/ WorkerExit(w)
      PROVE  UNCHANGED <<queue, sendq, handler>>
  BY <1>2 DEF BeginTask, SetProcessing, Recognize, Record, Retire, WorkerExit
<1>4. handler \in [Task -> HandlerPC]
  BY DEF IInv, TypeOK
<1>5. ASSUME NEW t \in Task,
             CreateStored(t) \/ CreateUnstored(t) \/ CountSubmission(t) \/ WaitStep(t) \/ Expire(t),
             NEW u \in Task
      PROVE  \/ handler'[u] = handler[u]
             \/ /\ handler[u] \notin {"parked", "refused", "panicked"}
                /\ handler'[u] \notin {"parked", "refused", "panicked"}
  BY <1>1, <1>4, <1>5
<1>6. ASSUME NEW w \in Worker, Deliver(w) \/ Release(w), NEW u \in Task
      PROVE  \/ handler'[u] = handler[u]
             \/ /\ handler[u] \notin {"parked", "refused", "panicked"}
                /\ handler'[u] \notin {"parked", "refused", "panicked"}
  BY <1>6, OnlyWaitMoves
<1>7. ASSUME NEW w \in Worker, Deliver(w) \/ Release(w) PROVE UNCHANGED <<queue, sendq>>
  BY <1>7, OnlyWaitMoves
<1> QED
  BY <1>1, <1>2, <1>5, <1>6, <1>7

(* Every step keeps the first QueueSize places of the line safe. *)
LEMMA SafePlacesStep ==
    ASSUME IInv, SafePlaces, [Next]_vars
    PROVE  SafePlaces'
<1> USE DEF HandlerTo, chanVars, InSendq
<1>0. /\ queue \in Seq(Task) /\ Len(queue) <= QueueSize /\ Len(queue) \in Nat
      /\ sendq \in Seq(Task) /\ IsInjective(sendq) /\ handler \in [Task -> HandlerPC]
  BY LenProperties DEF IInv, TypeOK, OnePlace
<1>1. CASE UNCHANGED <<queue, sendq, wpc, wtask, handler, result>>
  BY <1>1 DEF SafePlaces
<1>2. CASE \/ \E t \in Task : \/ CreateStored(t) \/ CreateUnstored(t) \/ CountSubmission(t)
                              \/ WaitStep(t) \/ Expire(t)
           \/ \E w \in Worker : \/ BeginTask(w) \/ SetProcessing(w) \/ Recognize(w)
                                \/ Record(w) \/ Deliver(w) \/ Release(w)
                                \/ Retire(w) \/ WorkerExit(w)
  BY <1>2, QuietHandlers DEF SafePlaces
<1>3. ASSUME NEW t \in Task, Send(t) PROVE SafePlaces'
  <2>1. sendq = <<>>
    BY <1>0, <1>3, QueueSizeAssumption DEF Send, BufferFull, SafePlaces
  <2>2. UNCHANGED sendq /\ handler' = [handler EXCEPT ![t] = "accepted"]
    BY <1>3 DEF Send
  <2> QED
    BY <1>0, <2>1, <2>2 DEF SafePlaces
<1>4. ASSUME NEW t \in Task, Park(t) PROVE SafePlaces'
  <2>1. Len(queue) = QueueSize /\ UNCHANGED queue
    BY <1>0, <1>4, QueueSizeAssumption DEF Park, BufferFull
  <2>2. handler' = [handler EXCEPT ![t] = "parked"] /\ sendq' = Append(sendq, t)
    BY <1>4 DEF Park
  <2>3. t \notin ToSet(sendq)
    BY <1>4, Unsubmitted DEF Park, Submitted
  <2>4. ToSet(sendq') = ToSet(sendq) \cup {t}
    BY <1>0, <2>2, <2>3, AppendNewInjective
  <2> QED
    BY <1>0, <2>1, <2>2, <2>4 DEF SafePlaces
<1>5. ASSUME NEW t \in Task, GiveUp(t) PROVE SafePlaces'
  <2>1. PICK i \in 1 .. Len(sendq) : sendq[i] = t /\ sendq' = RemoveAt(sendq, i)
    BY <1>5 DEF GiveUp, Unpark
  <2>2. ToSet(sendq') = ToSet(sendq) \ {t} /\ sendq # <<>>
    BY <1>0, <2>1, RemoveAtInjective, EmptySeq
  <2>3. UNCHANGED queue /\ handler' = [handler EXCEPT ![t] = "refused"]
    BY <1>5 DEF GiveUp
  <2> QED
    BY <1>0, <2>2, <2>3 DEF SafePlaces
<1>6. ASSUME NEW t \in Task, SendOnClosed(t) PROVE SafePlaces'
  BY <1>0, <1>6 DEF SendOnClosed, SafePlaces
<1>7. ASSUME NEW w \in Worker, Take(w) PROVE SafePlaces'
  <2>1. CASE sendq = <<>>
    BY <1>7, <2>1 DEF Take, SafePlaces
  <2>2. CASE sendq # <<>>
    <3> DEFINE s == Head(sendq)
    <3>1. /\ queue' = Append(Tail(queue), s) /\ sendq' = Tail(sendq)
          /\ handler' = [handler EXCEPT ![s] = "accepted"] /\ queue # <<>>
      BY <1>7, <2>2 DEF Take
    <3>2. s \in Task /\ ToSet(Tail(sendq)) = ToSet(sendq) \ {s}
      BY <1>0, <2>2, TailInjective
    <3>3. Tail(queue) \in Seq(Task) /\ Len(Tail(queue)) = Len(queue) - 1
      BY <1>0, <3>1, HeadTailProperties
    <3> HIDE DEF s
    <3>4. Len(queue') = Len(queue)
      BY <1>0, <3>1, <3>2, <3>3, AppendProperties
    <3> QED
      BY <1>0, <2>2, <3>1, <3>2, <3>4 DEF SafePlaces
  <2> QED
    BY <2>1, <2>2
<1>8. CASE CloseQueue
  BY <1>0, <1>8 DEF CloseQueue, SafePlaces
<1> QED
  BY <1>1, <1>2, <1>3, <1>4, <1>5, <1>6, <1>7, <1>8, ServiceSteps DEF SubmitStep, WorkerStep

(* Fewer tasks are served than there are workers while one of them is idle. *)
LEMMA IdleWorker ==
    ASSUME IInv, NEW w \in Worker, wpc[w] = "idle"
    PROVE  Cardinality(Serving) < Cardinality(Worker)
<1> DEFINE f == [v \in AtWork |-> wtask[v]]
<1>1. AtWork \subseteq Worker \ {w}
  BY DEF AtWork, Unfinished
<1>2. /\ IsFiniteSet(Worker \ {w}) /\ Cardinality(Worker \ {w}) = Cardinality(Worker) - 1
      /\ Cardinality(Worker) \in Nat
  BY WorkerAssumption, FS_RemoveElement, FS_CardinalityType
<1>3. IsFiniteSet(AtWork) /\ Cardinality(AtWork) <= Cardinality(Worker \ {w})
  BY <1>1, <1>2, FS_Subset
<1>4. f \in Surjection(AtWork, Serving)
  BY DEF Surjection, Serving
<1>5. IsFiniteSet(Serving) /\ Cardinality(Serving) <= Cardinality(AtWork)
  <2> HIDE DEF f
  <2> QED
    BY <1>3, <1>4, FS_Surjection
<1>6. Cardinality(Serving) \in Nat /\ Cardinality(AtWork) \in Nat
  BY <1>3, <1>5, FS_CardinalityType
<1> QED
  BY <1>2, <1>3, <1>5, <1>6

(* What a step does to the line, the served, the turned away and the        *)
(* outcomes makes it a step of the service.                                 *)
LEMMA StepsOfService ==
    ASSUME \/ UNCHANGED <<Line, Serving, TurnedAway, result>>
           \/ \E t \in Task :
                 /\ t \notin ToSet(Line) \cup Serving \cup TurnedAway /\ result[t] = "none"
                 /\ \/ Line' = Append(Line, t) /\ UNCHANGED <<Serving, TurnedAway, result>>
                    \/ TurnedAway' = TurnedAway \cup {t} /\ UNCHANGED <<Line, Serving, result>>
           \/ \E t \in Task :
                 /\ t \in Serving /\ Serving' = Serving \ {t}
                 /\ \E o \in Answer : result' = [result EXCEPT ![t] = o]
                 /\ UNCHANGED <<Line, TurnedAway>>
           \/ \E i \in 1 .. Len(Line) :
                 /\ i > QueueSize /\ Line' = RemoveAt(Line, i)
                 /\ TurnedAway' = TurnedAway \cup {Line[i]}
                 /\ UNCHANGED <<Serving, result>>
           \/ /\ Len(Line) > QueueSize
              /\ Line' = SubSeq(Line, 1, QueueSize)
              /\ TurnedAway' = TurnedAway \cup ToSet(SubSeq(Line, QueueSize + 1, Len(Line)))
              /\ UNCHANGED <<Serving, result>>
           \/ /\ Line # <<>> /\ Cardinality(Serving) < Cardinality(Worker)
              /\ Serving' = Serving \cup {Head(Line)} /\ Line' = Tail(Line)
              /\ UNCHANGED <<TurnedAway, result>>
    PROVE  [Service!Next]_Service!vars
<1> USE DEF Line, Serving, AtWork, TurnedAway
<1>0. /\ \A q : Service!ToSet(q) = ToSet(q)
      /\ \A q, i : Service!RemoveAt(q, i) = RemoveAt(q, i)
  BY DEF Service!ToSet, ToSet, Service!RemoveAt, RemoveAt
<1>c. \A T : Service!Cardinality(T) = Cardinality(T)
  BY DEF Service!Cardinality, Cardinality
<1>1. CASE UNCHANGED <<Line, Serving, TurnedAway, result>>
  BY <1>1 DEF Service!vars
<1>2. ASSUME NEW t \in Task,
             t \notin ToSet(Line) \cup Serving \cup TurnedAway, result[t] = "none",
             Line' = Append(Line, t), UNCHANGED <<Serving, TurnedAway, result>>
      PROVE  Service!Join(t)
  BY <1>0, <1>2 DEF Service!Join, Service!Fresh
<1>3. ASSUME NEW t \in Task,
             t \notin ToSet(Line) \cup Serving \cup TurnedAway, result[t] = "none",
             TurnedAway' = TurnedAway \cup {t}, UNCHANGED <<Line, Serving, result>>
      PROVE  Service!TurnAway(t)
  BY <1>0, <1>3 DEF Service!TurnAway, Service!Fresh
<1>4. ASSUME NEW t \in Task, t \in Serving, Serving' = Serving \ {t},
             NEW o \in Answer, result' = [result EXCEPT ![t] = o],
             UNCHANGED <<Line, TurnedAway>>
      PROVE  Service!Finish(t)
  BY <1>4 DEF Service!Finish, Service!Outcome, Answer
<1>5. ASSUME NEW i \in 1 .. Len(Line), i > QueueSize, Line' = RemoveAt(Line, i),
             TurnedAway' = TurnedAway \cup {Line[i]}, UNCHANGED <<Serving, result>>
      PROVE  Service!GiveUp(i)
  BY <1>0, <1>5 DEF Service!GiveUp
<1>6. ASSUME Len(Line) > QueueSize, Line' = SubSeq(Line, 1, QueueSize),
             TurnedAway' = TurnedAway \cup ToSet(SubSeq(Line, QueueSize + 1, Len(Line))),
             UNCHANGED <<Serving, result>>
      PROVE  Service!StopAdmitting
  BY <1>0, <1>6 DEF Service!StopAdmitting
<1>7. ASSUME Line # <<>>, Cardinality(Serving) < Cardinality(Worker),
             Serving' = Serving \cup {Head(Line)}, Line' = Tail(Line),
             UNCHANGED <<TurnedAway, result>>
      PROVE  Service!Serve
  BY <1>c, <1>7 DEF Service!Serve
<1> QED
  BY <1>1, <1>2, <1>3, <1>4, <1>5, <1>6, <1>7, Zenon DEF Service!Next

(* Every step of the queue is a step of the service, or changes nothing     *)
(* the service is about.                                                    *)
LEMMA ServiceStep ==
    ASSUME IInv, SafePlaces, [Next]_vars
    PROVE  [Service!Next]_Service!vars
<1> USE DEF HandlerTo, WorkerTo, taskVars, chanVars, workerVars
<1>0. /\ queue \in Seq(Task) /\ Len(queue) <= QueueSize /\ Len(queue) \in Nat
      /\ sendq \in Seq(Task) /\ IsInjective(sendq) /\ IsInjective(queue)
      /\ handler \in [Task -> HandlerPC]
      /\ wpc \in [Worker -> WorkerPC] /\ wtask \in [Worker -> Task \cup {NoTask}]
  BY LenProperties DEF IInv, TypeOK, OnePlace
<1>s. queue \in Seq(Task) /\ sendq \in Seq(Task)
  BY <1>0
<1>1. CASE UNCHANGED <<queue, sendq, wpc, wtask, handler, result>>
  <2>1. UNCHANGED <<Line, Serving, TurnedAway, result>>
    BY <1>1 DEF Line, Serving, AtWork, TurnedAway
  <2> QED
    BY <2>1, StepsOfService
<1>2. ASSUME \/ \E t \in Task : \/ CreateStored(t) \/ CreateUnstored(t) \/ CountSubmission(t)
                                \/ WaitStep(t) \/ Expire(t)
             \/ \E w \in Worker : \/ BeginTask(w) \/ SetProcessing(w) \/ Recognize(w)
                                  \/ Retire(w) \/ WorkerExit(w)
      PROVE  [Service!Next]_Service!vars
  <2>1. UNCHANGED Line /\ UNCHANGED TurnedAway
    BY <1>2, QuietHandlers DEF Line, TurnedAway
  <2>2. UNCHANGED result
    BY <1>2 DEF CreateStored, CreateUnstored, CountSubmission, WaitStep, WaitTakesResult,
       WaitTakesDone, WaitParks, Expire, BeginTask, SetProcessing, Recognize, Retire, WorkerExit
  <2>3. ASSUME NEW t \in Task,
               CreateStored(t) \/ CreateUnstored(t) \/ CountSubmission(t) \/ WaitStep(t) \/ Expire(t)
        PROVE  UNCHANGED Serving
    <3>1. UNCHANGED <<wpc, wtask>>
      BY <2>3 DEF CreateStored, CreateUnstored, CountSubmission, WaitStep, WaitTakesResult,
         WaitTakesDone, WaitParks, Expire, WakeWait
    <3> QED
      BY <3>1 DEF Serving, AtWork
  <2>4. ASSUME NEW w \in Worker,
               BeginTask(w) \/ SetProcessing(w) \/ Recognize(w) \/ Retire(w) \/ WorkerExit(w)
        PROVE  UNCHANGED Serving
    <3>1. AtWork' = AtWork
      BY <1>0, <2>4 DEF AtWork, Unfinished, BeginTask, SetProcessing, Recognize, Retire, WorkerExit
    <3>2. \A v \in AtWork : wtask'[v] = wtask[v]
      BY <1>0, <2>4 DEF AtWork, Unfinished, BeginTask, SetProcessing, Recognize, Retire, WorkerExit
    <3> QED
      BY <3>1, <3>2 DEF Serving
  <2>5. UNCHANGED Serving
    BY <1>2, <2>3, <2>4
  <2> QED
    BY <2>1, <2>2, <2>5, StepsOfService
<1>3. ASSUME NEW t \in Task, handler[t] = "counted"
      PROVE  t \notin ToSet(Line) \cup Serving \cup TurnedAway /\ result[t] = "none"
  <2>1. handler[t] \notin Submitted /\ handler[t] \notin {"parked", "refused", "panicked"}
    BY <1>3 DEF Submitted
  <2>2. ToSet(Line) = ToSet(queue) \cup ToSet(sendq)
    BY <1>s, ConcatSet DEF Line
  <2>3. t \notin ToSet(Line) /\ \A w \in Worker : wtask[w] # t
    BY <2>1, <2>2, Unsubmitted DEF InQueue, InSendq
  <2> QED
    BY <2>1, <2>3 DEF Serving, AtWork, TurnedAway, IInv, Placement, FieldPlacement
<1>4. ASSUME NEW t \in Task, Send(t) PROVE [Service!Next]_Service!vars
  <2>1. /\ handler[t] = "counted" /\ queue' = Append(queue, t) /\ sendq' = sendq
        /\ handler' = [handler EXCEPT ![t] = "accepted"]
        /\ UNCHANGED <<result, wpc, wtask>>
    BY <1>4 DEF Send
  <2>2. sendq = <<>>
    BY <1>0, <1>4, QueueSizeAssumption DEF Send, BufferFull, SafePlaces
  <2>3. Line' = Append(Line, t)
    <3>1. Append(queue, t) \in Seq(Task)
      BY <1>0, AppendProperties
    <3>2. Append(queue, t) \o <<>> = Append(queue, t) /\ queue \o <<>> = queue
      BY <1>s, <3>1, ConcatEmptySeq
    <3> QED
      BY <2>1, <2>2, <3>2 DEF Line
  <2>4. UNCHANGED <<Serving, TurnedAway, result>>
    BY <1>0, <2>1 DEF Serving, AtWork, TurnedAway
  <2> QED
    BY <1>3, <2>1, <2>3, <2>4, StepsOfService
<1>5. ASSUME NEW t \in Task, Park(t) PROVE [Service!Next]_Service!vars
  <2>1. /\ handler[t] = "counted" /\ sendq' = Append(sendq, t) /\ queue' = queue
        /\ handler' = [handler EXCEPT ![t] = "parked"]
        /\ UNCHANGED <<result, wpc, wtask>>
    BY <1>5 DEF Park
  <2>2. Line' = Append(Line, t)
    BY <1>s, <2>1, AppendToSecond DEF Line
  <2>3. UNCHANGED <<Serving, TurnedAway, result>>
    BY <1>0, <2>1 DEF Serving, AtWork, TurnedAway
  <2> QED
    BY <1>3, <2>1, <2>2, <2>3, StepsOfService
<1>6. ASSUME NEW t \in Task, GiveUp(t) PROVE [Service!Next]_Service!vars
  <2>1. PICK i \in 1 .. Len(sendq) : sendq[i] = t /\ sendq' = RemoveAt(sendq, i)
    BY <1>6 DEF GiveUp, Unpark
  <2>2. /\ queue' = queue /\ handler' = [handler EXCEPT ![t] = "refused"]
        /\ UNCHANGED <<result, wpc, wtask>>
    BY <1>6 DEF GiveUp
  <2>3. Len(queue) = QueueSize
    BY <1>0, <2>1, EmptySeq DEF SafePlaces
  <2> DEFINE k == Len(queue) + i
  <2>4. k \in 1 .. Len(Line) /\ Line[k] = t /\ Line' = RemoveAt(Line, k)
    BY <1>s, <2>1, <2>2, RemoveFromSecond DEF Line
  <2>5. k > QueueSize
    BY <1>0, <2>3
  <2>6. TurnedAway' = TurnedAway \cup {t} /\ UNCHANGED <<Serving, result>>
    BY <1>0, <2>2 DEF Serving, AtWork, TurnedAway
  <2> HIDE DEF k
  <2> QED
    BY <2>4, <2>5, <2>6, StepsOfService
<1>7. ASSUME NEW t \in Task, SendOnClosed(t) PROVE [Service!Next]_Service!vars
  <2>1. /\ handler[t] = "counted" /\ handler' = [handler EXCEPT ![t] = "panicked"]
        /\ UNCHANGED <<queue, sendq, result, wpc, wtask>>
    BY <1>7 DEF SendOnClosed
  <2>2. TurnedAway' = TurnedAway \cup {t} /\ UNCHANGED <<Line, Serving, result>>
    BY <1>0, <2>1 DEF Line, Serving, AtWork, TurnedAway
  <2> QED
    BY <1>3, <2>1, <2>2, StepsOfService
<1>8. ASSUME NEW w \in Worker, Take(w) PROVE [Service!Next]_Service!vars
  <2>1. /\ wpc[w] = "idle" /\ queue # <<>> /\ wpc' = [wpc EXCEPT ![w] = "taken"]
        /\ wtask' = [wtask EXCEPT ![w] = Head(queue)] /\ UNCHANGED result
    BY <1>8 DEF Take
  <2>2. Line # <<>> /\ Head(Line) = Head(queue) /\ Tail(Line) = Tail(queue) \o sendq
    BY <1>s, <2>1, TailOfFirst DEF Line
  <2>3. Line' = Tail(Line)
    <3>1. CASE sendq = <<>>
      BY <1>8, <2>2, <3>1 DEF Take, Line
    <3>2. CASE sendq # <<>>
      <4>1. Tail(queue) \in Seq(Task)
        BY <1>s, <2>1, HeadTailProperties
      <4>2. Append(Tail(queue), Head(sendq)) \o Tail(sendq) = Tail(queue) \o sendq
        BY <1>s, <3>2, <4>1, HeadMoves
      <4>3. queue' = Append(Tail(queue), Head(sendq)) /\ sendq' = Tail(sendq)
        BY <1>8, <3>2 DEF Take
      <4> QED
        BY <2>2, <4>2, <4>3 DEF Line
    <3> QED
      BY <3>1, <3>2
  <2>4. Serving' = Serving \cup {Head(queue)}
    <3>1. AtWork' = AtWork \cup {w} /\ w \notin AtWork
      BY <1>0, <2>1 DEF AtWork, Unfinished
    <3>2. wtask'[w] = Head(queue) /\ \A v \in AtWork : wtask'[v] = wtask[v]
      BY <1>0, <2>1, <3>1 DEF AtWork
    <3> QED
      BY <3>1, <3>2 DEF Serving
  <2>5. UNCHANGED TurnedAway
    <3>1. CASE sendq = <<>>
      BY <1>8, <3>1 DEF Take, TurnedAway
    <3>2. CASE sendq # <<>>
      <4>1. Head(sendq) \in Task /\ handler[Head(sendq)] = "parked"
        BY <1>0, <3>2, TailInjective DEF IInv, Placement, ChannelPlacement, InSendq
      <4>2. handler' = [handler EXCEPT ![Head(sendq)] = "accepted"]
        BY <1>8, <3>2 DEF Take
      <4> QED
        BY <1>0, <4>1, <4>2 DEF TurnedAway
    <3> QED
      BY <3>1, <3>2
  <2>6. Cardinality(Serving) < Cardinality(Worker)
    BY <2>1, IdleWorker
  <2> QED
    BY <2>1, <2>2, <2>3, <2>4, <2>5, <2>6, StepsOfService
<1>9. ASSUME NEW w \in Worker, Record(w) PROVE [Service!Next]_Service!vars
  <2>1. /\ wpc[w] = "decoded" /\ wpc' = [wpc EXCEPT ![w] = "recorded"]
        /\ result' = [result EXCEPT ![wtask[w]] = wres[w]] /\ UNCHANGED wtask
    BY <1>9 DEF Record, RecordResult
  <2>2. wtask[w] \in Task /\ wres[w] \in Answer
    BY <1>0, <2>1 DEF IInv, Placement, WorkerPlacement
  <2>3. UNCHANGED <<Line, TurnedAway>>
    BY <1>9, QuietHandlers DEF Line, TurnedAway
  <2>4. AtWork' = AtWork \ {w} /\ w \in AtWork
    BY <1>0, <2>1 DEF AtWork, Unfinished
  <2>5. wtask[w] \in Serving /\ Serving' = Serving \ {wtask[w]}
    <3>1. \A v \in AtWork : v # w => wtask[v] # wtask[w]
      BY <2>2, TaskAssumption DEF IInv, OnePlace, AtWork
    <3> QED
      BY <2>1, <2>4, <3>1 DEF Serving
  <2> QED
    BY <2>1, <2>2, <2>3, <2>5, StepsOfService
<1>10. ASSUME NEW w \in Worker, Deliver(w) \/ Release(w) PROVE [Service!Next]_Service!vars
  <2>1. /\ UNCHANGED <<queue, sendq, result, wtask>>
        /\ wpc[w] \in {"recorded", "delivered"} /\ wpc'[w] \in {"delivered", "completed"}
        /\ \A v \in Worker : v # w => wpc'[v] = wpc[v]
    BY <1>0, <1>10, OnlyWaitMoves
  <2>2. UNCHANGED <<Line, TurnedAway>>
    BY <1>10, QuietHandlers DEF Line, TurnedAway
  <2>3. AtWork' = AtWork
    BY <2>1 DEF AtWork, Unfinished
  <2> QED
    BY <2>1, <2>2, <2>3, StepsOfService DEF Serving
<1>11. CASE CloseQueue
  <2>1. /\ \A t \in Task : handler'[t] = IF handler[t] = "parked" THEN "panicked" ELSE handler[t]
        /\ sendq' = <<>> /\ UNCHANGED <<queue, result, wpc, wtask>>
    BY <1>11 DEF CloseQueue
  <2>2. UNCHANGED <<Serving, result>>
    BY <2>1 DEF Serving, AtWork
  <2>3. Line' = queue
    BY <1>s, <2>1, ConcatEmptySeq DEF Line
  <2>4. TurnedAway' = TurnedAway \cup ToSet(sendq)
    <3>1. ToSet(sendq) \subseteq Task
      BY ChannelTasks DEF IInv
    <3>2. \A t \in Task : t \in ToSet(sendq) <=> handler[t] = "parked"
      BY DEF SafePlaces, InSendq, IInv, Placement, ChannelPlacement
    <3> QED
      BY <2>1, <3>1, <3>2 DEF TurnedAway
  <2>5. CASE sendq = <<>>
    <3>1. ToSet(sendq) = {}
      BY <2>5 DEF ToSet
    <3>2. Line = queue
      BY <1>s, <2>5, ConcatEmptySeq DEF Line
    <3> QED
      BY <2>2, <2>3, <2>4, <3>1, <3>2, StepsOfService
  <2>6. CASE sendq # <<>>
    <3>1. Len(queue) = QueueSize
      BY <2>6 DEF SafePlaces
    <3>2. Len(Line) = Len(queue) + Len(sendq) /\ Len(sendq) \in Nat \ {0}
      BY <1>s, <2>6, ConcatProperties, LenProperties, EmptySeq DEF Line
    <3>3. /\ SubSeq(Line, 1, QueueSize) = queue
          /\ SubSeq(Line, QueueSize + 1, Len(Line)) = sendq
      BY <1>s, <3>1, CutApart DEF Line
    <3>4. Len(Line) > QueueSize
      BY <1>0, <3>1, <3>2
    <3> QED
      BY <2>2, <2>3, <2>4, <3>3, <3>4, StepsOfService
  <2> QED
    BY <2>5, <2>6
<1> QED
  BY <1>1, <1>2, <1>4, <1>5, <1>6, <1>7, <1>8, <1>9, <1>10, <1>11,
     ServiceSteps DEF SubmitStep, WorkerStep

(* The initial states of the queue are initial states of the service. *)
LEMMA ServiceInit == Init => Service!Init
<1> SUFFICES ASSUME Init PROVE Service!Init
  OBVIOUS
<1>1. queue \o sendq = <<>>
  <2>1. queue \in Seq(Task) /\ queue = <<>> /\ sendq = <<>>
    BY DEF Init
  <2> QED
    BY <2>1, ConcatEmptySeq
<1> QED
  BY <1>1 DEF Init, Service!Init, Unfinished

(* The task queue keeps the promise of TaskService: one line in the order   *)
(* of arrival whose first QueueSize places are only left to be served, in   *)
(* that order; at most one task served per worker; one outcome per task.    *)
THEOREM QueueImplementsService == Spec => ImplementsService
<1>1. Init => SafePlaces
  BY DEF Init, SafePlaces
<1>2. IInv /\ SafePlaces /\ [Next]_vars => SafePlaces'
  BY SafePlacesStep
<1>3. IInv /\ SafePlaces /\ [Next]_vars => [Service!Next]_Service!vars
  BY ServiceStep
<1> QED
  BY Inductive, ServiceInit, <1>1, <1>2, <1>3, PTL DEF Spec, ImplementsService, Service!Spec

-----------------------------------------------------------------------------
(* The counters.                                                            *)

(* The requests made, and those whose submission was counted. *)
Made    == {t \in Task : handler[t] # "absent"}
Counted == {t \in Task : handler[t] \in HandlerPC \ {"absent", "built"}}

(* The submissions counted as queued that are not in the channel's buffer. *)
Outside == {t \in Task : handler[t] \in {"counted", "parked", "panicked"}}

(* The workers that have not begun with their task, and those that have. *)
Fetched == {w \in Worker : wpc[w] \in {"taken"}}
Busy    == {w \in Worker : wpc[w] \in {"begun", "running", "decoded", "recorded",
                                   "delivered", "completed"}}

(* The tasks with result r that no worker holds any more. *)
Retired(r) ==
    {t \in {u \in Task : result[u] # "none"} \ {wtask[w] : w \in Worker} : result[t] = r}

(* StatsLedger in these words, with the finiteness it needs. *)
Books ==
    /\ IsFiniteSet(Made)
    /\ stats["total"] = Cardinality(Counted)
    /\ stats["queued"] = Cardinality(Outside) + Len(queue) + Cardinality(Fetched)
    /\ stats["processing"] = Cardinality(Busy)
    /\ stats["completed"] = Cardinality(Retired("ok"))
    /\ stats["failed"] = Cardinality(Retired("err"))

(* The books are the ledger, in other words. *)
LEMMA BooksAreLedger == Books => StatsLedger
  BY DEF Books, StatsLedger, Counted, Outside, Fetched, Busy, Retired

(* Adding an element to a finite set, or removing one, changes its size by one. *)
LEMMA OneMore ==
    ASSUME NEW S, NEW x, IsFiniteSet(S)
    PROVE  /\ IsFiniteSet(S \cup {x}) /\ IsFiniteSet(S \ {x})
           /\ Cardinality(S) \in Nat
           /\ x \notin S => Cardinality(S \cup {x}) = Cardinality(S) + 1
           /\ x \in S => Cardinality(S \ {x}) = Cardinality(S) - 1
  BY FS_AddElement, FS_RemoveElement, FS_CardinalityType

(* All the sets that are counted are finite. *)
LEMMA FiniteBooks ==
    ASSUME IInv, IsFiniteSet(Made)
    PROVE  /\ IsFiniteSet(Counted) /\ IsFiniteSet(Outside)
           /\ IsFiniteSet(Fetched) /\ IsFiniteSet(Busy)
           /\ \A r : IsFiniteSet(Retired(r))
           /\ Cardinality(Counted) \in Nat /\ Cardinality(Outside) \in Nat
           /\ Cardinality(Fetched) \in Nat /\ Cardinality(Busy) \in Nat
           /\ \A r : Cardinality(Retired(r)) \in Nat
           /\ Len(queue) \in Nat
<1>1. Counted \subseteq Made /\ Outside \subseteq Made
  BY DEF Counted, Outside, Made
<1>2. \A r : Retired(r) \subseteq Made
  BY DEF Retired, Made, IInv, Placement, FieldPlacement, Submitted
<1>3. Fetched \subseteq Worker /\ Busy \subseteq Worker
  BY DEF Fetched, Busy
<1>4. /\ IsFiniteSet(Counted) /\ IsFiniteSet(Outside)
      /\ IsFiniteSet(Fetched) /\ IsFiniteSet(Busy)
  BY <1>1, <1>3, FS_Subset, WorkerAssumption
<1>5. ASSUME NEW r PROVE IsFiniteSet(Retired(r))
  BY <1>2, FS_Subset
<1>6. Len(queue) \in Nat
  BY LenProperties DEF IInv, TypeOK
<1> QED
  BY <1>4, <1>5, <1>6, FS_CardinalityType

(* A step that moves nobody between the counted sets and leaves the         *)
(* counters alone keeps the books; new requests may be made.                *)
LEMMA NothingToBook ==
    ASSUME Books, IsFiniteSet(Made)', UNCHANGED stats, Len(queue') = Len(queue),
           Counted' = Counted, Outside' = Outside, Fetched' = Fetched, Busy' = Busy,
           Retired("ok")' = Retired("ok"), Retired("err")' = Retired("err")
    PROVE  Books'
  BY DEF Books

(* The steps that change something the books are about. *)
LEMMA BookedSteps ==
    ASSUME [Next]_vars
    PROVE  \/ UNCHANGED <<stats, handler, wpc, wtask, result, queue>>
           \/ \E t \in Task : \/ CreateStored(t) \/ CreateUnstored(t)
                              \/ SubmitStep(t) \/ WaitStep(t) \/ Expire(t)
           \/ \E w \in Worker : WorkerStep(w)
           \/ CloseQueue
  BY DEF Next, CleanerStep, CloseStep, vars, taskVars, chanVars, workerVars, cleanerVars,
     FindToCancel, Cancel, Age, ReadStatus, StartPass, ReadTime, EndPass, CleanerExit,
     CloseShutdown, CloseReturn

(* The retired tasks depend on the results and on what the workers hold. *)
LEMMA SameRetired ==
    ASSUME UNCHANGED <<result, wtask>>
    PROVE  Retired("ok")' = Retired("ok") /\ Retired("err")' = Retired("err")
  BY DEF Retired

(* A request that is made is in none of the counted sets. *)
LEMMA MakingIsBooked ==
    ASSUME IInv, Books, NEW t \in Task, CreateStored(t) \/ CreateUnstored(t)
    PROVE  Books'
<1>1. /\ handler[t] = "absent" /\ handler' = [handler EXCEPT ![t] = "built"]
      /\ UNCHANGED <<stats, queue, result, wtask, wpc>>
  BY DEF CreateStored, CreateUnstored, HandlerTo, taskVars, chanVars, workerVars
<1>2. Made' = Made \cup {t} /\ Counted' = Counted /\ Outside' = Outside
  BY <1>1 DEF IInv, TypeOK, Made, Counted, Outside
<1>3. Fetched' = Fetched /\ Busy' = Busy
  BY <1>1 DEF Fetched, Busy
<1>4. IsFiniteSet(Made)'
  BY <1>2, OneMore DEF Books
<1> QED
  BY <1>1, <1>2, <1>3, <1>4, SameRetired, NothingToBook

(* The steps of Submit. *)
LEMMA SubmitIsBooked ==
    ASSUME IInv, Books, NEW t \in Task, SubmitStep(t)
    PROVE  Books'
<1> USE DEF HandlerTo, taskVars, chanVars, workerVars
<1>1. UNCHANGED <<result, wtask, wpc>>
  BY DEF SubmitStep, CountSubmission, Send, Park, GiveUp, SendOnClosed
<1>2. Fetched' = Fetched /\ Busy' = Busy
  BY <1>1 DEF Fetched, Busy
<1>3. Retired("ok")' = Retired("ok") /\ Retired("err")' = Retired("err")
  BY <1>1, SameRetired
<1>4. Made' = Made
  <2>1. PICK pc \in HandlerPC \ {"absent"} : handler' = [handler EXCEPT ![t] = pc]
    BY DEF SubmitStep, CountSubmission, Send, Park, GiveUp, SendOnClosed, HandlerPC
  <2>2. handler[t] # "absent"
    BY DEF SubmitStep, CountSubmission, Send, Park, GiveUp, SendOnClosed
  <2> QED
    BY <2>1, <2>2 DEF IInv, TypeOK, Made
<1>5. IsFiniteSet(Made)'
  BY <1>4 DEF Books
<1>6. CASE CountSubmission(t)
  <2>1. /\ stats' = [stats EXCEPT !["total"] = stats["total"] + 1,
                                  !["queued"] = stats["queued"] + 1]
        /\ Len(queue') = Len(queue)
    BY <1>6 DEF CountSubmission
  <2>2. /\ t \notin Counted /\ Counted' = Counted \cup {t}
        /\ t \notin Outside /\ Outside' = Outside \cup {t}
    BY <1>6 DEF CountSubmission, IInv, TypeOK, Counted, Outside, HandlerPC
  <2>3. /\ Cardinality(Counted') = Cardinality(Counted) + 1
        /\ Cardinality(Outside') = Cardinality(Outside) + 1
    BY <2>2, OneMore, FiniteBooks DEF Books
  <2>4. /\ stats'["total"] = stats["total"] + 1 /\ stats'["queued"] = stats["queued"] + 1
        /\ \A c \in {"processing", "completed", "failed"} : stats'[c] = stats[c]
    BY <2>1 DEF IInv, TypeOK, Counter
  <2>5. stats'["queued"] = Cardinality(Outside') + Len(queue') + Cardinality(Fetched')
    BY <1>2, <2>1, <2>3, <2>4, FiniteBooks DEF Books
  <2> QED
    BY <1>2, <1>3, <1>5, <2>3, <2>4, <2>5 DEF Books
<1>7. CASE Send(t)
  <2>1. UNCHANGED stats /\ Len(queue') = Len(queue) + 1
    BY <1>7, AppendProperties DEF Send, IInv, TypeOK
  <2>2. t \in Outside /\ Outside' = Outside \ {t} /\ Counted' = Counted
    BY <1>7 DEF Send, IInv, TypeOK, Counted, Outside, HandlerPC
  <2>3. Cardinality(Outside') = Cardinality(Outside) - 1
    BY <2>2, OneMore, FiniteBooks DEF Books
  <2>4. stats'["queued"] = Cardinality(Outside') + Len(queue') + Cardinality(Fetched')
    BY <1>2, <2>1, <2>3, FiniteBooks DEF Books
  <2> QED
    BY <1>2, <1>3, <1>5, <2>1, <2>2, <2>4 DEF Books
<1>8. CASE Park(t)
  <2>1. Outside' = Outside /\ Counted' = Counted
    BY <1>8 DEF Park, IInv, TypeOK, Counted, Outside, HandlerPC
  <2> QED
    BY <1>2, <1>3, <1>5, <1>8, <2>1, NothingToBook DEF Park
<1>9. CASE GiveUp(t)
  <2>1. stats' = [stats EXCEPT !["queued"] = stats["queued"] - 1] /\ UNCHANGED queue
    BY <1>9 DEF GiveUp, TakeBackCount
  <2>2. t \in Outside /\ Outside' = Outside \ {t} /\ Counted' = Counted
    BY <1>9 DEF GiveUp, IInv, TypeOK, Counted, Outside, HandlerPC
  <2>3. Cardinality(Outside') = Cardinality(Outside) - 1
    BY <2>2, OneMore, FiniteBooks DEF Books
  <2>4. /\ stats'["queued"] = stats["queued"] - 1
        /\ \A c \in {"total", "processing", "completed", "failed"} : stats'[c] = stats[c]
    BY <2>1 DEF IInv, TypeOK, Counter
  <2>5. stats'["queued"] = Cardinality(Outside') + Len(queue') + Cardinality(Fetched')
    BY <1>2, <2>1, <2>3, <2>4, FiniteBooks DEF Books
  <2> QED
    BY <1>2, <1>3, <1>5, <2>2, <2>4, <2>5 DEF Books
<1>10. CASE SendOnClosed(t)
  <2>1. Outside' = Outside /\ Counted' = Counted
    BY <1>10 DEF SendOnClosed, IInv, TypeOK, Counted, Outside, HandlerPC
  <2> QED
    BY <1>2, <1>3, <1>5, <1>10, <2>1, NothingToBook DEF SendOnClosed
<1> QED
  BY <1>6, <1>7, <1>8, <1>9, <1>10 DEF SubmitStep

(* A handler that goes on in Wait stays counted and is not outside. *)
LEMMA WaitIsBooked ==
    ASSUME IInv, Books, NEW t \in Task, WaitStep(t) \/ Expire(t)
    PROVE  Books'
<1>1. UNCHANGED <<stats, queue, result, wtask, wpc>>
  BY DEF WaitStep, WaitTakesResult, WaitTakesDone, WaitParks, Expire, taskVars,
     chanVars, workerVars
<1>2. \/ handler' = handler
      \/ /\ handler[t] \in Submitted
         /\ \E pc \in Submitted : handler' = [handler EXCEPT ![t] = pc]
  BY DEF WaitStep, WaitTakesResult, WaitTakesDone, WaitParks, Expire, WakeWait, HandlerTo,
     Submitted
<1>3. Made' = Made /\ Counted' = Counted /\ Outside' = Outside
  BY <1>2 DEF IInv, TypeOK, Made, Counted, Outside, Submitted, HandlerPC
<1>4. Fetched' = Fetched /\ Busy' = Busy
  BY <1>1 DEF Fetched, Busy
<1> QED
  BY <1>1, <1>3, <1>4, SameRetired, NothingToBook DEF Books

(* A receive takes one task from the queued counter's buffer to its worker; *)
(* the parked sender that follows it goes from outside into the buffer.     *)
LEMMA TakeIsBooked ==
    ASSUME IInv, Books, NEW w \in Worker, Take(w)
    PROVE  Books'
<1>1. /\ wpc[w] = "idle" /\ wpc' = [wpc EXCEPT ![w] = "taken"]
      /\ queue # <<>> /\ UNCHANGED <<stats, result>>
  BY DEF Take, WorkerTo, taskVars
<1>2. /\ w \notin Fetched /\ Fetched' = Fetched \cup {w} /\ Busy' = Busy
  BY <1>1 DEF IInv, TypeOK, Fetched, Busy
<1>3. Cardinality(Fetched') = Cardinality(Fetched) + 1
  BY <1>2, OneMore, FiniteBooks DEF Books
<1>4. /\ queue \in Seq(Task) /\ IsInjective(queue) /\ sendq \in Seq(Task) /\ IsInjective(sendq)
  BY DEF IInv, TypeOK, OnePlace
<1>5. Tail(queue) \in Seq(Task) /\ Len(Tail(queue)) = Len(queue) - 1 /\ Len(queue) \in Nat
  BY <1>1, <1>4, TailInjective, LenProperties
<1>6. Retired("ok")' = Retired("ok") /\ Retired("err")' = Retired("err")
  <2>1. Head(queue) \in Task /\ wtask' = [wtask EXCEPT ![w] = Head(queue)]
        /\ result[Head(queue)] = "none"
    BY TakeFacts DEF IInv, Placement, ChannelPlacement
  <2>2. wtask[w] = NoTask
    BY <1>1 DEF IInv, Placement, WorkerPlacement
  <2>3. ASSUME NEW t \in Task, result[t] # "none"
        PROVE  (\E v \in Worker : wtask'[v] = t) <=> (\E v \in Worker : wtask[v] = t)
    BY <2>1, <2>2, <2>3, TaskAssumption DEF IInv, TypeOK
  <2> QED
    BY <1>1, <2>3 DEF Retired
<1>7. /\ IsFiniteSet(Made)' /\ Counted' = Counted
      /\ Cardinality(Outside') + Len(queue') = Cardinality(Outside) + Len(queue) - 1
  <2>1. CASE sendq = <<>>
    <3>1. handler' = handler /\ queue' = Tail(queue)
      BY <2>1 DEF Take
    <3>2. Made' = Made /\ Counted' = Counted /\ Outside' = Outside
      BY <3>1 DEF Made, Counted, Outside
    <3>3. Cardinality(Outside) \in Nat
      BY FiniteBooks DEF Books
    <3>4. Cardinality(Outside) + (Len(queue) - 1) = Cardinality(Outside) + Len(queue) - 1
      BY <1>5, <3>3
    <3> QED
      BY <1>5, <3>1, <3>2, <3>4 DEF Books
  <2>2. CASE sendq # <<>>
    <3> DEFINE s == Head(sendq)
    <3>1. s \in Task /\ handler[s] = "parked"
      BY <1>4, <2>2, TailInjective DEF IInv, Placement, ChannelPlacement, InSendq
    <3>2. handler' = [handler EXCEPT ![s] = "accepted"] /\ queue' = Append(Tail(queue), s)
      BY <2>2 DEF Take, HandlerTo
    <3> HIDE DEF s
    <3>3. /\ Made' = Made /\ Counted' = Counted
          /\ s \in Outside /\ Outside' = Outside \ {s}
      BY <3>1, <3>2 DEF IInv, TypeOK, Made, Counted, Outside, HandlerPC
    <3>4. Cardinality(Outside') = Cardinality(Outside) - 1 /\ Cardinality(Outside) \in Nat
      BY <3>3, OneMore, FiniteBooks DEF Books
    <3>5. Len(queue') = Len(queue)
      BY <1>5, <3>1, <3>2, AppendProperties
    <3> QED
      BY <1>5, <3>3, <3>4, <3>5 DEF Books
  <2> QED
    BY <2>1, <2>2
<1>8. stats'["queued"] = Cardinality(Outside') + Len(queue') + Cardinality(Fetched')
  <2>1. /\ stats'["queued"] = Cardinality(Outside) + Len(queue) + Cardinality(Fetched)
        /\ Cardinality(Outside) \in Nat /\ Cardinality(Fetched) \in Nat
    BY <1>1, FiniteBooks DEF Books
  <2>2. stats'["queued"] = (Cardinality(Outside) + Len(queue) - 1) + (Cardinality(Fetched) + 1)
    BY <1>5, <2>1
  <2> QED
    BY <1>3, <1>7, <2>2
<1> QED
  BY <1>1, <1>2, <1>6, <1>7, <1>8 DEF Books

(* The steps of processTask. *)
LEMMA RunIsBooked ==
    ASSUME IInv, Books, NEW w \in Worker,
           BeginTask(w) \/ SetProcessing(w) \/ Recognize(w) \/ WorkerExit(w)
    PROVE  Books'
<1> USE DEF WorkerTo, taskVars, chanVars, workerVars
<1>1. UNCHANGED <<queue, handler, result, wtask>>
  BY DEF BeginTask, SetProcessing, Recognize, WorkerExit
<1>2. Made' = Made /\ Counted' = Counted /\ Outside' = Outside
  BY <1>1 DEF Made, Counted, Outside
<1>3. Retired("ok")' = Retired("ok") /\ Retired("err")' = Retired("err")
  BY <1>1, SameRetired
<1>4. CASE BeginTask(w)
  <2>1. stats' = [stats EXCEPT !["queued"] = stats["queued"] - 1,
                               !["processing"] = stats["processing"] + 1]
    BY <1>4 DEF BeginTask
  <2>2. /\ w \in Fetched /\ Fetched' = Fetched \ {w}
        /\ w \notin Busy /\ Busy' = Busy \cup {w}
    BY <1>4 DEF BeginTask, IInv, TypeOK, Fetched, Busy
  <2>3. /\ Cardinality(Fetched') = Cardinality(Fetched) - 1
        /\ Cardinality(Busy') = Cardinality(Busy) + 1
    BY <2>2, OneMore, FiniteBooks DEF Books
  <2>4. /\ stats'["queued"] = stats["queued"] - 1
        /\ stats'["processing"] = stats["processing"] + 1
        /\ \A c \in {"total", "completed", "failed"} : stats'[c] = stats[c]
    BY <2>1 DEF IInv, TypeOK, Counter
  <2>5. stats'["queued"] = Cardinality(Outside') + Len(queue') + Cardinality(Fetched')
    BY <1>1, <1>2, <2>3, <2>4, FiniteBooks DEF Books
  <2> QED
    BY <1>2, <1>3, <2>3, <2>4, <2>5 DEF Books
<1>5. CASE SetProcessing(w) \/ Recognize(w) \/ WorkerExit(w)
  <2>1. Fetched' = Fetched /\ Busy' = Busy
    BY <1>5 DEF SetProcessing, Recognize, WorkerExit, IInv, TypeOK, Fetched, Busy
  <2>2. UNCHANGED stats
    BY <1>5 DEF SetProcessing, Recognize, WorkerExit
  <2> QED
    BY <1>1, <1>2, <1>3, <2>1, <2>2, NothingToBook DEF Books
<1> QED
  BY <1>4, <1>5

(* A task gets its result while its worker still holds it. *)
LEMMA RecordIsBooked ==
    ASSUME IInv, Books, NEW w \in Worker, Record(w)
    PROVE  Books'
<1>1. /\ wpc[w] = "decoded" /\ wpc' = [wpc EXCEPT ![w] = "recorded"]
      /\ result' = [result EXCEPT ![wtask[w]] = wres[w]]
      /\ UNCHANGED <<queue, stats, wtask, handler>>
  BY DEF Record, RecordResult, WorkerTo, chanVars
<1>3. Made' = Made /\ Counted' = Counted /\ Outside' = Outside
  BY <1>1 DEF Made, Counted, Outside
<1>4. Fetched' = Fetched /\ Busy' = Busy
  BY <1>1 DEF IInv, TypeOK, Fetched, Busy
<1>5. Retired("ok")' = Retired("ok") /\ Retired("err")' = Retired("err")
  <2>1. \A t \in Task : t # wtask[w] => result'[t] = result[t]
    BY <1>1 DEF IInv, TypeOK
  <2> QED
    BY <1>1, <2>1 DEF Retired
<1> QED
  BY <1>1, <1>3, <1>4, <1>5, NothingToBook DEF Books

(* The rest of Complete, and the Wait it may wake, move nothing between the *)
(* books.                                                                   *)
LEMMA DeliveryIsBooked ==
    ASSUME IInv, Books, NEW w \in Worker, Deliver(w) \/ Release(w)
    PROVE  Books'
<1>1. /\ UNCHANGED <<queue, stats, wtask, result>>
      /\ wpc[w] \in {"recorded", "delivered"} /\ wpc'[w] \in {"delivered", "completed"}
      /\ \A v \in Worker : v # w => wpc'[v] = wpc[v]
  <2>1. UNCHANGED stats
    BY DEF Deliver, Release
  <2> QED
    BY <2>1, OnlyWaitMoves DEF IInv, TypeOK
<1>2. \A t \in Task : \/ handler'[t] = handler[t]
                      \/ handler[t] = "waiting" /\ handler'[t] = "answered"
  BY OnlyWaitMoves
<1>3. Made' = Made /\ Counted' = Counted /\ Outside' = Outside
  BY <1>2 DEF IInv, TypeOK, Made, Counted, Outside, HandlerPC
<1>4. Fetched' = Fetched /\ Busy' = Busy
  BY <1>1 DEF IInv, TypeOK, Fetched, Busy
<1>5. Retired("ok")' = Retired("ok") /\ Retired("err")' = Retired("err")
  BY <1>1 DEF Retired
<1> QED
  BY <1>1, <1>3, <1>4, <1>5, NothingToBook DEF Books

(* Retiring a task counts it once, by its result. *)
LEMMA RetireIsBooked ==
    ASSUME IInv, Books, NEW w \in Worker, Retire(w)
    PROVE  Books'
<1> DEFINE x == wtask[w]
<1>r. PICK r : r = wres[w]
  OBVIOUS
<1>1. /\ wpc[w] = "completed" /\ wpc' = [wpc EXCEPT ![w] = "idle"]
      /\ wtask' = [wtask EXCEPT ![w] = NoTask]
      /\ UNCHANGED <<queue, handler, result>>
  BY DEF Retire, WorkerTo, taskVars, chanVars
<1>2. x \in Task /\ result[x] = r /\ r \in Answer
  <2>1. wtask[w] # NoTask /\ result[wtask[w]] = wres[w] /\ wres[w] \in Answer
    BY <1>1 DEF IInv, Placement, WorkerPlacement
  <2> QED
    BY <1>r, <2>1 DEF IInv, TypeOK
<1>3. /\ stats'["processing"] = stats["processing"] - 1
      /\ stats'["total"] = stats["total"] /\ stats'["queued"] = stats["queued"]
      /\ stats'["failed"] = IF r = "err" THEN stats["failed"] + 1 ELSE stats["failed"]
      /\ stats'["completed"] = IF r = "err" THEN stats["completed"] ELSE stats["completed"] + 1
  BY <1>r DEF Retire, IInv, TypeOK, Counter
<1>4. Made' = Made /\ Counted' = Counted /\ Outside' = Outside
  BY <1>1 DEF Made, Counted, Outside
<1>5. w \in Busy /\ Busy' = Busy \ {w} /\ Fetched' = Fetched
  BY <1>1 DEF IInv, TypeOK, Fetched, Busy
<1>6. Cardinality(Busy') = Cardinality(Busy) - 1
  BY <1>5, OneMore, FiniteBooks DEF Books
<1>7. \A v \in Worker : v # w => wtask'[v] = wtask[v] /\ wtask[v] # x
  BY <1>1, <1>2, TaskAssumption DEF IInv, TypeOK, OnePlace
<1>8. wtask'[w] = NoTask /\ NoTask # x
  BY <1>1, <1>2, TaskAssumption DEF IInv, TypeOK
<1>9. ASSUME NEW t \in Task
      PROVE  (\E v \in Worker : wtask[v] = t) <=> (t = x \/ \E v \in Worker : wtask'[v] = t)
  <2> HIDE DEF x
  <2>1. wtask[w] = x
    BY DEF x
  <2> QED
    BY <1>7, <1>8, <2>1, TaskAssumption
<1>10. ~ \E v \in Worker : wtask'[v] = x
  BY <1>7, <1>8
<1> HIDE DEF x
<1>11. /\ x \notin Retired(r)
       /\ Retired(r)' = Retired(r) \cup {x}
       /\ \A a : a # r => Retired(a)' = Retired(a)
  <2>1. x \notin Retired(r)
    BY <1>2, <1>9 DEF Retired
  <2>2. ASSUME NEW a, NEW t
        PROVE  t \in Retired(a)' <=> \/ t \in Retired(a)
                                     \/ t = x /\ a = r
    <3>1. t \in Retired(a)' <=> /\ t \in Task /\ result[t] # "none" /\ result[t] = a
                                /\ ~ \E v \in Worker : wtask'[v] = t
      BY <1>1 DEF Retired
    <3>2. t \in Retired(a) <=> /\ t \in Task /\ result[t] # "none" /\ result[t] = a
                               /\ ~ \E v \in Worker : wtask[v] = t
      BY DEF Retired
    <3> QED
      BY <1>2, <1>9, <1>10, <3>1, <3>2 DEF Answer
  <2>3. Retired(r)' = Retired(r) \cup {x}
    <3>1. \A t : t \in Retired(r)' <=> t \in Retired(r) \/ t = x
      BY <2>2
    <3> QED
      BY <3>1
  <2>4. ASSUME NEW a, a # r PROVE Retired(a)' = Retired(a)
    <3>1. \A t : t \in Retired(a)' <=> t \in Retired(a)
      BY <2>2, <2>4
    <3> QED
      BY <3>1
  <2> QED
    BY <2>1, <2>3, <2>4
<1>12. Cardinality(Retired(r)') = Cardinality(Retired(r)) + 1
  BY <1>11, OneMore, FiniteBooks DEF Books
<1>13. /\ stats'["completed"] = Cardinality(Retired("ok")')
       /\ stats'["failed"] = Cardinality(Retired("err")')
  <2>1. CASE r = "ok"
    <3>1. Cardinality(Retired("ok")') = Cardinality(Retired("ok")) + 1
      BY <1>12, <2>1
    <3> QED
      BY <1>3, <1>11, <2>1, <3>1 DEF Books
  <2>2. CASE r = "err"
    <3>1. Cardinality(Retired("err")') = Cardinality(Retired("err")) + 1
      BY <1>12, <2>2
    <3> QED
      BY <1>3, <1>11, <2>2, <3>1 DEF Books
  <2> QED
    BY <1>2, <2>1, <2>2 DEF Answer
<1> QED
  BY <1>1, <1>3, <1>4, <1>5, <1>6, <1>13 DEF Books

(* Closing the channel makes parked senders panic: they stay outside it. *)
LEMMA ClosingIsBooked ==
    ASSUME IInv, Books, CloseQueue
    PROVE  Books'
<1>1. /\ \A t \in Task : handler'[t] = IF handler[t] = "parked" THEN "panicked" ELSE handler[t]
      /\ UNCHANGED <<stats, queue, result, wtask, wpc>>
  BY DEF CloseQueue, taskVars, workerVars
<1>2. Made' = Made /\ Outside' = Outside
  BY <1>1 DEF Made, Outside
<1>3. Counted' = Counted
  BY <1>1 DEF Counted, HandlerPC
<1>4. Fetched' = Fetched /\ Busy' = Busy
  BY <1>1 DEF Fetched, Busy
<1> QED
  BY <1>1, <1>2, <1>3, <1>4, SameRetired, NothingToBook DEF Books

(* Every step keeps the books. *)
LEMMA BooksStep ==
    ASSUME IInv, Books, [Next]_vars
    PROVE  Books'
<1>1. CASE UNCHANGED <<stats, handler, wpc, wtask, result, queue>>
  <2>1. /\ Made' = Made /\ Counted' = Counted /\ Outside' = Outside
        /\ Fetched' = Fetched /\ Busy' = Busy
    BY <1>1 DEF Made, Counted, Outside, Fetched, Busy
  <2> QED
    BY <1>1, <2>1, SameRetired, NothingToBook DEF Books
<1>2. ASSUME NEW t \in Task,
             CreateStored(t) \/ CreateUnstored(t) \/ SubmitStep(t) \/ WaitStep(t) \/ Expire(t)
      PROVE  Books'
  BY <1>2, MakingIsBooked, SubmitIsBooked, WaitIsBooked
<1>3. ASSUME NEW w \in Worker, WorkerStep(w) PROVE Books'
  BY <1>3, TakeIsBooked, RunIsBooked, RecordIsBooked, DeliveryIsBooked, RetireIsBooked
  DEF WorkerStep
<1> QED
  BY <1>1, <1>2, <1>3, BookedSteps, ClosingIsBooked

(* At the start nothing was made, counted, held or retired. *)
LEMMA InitBooks == Init => Books
<1> SUFFICES ASSUME Init PROVE Books
  OBVIOUS
<1>1. /\ Made = {} /\ Counted = {} /\ Outside = {} /\ Fetched = {} /\ Busy = {}
      /\ Retired("ok") = {} /\ Retired("err") = {}
  BY DEF Init, Made, Counted, Outside, Fetched, Busy, Retired
<1>2. IsFiniteSet({}) /\ Cardinality({}) = 0
  BY FS_EmptySet
<1>3. Len(queue) = 0 /\ \A c \in Counter : stats[c] = 0
  BY EmptySeq DEF Init
<1>4. /\ Cardinality(Counted) = 0 /\ Cardinality(Busy) = 0
      /\ Cardinality(Retired("ok")) = 0 /\ Cardinality(Retired("err")) = 0
      /\ IsFiniteSet(Made)
  BY <1>1, <1>2, Zenon
<1>5. Cardinality(Outside) + Len(queue) + Cardinality(Fetched) = 0
  BY <1>1, <1>2, <1>3
<1> QED
  BY <1>3, <1>4, <1>5 DEF Books, Counter

(* The counters of taskQueueStats say how many submissions were made, are   *)
(* queued, are processed and ended each way, at every moment and for any    *)
(* number of requests and workers; the queued counter only keeps, for ever, *)
(* the submissions that panicked on the closed channel.                     *)
THEOREM CountersAreRight == Spec => []StatsLedger
<1>1. IInv /\ Books /\ [Next]_vars => Books'
  BY BooksStep
<1>2. Spec => []Books
  BY Inductive, InitBooks, <1>1, PTL DEF Spec
<1> QED
  BY <1>2, BooksAreLedger, PTL
=============================================================================
