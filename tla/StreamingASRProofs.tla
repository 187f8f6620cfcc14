------------------------- MODULE StreamingASRProofs -------------------------
(***************************************************************************)
(* Theorems about StreamingASR for any set of connections, any texts and   *)
(* any limit on the sessions: the session table, the native streams and    *)
(* the counter agree, no stream is deleted twice, and a client can count   *)
(* on the order and the numbers of the messages it reads.                  *)
(***************************************************************************)
EXTENDS StreamingASR, FiniteSetTheorems, SequenceTheorems, TLAPS

(* A handler that has not created its session has no stream. *)
NewIsFresh == \A c \in Conn : pc[c] \in {"new", "refused"} => stream[c] = "none"

(* The table never outgrows the counter, nor the counter the limit: this is *)
(* what keeps the limit when Close has emptied the table and left the       *)
(* counter as it was.                                                       *)
CounterBounds == Cardinality(sessions) <= activeSessions /\ activeSessions <= MaxSessions

(* The inductive invariant. *)
IInv == TypeOK /\ SlotLedger /\ LeftIsClosed /\ NewIsFresh /\ CounterBounds

(* What SendResults adds to the log is a sequence of messages, and the next *)
(* segment number is a natural number.                                      *)
LEMMA SentMessages ==
    ASSUME TypeOK, NEW c \in Conn
    PROVE  /\ Partials(c) \in Seq(Message)
           /\ Finals(c) \in Seq(Message)
           /\ NextSegment(c) \in Nat
<1>1. result[c] \in Result /\ segmentIdx[c] \in Nat
  BY DEF TypeOK
<1>2. result[c].text # NoText => result[c].text \in Text
  BY <1>1 DEF Result
<1>3. Partials(c) \in Seq(Message)
  <2>1. CASE result[c].text \notin {NoText, lastText[c]}
    <3> DEFINE p == [type |-> "partial", text |-> result[c].text,
                     endpoint |-> result[c].endpoint, segment |-> segmentIdx[c]]
    <3>1. p \in Message
      BY <1>1, <1>2, <2>1 DEF Message, Result
    <3>2. Partials(c) = <<p>>
      BY <2>1 DEF Partials
    <3> HIDE DEF p
    <3> QED
      BY <3>1, <3>2
  <2>2. CASE ~(result[c].text \notin {NoText, lastText[c]})
    BY <2>2 DEF Partials
  <2> QED
    BY <2>1, <2>2
<1>4. Finals(c) \in Seq(Message) /\ Len(Finals(c)) \in Nat
  <2>1. CASE result[c].endpoint /\ result[c].text # NoText
    <3> DEFINE f == [type |-> "result", text |-> result[c].text,
                     endpoint |-> TRUE, segment |-> segmentIdx[c] + 1]
    <3>1. f \in Message
      BY <1>1, <1>2, <2>1 DEF Message
    <3>2. Finals(c) = <<f>>
      BY <2>1 DEF Finals
    <3> HIDE DEF f
    <3> QED
      BY <3>1, <3>2
  <2>2. CASE ~(result[c].endpoint /\ result[c].text # NoText)
    BY <2>2 DEF Finals
  <2> QED
    BY <2>1, <2>2
<1> QED
  BY <1>1, <1>3, <1>4 DEF NextSegment

(* A notice leaves a log of messages. *)
LEMMA NoticeSent ==
    ASSUME TypeOK, NEW c \in Conn, Notify(c)
    PROVE  log' \in [Conn -> Seq(Message)]
<1>1. Notice \in Message
  BY DEF Message
<1>2. Append(log[c], Notice) \in Seq(Message)
  BY <1>1, AppendProperties DEF TypeOK
<1> QED
  BY <1>2 DEF TypeOK, Notify

(* Deleting streams keeps the types. *)
LEMMA DeletedTypes ==
    ASSUME TypeOK, NEW S, Delete(S)
    PROVE  /\ stream' \in [Conn -> {"none", "live", "deleted"}]
           /\ deletions' \in [Conn -> Nat]
  BY DEF TypeOK, Delete

(* Every step keeps the types. *)
LEMMA TypeStep ==
    ASSUME TypeOK, [Next]_vars
    PROVE  TypeOK'
<1> USE DEF HandlerTo, At, tableVars, handlerVars, HandlerPC
<1>1. ASSUME NEW c \in Conn, CreateSession(c) PROVE TypeOK'
  BY <1>1, NoticeSent DEF TypeOK, CreateSession
<1>2. ASSUME NEW c \in Conn, RefuseSession(c) PROVE TypeOK'
  BY <1>2 DEF TypeOK, RefuseSession
<1>3. ASSUME NEW c \in Conn, CloseSession(c) PROVE TypeOK'
  <2>1. CASE c \in sessions
    BY <1>3, <2>1, DeletedTypes DEF TypeOK, CloseSession
  <2>2. CASE c \notin sessions
    BY <1>3, <2>2 DEF TypeOK, CloseSession
  <2> QED
    BY <2>1, <2>2
<1>4. ASSUME NEW c \in Conn, EndProcessAudio(c) PROVE TypeOK'
  BY <1>4 DEF TypeOK, EndProcessAudio, Result
<1>5. ASSUME NEW c \in Conn, SendResults(c) PROVE TypeOK'
  <2>1. log[c] \o Partials(c) \o Finals(c) \in Seq(Message)
    BY SentMessages DEF TypeOK
  <2>2. log' \in [Conn -> Seq(Message)]
    BY <1>5, <2>1 DEF TypeOK, SendResults
  <2>3. segmentIdx' \in [Conn -> Nat]
    BY <1>5, SentMessages DEF TypeOK, SendResults
  <2>4. lastText' \in [Conn -> Text \cup {NoText}] /\ result' \in [Conn -> Result]
    BY <1>5 DEF TypeOK, SendResults, Result, NoResult
  <2> QED
    BY <1>5, <2>2, <2>3, <2>4 DEF TypeOK, SendResults
<1>6. ASSUME NEW c \in Conn, EndReset(c) PROVE TypeOK'
  <2>1. log' \in [Conn -> Seq(Message)]
    BY <1>6, NoticeSent DEF TypeOK, EndReset
  <2> QED
    BY <1>6, <2>1 DEF TypeOK, EndReset, StartOver
<1>7. ASSUME NEW c \in Conn, ReadError(c) PROVE TypeOK'
  BY <1>7 DEF TypeOK, ReadError
<1>8. ASSUME NEW c \in Conn, ReadAudio(c) PROVE TypeOK'
  BY <1>8 DEF TypeOK, ReadAudio, Count
<1>9. ASSUME NEW c \in Conn, ReadReset(c) PROVE TypeOK'
  BY <1>9 DEF TypeOK, ReadReset, Count
<1>10. ASSUME NEW c \in Conn, ReadStop(c) PROVE TypeOK'
  BY <1>10, NoticeSent DEF TypeOK, ReadStop
<1>11. ASSUME NEW c \in Conn, Disconnect(c) PROVE TypeOK'
  BY <1>11 DEF TypeOK, Disconnect
<1>12. ASSUME NEW c \in Conn, CloseSessionByAdmin(c) PROVE TypeOK'
  BY <1>12, DeletedTypes DEF TypeOK, CloseSessionByAdmin
<1>13. ASSUME Close PROVE TypeOK'
  BY <1>13, DeletedTypes DEF TypeOK, Close
<1>14. ASSUME Crash PROVE TypeOK'
  BY <1>14 DEF TypeOK, Crash
<1>15. ASSUME UNCHANGED vars PROVE TypeOK'
  BY <1>15 DEF TypeOK, vars
<1>16. ASSUME NEW c \in Conn, ReadGarbage(c) PROVE TypeOK'
  BY <1>16 DEF TypeOK, ReadGarbage
<1> QED
  BY <1>1, <1>2, <1>3, <1>4, <1>5, <1>6, <1>7, <1>8, <1>9, <1>10, <1>11, <1>12, <1>13, <1>14,
     <1>15, <1>16 DEF Next, HandlerStep, ClientStep

(* The parts of the invariant about the table. *)
TableInv == SlotLedger /\ LeftIsClosed /\ NewIsFresh /\ CounterBounds

(* Every step keeps the table, the streams and the counter in agreement.    *)
LEMMA TableStep ==
    ASSUME IInv, [Next]_vars
    PROVE  TableInv'
<1> USE DEF HandlerTo, At, Delete
<1>0. /\ IsFiniteSet(sessions)
      /\ Cardinality(sessions) \in Nat
      /\ activeSessions \in Int
      /\ MaxSessions \in Nat
  BY FS_Subset, FS_CardinalityType, ConnAssumption, BoundAssumption DEF IInv, TypeOK
<1>1. ASSUME NEW c \in Conn, CreateSession(c) PROVE TableInv'
  <2>1. c \notin sessions /\ stream[c] = "none"
    BY <1>1 DEF CreateSession, IInv, SlotLedger, NewIsFresh
  <2>2. Cardinality(sessions') = Cardinality(sessions) + 1
    BY <1>0, <1>1, <2>1, FS_AddElement DEF CreateSession
  <2>3. activeSessions' = activeSessions + 1 /\ activeSessions < MaxSessions
    BY <1>0, <1>1 DEF CreateSession, AtLimit
  <2>4. SlotLedger' /\ CounterBounds'
    <3>1. sessions' = {d \in Conn : stream'[d] = "live"}
      BY <1>1 DEF CreateSession, IInv, TypeOK, SlotLedger
    <3>2. managerOpen' => activeSessions' = Cardinality(sessions')
      BY <1>0, <1>1, <2>2, <2>3 DEF CreateSession, IInv, SlotLedger
    <3>3. Cardinality(sessions') <= activeSessions' /\ activeSessions' <= MaxSessions
      BY <1>0, <2>2, <2>3 DEF IInv, CounterBounds
    <3> QED
      BY <1>0, <2>2, <2>3, <3>1, <3>2, <3>3 DEF SlotLedger, CounterBounds
  <2>5. LeftIsClosed' /\ NewIsFresh'
    BY <1>1 DEF CreateSession, IInv, TypeOK, LeftIsClosed, NewIsFresh
  <2> QED
    BY <2>4, <2>5 DEF TableInv

<1>2. ASSUME NEW c \in Conn, CloseSession(c), c \in sessions PROVE TableInv'
  <2>1. /\ sessions' = sessions \ {c}
        /\ Cardinality(sessions') = Cardinality(sessions) - 1
        /\ activeSessions' = activeSessions - 1
    BY <1>0, <1>2, FS_RemoveElement DEF CloseSession
  <2>2. sessions' = {d \in Conn : stream'[d] = "live"}
    BY <1>2, <2>1 DEF CloseSession, IInv, TypeOK, SlotLedger
  <2>3. SlotLedger' /\ CounterBounds'
    BY <1>0, <1>2, <2>1, <2>2 DEF CloseSession, IInv, SlotLedger, CounterBounds
  <2>4. c \in sessions /\ stream[c] = "live"
    BY <1>2 DEF CloseSession, IInv, SlotLedger
  <2>5. LeftIsClosed' /\ NewIsFresh'
    BY <1>2, <2>1, <2>4 DEF CloseSession, IInv, TypeOK, LeftIsClosed, NewIsFresh, handlerVars
  <2> QED
    BY <2>3, <2>5 DEF TableInv
<1>3. ASSUME NEW c \in Conn, CloseSession(c), c \notin sessions PROVE TableInv'
  BY <1>3 DEF CloseSession, IInv, TypeOK, TableInv, SlotLedger, LeftIsClosed, NewIsFresh,
              CounterBounds
<1>4. ASSUME NEW c \in Conn, CloseSessionByAdmin(c) PROVE TableInv'
  <2>1. /\ sessions' = sessions \ {c}
        /\ Cardinality(sessions') = Cardinality(sessions) - 1
        /\ activeSessions' = activeSessions - 1
    BY <1>0, <1>4, FS_RemoveElement DEF CloseSessionByAdmin
  <2>2. sessions' = {d \in Conn : stream'[d] = "live"}
    BY <1>4, <2>1 DEF CloseSessionByAdmin, IInv, TypeOK, SlotLedger
  <2>3. SlotLedger' /\ CounterBounds'
    BY <1>0, <1>4, <2>1, <2>2 DEF CloseSessionByAdmin, IInv, SlotLedger, CounterBounds
  <2>4. c \in sessions /\ stream[c] = "live"
    BY <1>4 DEF CloseSessionByAdmin, IInv, SlotLedger
  <2>5. LeftIsClosed' /\ NewIsFresh'
    BY <1>4, <2>1, <2>4 DEF CloseSessionByAdmin, IInv, TypeOK, LeftIsClosed, NewIsFresh, handlerVars
  <2> QED
    BY <2>3, <2>5 DEF TableInv
<1>5. ASSUME Close PROVE TableInv'
  <2>1. sessions' = {} /\ Cardinality(sessions') = 0
    BY <1>5, FS_EmptySet DEF Close
  <2>2. sessions' = {d \in Conn : stream'[d] = "live"}
    BY <1>5, <2>1 DEF Close, IInv, SlotLedger
  <2>3. 0 <= activeSessions' /\ activeSessions' <= MaxSessions /\ ~managerOpen'
    BY <1>0, <1>5 DEF Close, IInv, CounterBounds
  <2>4. LeftIsClosed' /\ NewIsFresh'
    BY <1>5, <2>1 DEF Close, IInv, TypeOK, LeftIsClosed, NewIsFresh, SlotLedger, handlerVars
  <2> QED
    BY <1>0, <2>1, <2>2, <2>3, <2>4 DEF TableInv, SlotLedger, CounterBounds
<1>6. ASSUME NEW c \in Conn, RefuseSession(c) PROVE TableInv'
  BY <1>6 DEF RefuseSession, IInv, TypeOK, TableInv, SlotLedger, LeftIsClosed, NewIsFresh,
              CounterBounds, tableVars
<1>7. ASSUME NEW c \in Conn, EndProcessAudio(c) PROVE TableInv'
  BY <1>7 DEF EndProcessAudio, IInv, TypeOK, TableInv, SlotLedger, LeftIsClosed, NewIsFresh,
              CounterBounds, tableVars
<1>8. ASSUME NEW c \in Conn, SendResults(c) PROVE TableInv'
  BY <1>8 DEF SendResults, IInv, TypeOK, TableInv, SlotLedger, LeftIsClosed, NewIsFresh,
              CounterBounds, tableVars
<1>9. ASSUME NEW c \in Conn, EndReset(c) PROVE TableInv'
  BY <1>9 DEF EndReset, IInv, TypeOK, TableInv, SlotLedger, LeftIsClosed, NewIsFresh,
              CounterBounds, tableVars
<1>10. ASSUME NEW c \in Conn, ReadError(c) PROVE TableInv'
  BY <1>10 DEF ReadError, IInv, TypeOK, TableInv, SlotLedger, LeftIsClosed, NewIsFresh,
              CounterBounds, tableVars
<1>11. ASSUME NEW c \in Conn, ReadAudio(c) PROVE TableInv'
  BY <1>11 DEF ReadAudio, IInv, TypeOK, TableInv, SlotLedger, LeftIsClosed, NewIsFresh,
              CounterBounds, tableVars
<1>12. ASSUME NEW c \in Conn, ReadReset(c) PROVE TableInv'
  BY <1>12 DEF ReadReset, IInv, TypeOK, TableInv, SlotLedger, LeftIsClosed, NewIsFresh,
              CounterBounds, tableVars
<1>13. ASSUME NEW c \in Conn, ReadStop(c) PROVE TableInv'
  BY <1>13 DEF ReadStop, IInv, TypeOK, TableInv, SlotLedger, LeftIsClosed, NewIsFresh,
              CounterBounds, tableVars
<1>14. ASSUME NEW c \in Conn, ReadGarbage(c) PROVE TableInv'
  BY <1>14 DEF ReadGarbage, IInv, TypeOK, TableInv, SlotLedger, LeftIsClosed, NewIsFresh,
              CounterBounds, tableVars
<1>15. ASSUME NEW c \in Conn, Disconnect(c) PROVE TableInv'
  BY <1>15 DEF Disconnect, IInv, TypeOK, TableInv, SlotLedger, LeftIsClosed, NewIsFresh,
              CounterBounds, tableVars, handlerVars
<1>16. ASSUME Crash PROVE TableInv'
  BY <1>16 DEF Crash, IInv, TableInv, SlotLedger, LeftIsClosed, NewIsFresh, CounterBounds,
              tableVars, handlerVars
<1>17. ASSUME UNCHANGED vars PROVE TableInv'
  BY <1>17 DEF vars, IInv, TableInv, SlotLedger, LeftIsClosed, NewIsFresh, CounterBounds
<1> QED
  BY <1>1, <1>2, <1>3, <1>4, <1>5, <1>6, <1>7, <1>8, <1>9, <1>10, <1>11, <1>12, <1>13, <1>14,
     <1>15, <1>16, <1>17 DEF Next, HandlerStep, ClientStep

(* The invariant holds in the initial state. *)
LEMMA InitIInv == Init => IInv
<1> SUFFICES ASSUME Init PROVE IInv
  OBVIOUS
<1>1. TypeOK
  <2>1. NoResult \in Result
    BY DEF NoResult, Result
  <2>2. log \in [Conn -> Seq(Message)]
    BY DEF Init
  <2>3. result \in [Conn -> Result]
    BY <2>1 DEF Init
  <2>4. messages \in [Conn -> Nat] /\ deletions \in [Conn -> Nat]
    BY DEF Init
  <2>5. managerOpen \in BOOLEAN /\ crashed \in BOOLEAN
    BY DEF Init
  <2>6. /\ stream \in [Conn -> {"none", "live", "deleted"}]
        /\ pc \in [Conn -> HandlerPC]
        /\ segmentIdx \in [Conn -> Nat]
        /\ lastText \in [Conn -> Text \cup {NoText}]
    BY DEF Init, HandlerPC
  <2>7. sessions \subseteq Conn /\ activeSessions \in Int /\ totalSessions \in Nat /\ gone \subseteq Conn
    BY DEF Init
  <2> QED
    BY <2>2, <2>3, <2>4, <2>5, <2>6, <2>7 DEF TypeOK
<1>2. SlotLedger /\ CounterBounds
  BY FS_EmptySet, BoundAssumption DEF Init, SlotLedger, CounterBounds
<1>3. LeftIsClosed /\ NewIsFresh
  BY DEF Init, LeftIsClosed, NewIsFresh
<1> QED
  BY <1>1, <1>2, <1>3 DEF IInv

(* The invariant is inductive. *)
THEOREM Inductive == Spec => []IInv
<1>1. IInv /\ [Next]_vars => IInv'
  <2> SUFFICES ASSUME IInv, [Next]_vars PROVE IInv'
    OBVIOUS
  <2> QED
    BY TypeStep, TableStep DEF IInv, TableInv
<1> QED
  BY InitIInv, <1>1, PTL DEF Spec

(* Every variable keeps its type (StreamingASRManager, HandleStreamingASR). *)
THEOREM TypeCorrect == Spec => []TypeOK
<1>1. IInv => TypeOK
  BY DEF IInv
<1> QED
  BY Inductive, <1>1, PTL

(* The session table, the native streams and the counter agree and the      *)
(* limit holds, however CreateSession, CloseSession, CloseSessionByAdmin    *)
(* and Close interleave.                                                    *)
THEOREM SlotsAreCounted == Spec => []SlotLedger
<1>1. IInv => SlotLedger
  BY DEF IInv
<1> QED
  BY Inductive, <1>1, PTL

(* A handler that returned holds no session (the deferred CloseSession). *)
THEOREM ReturnedHoldsNothing == Spec => []LeftIsClosed
<1>1. IInv => LeftIsClosed
  BY DEF IInv
<1> QED
  BY Inductive, <1>1, PTL

(* A stream in the table was never deleted, one taken out of it once. *)
DeletionsCounted ==
    \A c \in Conn : deletions[c] = IF stream[c] = "deleted" THEN 1 ELSE 0

(* Only sessions still in the table are deleted, and a connection creates   *)
(* its session once.                                                        *)
LEMMA DeletionStep ==
    ASSUME IInv, DeletionsCounted, [Next]_vars
    PROVE  DeletionsCounted'
<1> USE DEF IInv, TypeOK, At
<1>1. ASSUME NEW S, S \subseteq sessions, Delete(S) PROVE DeletionsCounted'
  <2>1. \A c \in S : c \in Conn /\ stream[c] = "live"
    BY <1>1 DEF SlotLedger
  <2> QED
    BY <1>1, <2>1 DEF Delete, DeletionsCounted
<1>2. CASE UNCHANGED <<stream, deletions>>
  BY <1>2 DEF DeletionsCounted
<1>3. ASSUME NEW c \in Conn, CreateSession(c) PROVE DeletionsCounted'
  BY <1>3 DEF CreateSession, NewIsFresh, DeletionsCounted
<1>4. ASSUME NEW c \in Conn, CloseSession(c) PROVE DeletionsCounted'
  <2>1. CASE c \in sessions
    BY <1>1, <1>4, <2>1 DEF CloseSession
  <2>2. CASE c \notin sessions
    BY <1>2, <1>4, <2>2 DEF CloseSession
  <2> QED
    BY <2>1, <2>2
<1>5. ASSUME NEW c \in Conn, CloseSessionByAdmin(c) PROVE DeletionsCounted'
  BY <1>1, <1>5 DEF CloseSessionByAdmin
<1>6. ASSUME Close PROVE DeletionsCounted'
  BY <1>1, <1>6 DEF Close
<1> QED
  BY <1>2, <1>3, <1>4, <1>5, <1>6
  DEF Next, HandlerStep, ClientStep, Crash, RefuseSession, EndProcessAudio, SendResults,
      EndReset, ReadError, ReadAudio, ReadReset, ReadStop, ReadGarbage, Disconnect, vars,
      tableVars

(* No native stream is deleted twice: CloseSession, CloseSessionByAdmin,    *)
(* called any number of times, and Close all look into the table under the  *)
(* manager's mutex, and each takes out of it what it deletes.               *)
THEOREM StreamsAreDeletedOnce == Spec => []DeletedOnce
<1>1. Init => DeletionsCounted
  BY DEF Init, DeletionsCounted
<1>2. IInv /\ DeletionsCounted /\ [Next]_vars => DeletionsCounted'
  BY DeletionStep
<1>3. DeletionsCounted => DeletedOnce
  BY DEF DeletionsCounted, DeletedOnce
<1> QED
  BY Inductive, <1>1, <1>2, <1>3, PTL DEF Spec

(* The messages of one log: numbered without a gap, and no final result     *)
(* without the same text shown just before it.                              *)
Numbered(l) ==
    \A i \in 1 .. Len(l) : l[i] # Notice =>
        l[i].segment = Cardinality(FinalsBefore(l, i)) + (IF IsFinal(l[i]) THEN 1 ELSE 0)

Shown(l) ==
    \A i \in 1 .. Len(l) :
        IsFinal(l[i]) =>
            i > 1 /\ l[i - 1].type = "partial" /\ l[i - 1].text = l[i].text

FinalsIn(l) == FinalsBefore(l, Len(l) + 1)

(* The client has just been shown the text t. *)
LastShown(l, t) == Len(l) > 0 /\ l[Len(l)].type = "partial" /\ l[Len(l)].text = t

GoodLog(l) == Numbered(l) /\ Shown(l)

(* A handler that may still send results goes through these places. *)
InDialogue == {"reading", "decoding", "decoded", "restarting"}

(* The inductive invariant about the messages.  segmentIdx counts the final *)
(* results, and while the handler may still send one, lastText is the text  *)
(* of the last message and that was a partial result: an endpoint's final   *)
(* message breaks this until Reset has cleared lastText, and the notices    *)
(* come when lastText is empty or the handler leaves.                       *)
LogInv ==
    \A c \in Conn :
        /\ GoodLog(log[c])
        /\ segmentIdx[c] = Cardinality(FinalsIn(log[c]))
        /\ pc[c] \in InDialogue /\ lastText[c] # NoText => LastShown(log[c], lastText[c])
        /\ pc[c] = "new" => lastText[c] = NoText

(* A message added to a good log with the right number, and after the same  *)
(* text when it is a final result, leaves a good log.                       *)
LEMMA OneMessageMore ==
    ASSUME NEW l \in Seq(Message), NEW m \in Message, GoodLog(l),
           m # Notice => m.segment = Cardinality(FinalsIn(l)) + (IF IsFinal(m) THEN 1 ELSE 0),
           IsFinal(m) => LastShown(l, m.text)
    PROVE  /\ Append(l, m) \in Seq(Message)
           /\ GoodLog(Append(l, m))
           /\ Cardinality(FinalsIn(Append(l, m)))
                = Cardinality(FinalsIn(l)) + (IF IsFinal(m) THEN 1 ELSE 0)
           /\ m.type = "partial" => LastShown(Append(l, m), m.text)
<1> DEFINE n == Len(l)
           k == Append(l, m)
<1>1. /\ n \in Nat /\ k \in Seq(Message) /\ Len(k) = n + 1
      /\ \A i \in 1 .. n : k[i] = l[i]
      /\ k[n + 1] = m
  BY AppendProperties, LenProperties
<1> HIDE DEF k
<1>2. \A i \in 1 .. n + 1 : FinalsBefore(k, i) = FinalsBefore(l, i)
  <2> SUFFICES ASSUME NEW i \in 1 .. n + 1
               PROVE  FinalsBefore(k, i) = FinalsBefore(l, i)
    OBVIOUS
  <2>1. \A j \in 1 .. i - 1 : j \in 1 .. n
    BY <1>1
  <2> QED
    BY <1>1, <2>1 DEF FinalsBefore
<1>3. IsFiniteSet(FinalsIn(l)) /\ Cardinality(FinalsIn(l)) \in Nat
  <2>1. FinalsIn(l) \subseteq 1 .. n
    BY <1>1 DEF FinalsIn, FinalsBefore
  <2>2. IsFiniteSet(1 .. n)
    BY <1>1, FS_Interval
  <2> QED
    BY <2>1, <2>2, FS_Subset, FS_CardinalityType
<1>4. Cardinality(FinalsIn(k)) = Cardinality(FinalsIn(l)) + (IF IsFinal(m) THEN 1 ELSE 0)
  <2>1. FinalsIn(k) = {j \in 1 .. n + 1 : IsFinal(k[j])}
    <3>1. (Len(k) + 1) - 1 = n + 1
      BY <1>1
    <3> QED
      BY <3>1 DEF FinalsIn, FinalsBefore
  <2>2. FinalsIn(l) = {j \in 1 .. n : IsFinal(l[j])}
    <3>1. (n + 1) - 1 = n
      BY <1>1
    <3> QED
      BY <3>1 DEF FinalsIn, FinalsBefore
  <2>3. CASE IsFinal(m)
    <3>1. FinalsIn(k) = FinalsIn(l) \cup {n + 1} /\ n + 1 \notin FinalsIn(l)
      BY <1>1, <2>1, <2>2, <2>3
    <3> QED
      BY <1>3, <2>3, <3>1, FS_AddElement
  <2>4. CASE ~IsFinal(m)
    <3>1. FinalsIn(k) = FinalsIn(l)
      BY <1>1, <2>1, <2>2, <2>4
    <3> QED
      BY <1>3, <2>4, <3>1
  <2> QED
    BY <2>3, <2>4
<1>5. Numbered(k)
  <2> SUFFICES ASSUME NEW i \in 1 .. n + 1, k[i] # Notice
               PROVE  k[i].segment = Cardinality(FinalsBefore(k, i))
                                       + (IF IsFinal(k[i]) THEN 1 ELSE 0)
    BY <1>1 DEF Numbered
  <2>1. CASE i = n + 1
    BY <1>1, <1>2, <2>1 DEF FinalsIn
  <2>2. CASE i # n + 1
    <3>1. i \in 1 .. n /\ k[i] = l[i] /\ FinalsBefore(k, i) = FinalsBefore(l, i)
      BY <1>1, <1>2, <2>2
    <3> QED
      BY <3>1 DEF GoodLog, Numbered
  <2> QED
    BY <2>1, <2>2
<1>6. Shown(k)
  <2> SUFFICES ASSUME NEW i \in 1 .. n + 1, IsFinal(k[i])
               PROVE  i > 1 /\ k[i - 1].type = "partial" /\ k[i - 1].text = k[i].text
    BY <1>1 DEF Shown
  <2>1. CASE i = n + 1
    <3>1. LastShown(l, m.text) /\ i - 1 = n
      BY <1>1, <2>1
    <3>2. n \in 1 .. n /\ n > 0
      BY <1>1, <3>1 DEF LastShown
    <3> QED
      BY <1>1, <2>1, <3>1, <3>2 DEF LastShown
  <2>2. CASE i # n + 1
    <3>1. i \in 1 .. n /\ k[i] = l[i]
      BY <1>1, <2>2
    <3>2. i > 1 /\ l[i - 1].type = "partial" /\ l[i - 1].text = l[i].text
      BY <3>1 DEF GoodLog, Shown
    <3>3. i - 1 \in 1 .. n
      BY <1>1, <3>1, <3>2
    <3> QED
      BY <1>1, <3>1, <3>2, <3>3
  <2> QED
    BY <2>1, <2>2
<1>7. m.type = "partial" => LastShown(k, m.text)
  BY <1>1 DEF LastShown
<1> QED
  BY <1>1, <1>4, <1>5, <1>6, <1>7 DEF k, GoodLog

(* What SendResults sends goes on where the log stands: the partial result  *)
(* with the number of the final results before it, then the final result of *)
(* the text just shown, with the next number.                               *)
LEMMA SentInOrder ==
    ASSUME TypeOK, LogInv, NEW c \in Conn, pc[c] = "decoded"
    PROVE  LET sent == log[c] \o Partials(c) \o Finals(c)
               said == IF result[c].text = NoText THEN lastText[c] ELSE result[c].text
           IN  /\ GoodLog(sent)
               /\ NextSegment(c) = Cardinality(FinalsIn(sent))
               /\ ~result[c].endpoint /\ said # NoText => LastShown(sent, said)
<1> DEFINE r == result[c].text
           n == segmentIdx[c]
           p == [type |-> "partial", text |-> r, endpoint |-> result[c].endpoint, segment |-> n]
           f == [type |-> "result", text |-> r, endpoint |-> TRUE, segment |-> n + 1]
           l == log[c]
           shown == l \o Partials(c)
           sent == shown \o Finals(c)
           said == IF r = NoText THEN lastText[c] ELSE r
<1>1. /\ l \in Seq(Message) /\ GoodLog(l) /\ n = Cardinality(FinalsIn(l)) /\ n \in Nat
      /\ lastText[c] # NoText => LastShown(l, lastText[c])
      /\ r \in Text \cup {NoText}
      /\ result[c].endpoint \in BOOLEAN
  BY DEF TypeOK, LogInv, Result, InDialogue
<1>2. CASE r = NoText
  <2>1. Partials(c) = <<>> /\ Finals(c) = <<>>
    BY <1>2 DEF Partials, Finals
  <2>2. sent = l
    BY <1>1, <2>1, ConcatEmptySeq
  <2>3. NextSegment(c) = n
    BY <1>1, <2>1, EmptySeq DEF NextSegment
  <2> QED
    BY <1>1, <1>2, <2>2, <2>3
<1>3. CASE r # NoText
  <2>1. r \in Text
    BY <1>1, <1>3
  <2>2. p \in Message /\ f \in Message
    BY <1>1, <2>1 DEF Message
  <2>3. p.type = "partial" /\ p.text = r /\ p.segment = n /\ ~IsFinal(p)
    BY DEF IsFinal
  <2>4. IsFinal(f) /\ f.text = r /\ f.segment = n + 1
    BY DEF IsFinal
  <2>5. /\ shown \in Seq(Message) /\ GoodLog(shown)
        /\ Cardinality(FinalsIn(shown)) = n /\ LastShown(shown, r)
    <3>1. CASE r = lastText[c]
      <4>1. Partials(c) = <<>>
        BY <3>1 DEF Partials
      <4>2. shown = l
        BY <1>1, <4>1, ConcatEmptySeq
      <4> QED
        BY <1>1, <1>3, <3>1, <4>2
    <3>2. CASE r # lastText[c]
      <4>1. Partials(c) = <<p>>
        BY <1>3, <3>2 DEF Partials
      <4> HIDE DEF p
      <4>2. shown = Append(l, p)
        BY <1>1, <2>2, <4>1, AppendIsConcat
      <4>3. p.segment = Cardinality(FinalsIn(l)) + (IF IsFinal(p) THEN 1 ELSE 0)
        BY <1>1, <2>3
      <4> HIDE DEF l, shown
      <4>4. l \in Seq(Message) /\ GoodLog(l) /\ p \in Message
        BY <1>1, <2>2
      <4>5. /\ Append(l, p) \in Seq(Message) /\ GoodLog(Append(l, p))
            /\ Cardinality(FinalsIn(Append(l, p)))
                 = Cardinality(FinalsIn(l)) + (IF IsFinal(p) THEN 1 ELSE 0)
            /\ LastShown(Append(l, p), p.text)
        BY <2>3, <4>3, <4>4, OneMessageMore
      <4>6. Cardinality(FinalsIn(l)) + (IF IsFinal(p) THEN 1 ELSE 0) = n
        BY <1>1, <2>3, <4>3
      <4> QED
        BY <2>3, <4>2, <4>5, <4>6
    <3> QED
      BY <3>1, <3>2
  <2> HIDE DEF shown, l
  <2>6. CASE ~result[c].endpoint
    <3>1. Finals(c) = <<>>
      BY <2>6 DEF Finals
    <3>2. sent = shown
      BY <2>5, <3>1, ConcatEmptySeq
    <3>3. NextSegment(c) = n
      BY <1>1, <3>1, EmptySeq DEF NextSegment
    <3> QED
      BY <1>3, <2>5, <3>2, <3>3 DEF shown, l
  <2>7. CASE result[c].endpoint
    <3>1. Finals(c) = <<f>>
      BY <1>3, <2>7 DEF Finals
    <3> HIDE DEF f
    <3>2. sent = Append(shown, f)
      BY <2>2, <2>5, <3>1, AppendIsConcat
    <3>3. NextSegment(c) = n + 1
      <4>1. Len(<<f>>) = 1
        OBVIOUS
      <4> QED
        BY <3>1, <4>1 DEF NextSegment
    <3>4. /\ f.segment = Cardinality(FinalsIn(shown)) + (IF IsFinal(f) THEN 1 ELSE 0)
          /\ IsFinal(f) => LastShown(shown, f.text)
      BY <1>1, <2>4, <2>5
    <3>5. /\ GoodLog(Append(shown, f))
          /\ Cardinality(FinalsIn(Append(shown, f)))
                 = Cardinality(FinalsIn(shown)) + (IF IsFinal(f) THEN 1 ELSE 0)
      BY <2>2, <2>5, <3>4, OneMessageMore
    <3>6. Cardinality(FinalsIn(shown)) + (IF IsFinal(f) THEN 1 ELSE 0) = n + 1
      BY <2>4, <2>5
    <3> QED
      BY <2>7, <3>2, <3>3, <3>5, <3>6 DEF shown, l
  <2> QED
    BY <2>6, <2>7
<1> QED
  BY <1>2, <1>3

(* Every step keeps the messages numbered and announced. *)
LEMMA LogStep ==
    ASSUME IInv, LogInv, [Next]_vars
    PROVE  LogInv'
<1> USE DEF HandlerTo, At, InDialogue
<1>1. CASE UNCHANGED <<log, segmentIdx, lastText, pc>>
  BY <1>1 DEF LogInv
<1>3. ASSUME NEW c \in Conn, NEW q \in HandlerPC, pc' = [pc EXCEPT ![c] = q], q # "new",
             UNCHANGED segmentIdx, Notify(c),
             \/ q \notin InDialogue /\ UNCHANGED lastText
             \/ lastText' = [lastText EXCEPT ![c] = NoText]
      PROVE  LogInv'
  <2> DEFINE l == Append(log[c], Notice)
  <2>1. GoodLog(l) /\ Cardinality(FinalsIn(l)) = segmentIdx[c]
    <3>1. Notice \in Message /\ ~IsFinal(Notice)
      BY DEF Notice, Message, IsFinal
    <3>2. log[c] \in Seq(Message) /\ GoodLog(log[c])
          /\ segmentIdx[c] = Cardinality(FinalsIn(log[c])) /\ segmentIdx[c] \in Nat
      BY DEF IInv, TypeOK, LogInv
    <3>3. GoodLog(l) /\ Cardinality(FinalsIn(l))
                           = Cardinality(FinalsIn(log[c])) + (IF IsFinal(Notice) THEN 1 ELSE 0)
      BY <3>1, <3>2, OneMessageMore
    <3> QED
      BY <3>1, <3>2, <3>3
  <2>2. log' = [log EXCEPT ![c] = l]
    BY <1>3 DEF Notify
  <2> HIDE DEF l
  <2>3. \A d \in Conn : d # c => log'[d] = log[d] /\ pc'[d] = pc[d] /\ lastText'[d] = lastText[d]
    BY <1>3, <2>2 DEF IInv, TypeOK
  <2>4. log'[c] = l /\ pc'[c] = q /\ (q \notin InDialogue \/ lastText'[c] = NoText)
    BY <1>3, <2>2 DEF IInv, TypeOK
  <2> QED
    BY <1>3, <2>1, <2>3, <2>4 DEF LogInv
<1>7. ASSUME NEW c \in Conn, CreateSession(c) PROVE LogInv'
  <2>1. lastText[c] = NoText /\ lastText \in [Conn -> Text \cup {NoText}]
    BY <1>7 DEF CreateSession, LogInv, IInv, TypeOK
  <2>2. lastText' = [lastText EXCEPT ![c] = NoText]
    BY <1>7, <2>1 DEF CreateSession
  <2> QED
    BY <1>3, <1>7, <2>2 DEF CreateSession, HandlerPC
<1>8. ASSUME NEW c \in Conn, ReadStop(c) PROVE LogInv'
  BY <1>3, <1>8 DEF ReadStop, HandlerPC
<1>9. ASSUME NEW c \in Conn, EndReset(c) PROVE LogInv'
  <2>1. CASE pc[c] = "restarting"
    BY <1>3, <1>9, <2>1 DEF EndReset, StartOver, HandlerPC
  <2>2. CASE pc[c] # "restarting"
    BY <1>9, <2>2 DEF EndReset, StartOver, IInv, TypeOK, LogInv
  <2> QED
    BY <2>1, <2>2
<1>4. ASSUME NEW c \in Conn, SendResults(c) PROVE LogInv'
  <2> DEFINE sent == log[c] \o Partials(c) \o Finals(c)
             said == IF result[c].text = NoText THEN lastText[c] ELSE result[c].text
             n == NextSegment(c)
             q == IF result[c].endpoint THEN "resetting" ELSE "reading"
  <2>1. /\ pc[c] = "decoded" /\ log' = [log EXCEPT ![c] = sent]
        /\ segmentIdx' = [segmentIdx EXCEPT ![c] = n]
        /\ lastText' = [lastText EXCEPT ![c] = said]
        /\ pc' = [pc EXCEPT ![c] = q]
    BY <1>4 DEF SendResults
  <2>2. /\ GoodLog(sent) /\ n = Cardinality(FinalsIn(sent))
        /\ q \in InDialogue /\ said # NoText => LastShown(sent, said)
        /\ q # "new"
    BY <2>1, SentInOrder DEF IInv
  <2> HIDE DEF sent, said, n, q
  <2>3. log'[c] = sent /\ segmentIdx'[c] = n /\ lastText'[c] = said /\ pc'[c] = q
    BY <2>1 DEF IInv, TypeOK
  <2>4. ASSUME NEW d \in Conn, d # c
        PROVE  /\ log'[d] = log[d] /\ segmentIdx'[d] = segmentIdx[d]
               /\ lastText'[d] = lastText[d] /\ pc'[d] = pc[d]
    BY <2>1, <2>4 DEF IInv, TypeOK
  <2> QED
    BY <2>2, <2>3, <2>4 DEF LogInv
<1>5. ASSUME NEW c \in Conn,
             \/ RefuseSession(c) \/ CloseSession(c) \/ EndProcessAudio(c)
             \/ ReadError(c) \/ ReadAudio(c) \/ ReadReset(c) \/ ReadGarbage(c)
      PROVE  LogInv'
  <2>1. /\ UNCHANGED <<log, segmentIdx, lastText>>
        /\ \E q \in HandlerPC \ {"new"} : /\ pc' = [pc EXCEPT ![c] = q]
                                          /\ q \in InDialogue => pc[c] \in InDialogue
    BY <1>5 DEF RefuseSession, CloseSession, EndProcessAudio, ReadError, ReadAudio, ReadReset,
       ReadGarbage, HandlerPC
  <2>2. PICK q \in HandlerPC \ {"new"} : /\ pc' = [pc EXCEPT ![c] = q]
                                         /\ q \in InDialogue => pc[c] \in InDialogue
    BY <2>1
  <2>3. q \in HandlerPC /\ q # "new"
    BY <2>2
  <2> QED
    BY <2>1, <2>2, <2>3 DEF IInv, TypeOK, LogInv
<1>6. ASSUME \/ \E c \in Conn : Disconnect(c) \/ CloseSessionByAdmin(c)
             \/ Close \/ Crash \/ UNCHANGED vars
      PROVE  UNCHANGED <<log, segmentIdx, lastText, pc>>
  BY <1>6 DEF Disconnect, CloseSessionByAdmin, Close, Crash, vars, handlerVars
<1> QED
  BY <1>1, <1>4, <1>5, <1>6, <1>7, <1>8, <1>9 DEF Next, HandlerStep, ClientStep

(* Logs are good from the start, when they are empty. *)
LEMMA LogsStayGood == Spec => []LogInv
<1>1. Init => LogInv
  <2> SUFFICES ASSUME Init, NEW c \in Conn
               PROVE  GoodLog(<<>>) /\ Cardinality(FinalsIn(<<>>)) = 0
    <3>1. ASSUME Init, NEW c \in Conn
          PROVE  log[c] = <<>> /\ segmentIdx[c] = 0 /\ lastText[c] = NoText
      BY <3>1 DEF Init
    <3> QED
      BY <3>1 DEF LogInv
  <2>1. FinalsIn(<<>>) = {} /\ GoodLog(<<>>)
    BY DEF FinalsIn, FinalsBefore, GoodLog, Numbered, Shown
  <2> QED
    BY <2>1, FS_EmptySet
<1>2. IInv /\ LogInv /\ [Next]_vars => LogInv'
  BY LogStep
<1> QED
  BY Inductive, <1>1, <1>2, PTL DEF Spec

(* The client can count on the numbers of the segments, however long the    *)
(* session lasts and whatever the recogniser returns.                       *)
THEOREM SegmentNumbersAreRight == Spec => []SegmentsAreNumbered
<1>1. LogInv => SegmentsAreNumbered
  BY DEF LogInv, GoodLog, Numbered, SegmentsAreNumbered
<1> QED
  BY LogsStayGood, <1>1, PTL

(* HandleStreamingASR never sends a final result whose text the client has  *)
(* not just been shown as a partial result.                                 *)
THEOREM FinalsAreAnnounced == Spec => []FinalWasShown
<1>1. LogInv => FinalWasShown
  BY DEF LogInv, GoodLog, Shown, FinalWasShown
<1> QED
  BY LogsStayGood, <1>1, PTL

-----------------------------------------------------------------------------
(* Only a forced close takes a stream away.                                 *)

InSession == {"reading", "decoding", "decoded", "resetting", "restarting", "leaving"}

(* A handler in its loop owns a stream that lives. *)
Owned == /\ managerOpen /\ ~crashed
         /\ \A c \in Conn : pc[c] \in InSession => stream[c] = "live"

(* While nobody closes by force, every step leaves the handlers their       *)
(* streams.                                                                 *)
LEMMA OwnedStep ==
    ASSUME ~AllowAdmin, ~AllowClose, IInv, Owned, [Next]_vars
    PROVE  Owned'
<1> USE DEF InSession, At, HandlerTo, IInv, TypeOK, tableVars, handlerVars
<1>0. {"reading", "decoding", "leaving", "resetting", "restarting", "decoded"} \subseteq HandlerPC
  BY DEF HandlerPC
<1>1. ASSUME NEW c \in Conn, CreateSession(c) PROVE Owned'
  BY <1>1 DEF CreateSession, Owned
<1>2. ASSUME NEW c \in Conn, CloseSession(c) PROVE Owned'
  BY <1>2 DEF CloseSession, Delete, Owned
<1>3. ASSUME NEW c \in Conn, NEW place \in HandlerPC, HandlerTo(c, place), pc[c] \in InSession,
             UNCHANGED <<tableVars, crashed>>
      PROVE  Owned'
  BY <1>3 DEF Owned
<1>4. ASSUME NEW c \in Conn, RefuseSession(c) PROVE Owned'
  <2>1. pc' = [pc EXCEPT ![c] = "refused"] /\ UNCHANGED <<managerOpen, stream, crashed>>
    BY <1>4 DEF RefuseSession
  <2>2. \A d \in Conn : pc'[d] \in InSession => pc[d] \in InSession
    BY <2>1
  <2> QED
    BY <2>1, <2>2 DEF Owned
<1>5. ASSUME NEW c \in Conn, EndProcessAudio(c) PROVE Owned'
  BY <1>3, <1>0, <1>5 DEF EndProcessAudio
<1>6. ASSUME NEW c \in Conn, EndReset(c) \/ ReadError(c) PROVE Owned'
  BY <1>3, <1>0, <1>6 DEF EndReset, ReadError
<1>7. ASSUME NEW c \in Conn, ReadAudio(c) \/ ReadReset(c) \/ ReadStop(c) \/ ReadGarbage(c)
      PROVE  Owned'
  BY <1>3, <1>0, <1>7 DEF ReadAudio, ReadReset, ReadStop, ReadGarbage
<1>8. ASSUME NEW c \in Conn, SendResults(c) PROVE Owned'
  BY <1>8 DEF SendResults, Owned
<1>9. ~Crash
  BY DEF Crash, UsesDeleted, UsingStream, Owned
<1>10. ~Close /\ \A c \in Conn : ~CloseSessionByAdmin(c)
  BY DEF Close, CloseSessionByAdmin
<1>11. ASSUME UNCHANGED vars \/ \E c \in Conn : Disconnect(c) PROVE Owned'
  <2>1. UNCHANGED <<managerOpen, stream, crashed, pc>>
    BY <1>11 DEF vars, Disconnect
  <2> QED
    BY <2>1 DEF Owned
<1> QED
  BY <1>1, <1>2, <1>4, <1>5, <1>6, <1>7, <1>8, <1>9, <1>10, <1>11 DEF Next, HandlerStep, ClientStep

(* As long as no administrator closes a session and the manager is not       *)
(* closed, no handler is ever inside ProcessAudio or Reset with a stream    *)
(* that was deleted: CloseSessionByAdmin and Close are the only ways to the *)
(* use after deletion that is a finding of this project.                    *)
THEOREM StreamsAreSafeUnforced ==
    ASSUME ~AllowAdmin, ~AllowClose
    PROVE  Spec => []NoUseAfterDelete
<1>1. Init => Owned
  BY DEF Init, Owned, InSession
<1>2. IInv /\ Owned /\ [Next]_vars => Owned'
  BY OwnedStep
<1>3. Owned => NoUseAfterDelete
  BY DEF Owned, NoUseAfterDelete, UsingStream, InSession
<1> QED
  BY <1>1, <1>2, <1>3, Inductive, PTL DEF Spec
=============================================================================
