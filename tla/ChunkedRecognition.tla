------------------------- MODULE ChunkedRecognition -------------------------
(***************************************************************************)
(* One call of RecognizeChunked (src/internal/asr/offline.go): a long      *)
(* recording is cut into chunks, a pool of goroutines takes them from      *)
(* workChan, recognises them one at a time under the manager's mutex and   *)
(* reports to resultChan; the caller collects the reports and joins the    *)
(* texts.  The call has a deadline, which a goroutine looks at only when   *)
(* it takes a chunk; a goroutine that finds it passed reports that chunk   *)
(* as failed and quits.                                                    *)
(*                                                                         *)
(* The mutex is also taken by other calls on the manager (Other).  The     *)
(* recogniser is outside src/: a chunk yields a text, the empty text or an *)
(* error.                                                                  *)
(***************************************************************************)
EXTENDS Integers, FiniteSets, Sequences, SequencesExt

CONSTANTS NumChunks,  \* numChunks; a recording of one chunk is not cut
          Worker,     \* the pool: maxWorkers goroutines
          Text,       \* the non-empty texts the recogniser may return
          NoText,     \* the empty text
          Failed,     \* the recogniser reports an error
          Undecoded,  \* the recogniser has not seen the chunk
          Other,      \* another holder of the manager's mutex
          NoOne

ASSUME ChunkAssumption == NumChunks \in Nat /\ NumChunks >= 2
ASSUME WorkerAssumption == IsFiniteSet(Worker) /\ Worker # {}
ASSUME ValueAssumption ==
    /\ Cardinality({NoText, Failed, Undecoded}) = 3
    /\ Text \cap {NoText, Failed, Undecoded} = {}
    /\ Other # NoOne /\ Worker \cap {Other, NoOne} = {}

VARIABLES
    expired,      \* whether the context's deadline has passed
    (* the channels *)
    nextChunk,    \* the chunk that is distributed next
    workChan,     \* workChan, and whether it is closed
    workClosed,
    resultChan,   \* resultChan, and whether it is closed
    resultClosed,
    (* the pool *)
    pc,           \* pc[w]: where the goroutine is
    chunk,        \* chunk[w]: chunkIndex
    outcome,      \* outcome[w]: what it is going to report
    mutex,        \* who holds the manager's mutex
    (* the caller *)
    results,      \* results: the texts by chunk
    completed,    \* completedChunks, the progress that is reported
    failed,       \* failedChunks
    answer,       \* what the call returned
    (* history *)
    decoded       \* decoded[i]: what the recogniser said of chunk i

vars == <<expired, nextChunk, workChan, workClosed, resultChan, resultClosed, pc,
          chunk, outcome, mutex, results, completed, failed, answer, decoded>>

chanVars   == <<nextChunk, workChan, workClosed>>
poolVars   == <<pc, chunk, outcome>>
callerVars == <<results, completed, failed, answer>>

Chunk == 1 .. NumChunks

Outcome == Text \cup {NoText, Failed}

(* What the caller may get: nothing yet, an error, or the texts in order. *)
Running == [kind |-> "running", texts |-> <<>>]
AllFailed == [kind |-> "all chunks failed", texts |-> <<>>]
Answered(texts) == [kind |-> "text", texts |-> texts]

Init ==
    /\ expired = FALSE
    /\ nextChunk = 1
    /\ workChan = <<>> /\ workClosed = FALSE
    /\ resultChan = <<>> /\ resultClosed = FALSE
    /\ pc = [w \in Worker |-> "receive"]
    /\ chunk = [w \in Worker |-> 0]
    /\ outcome = [w \in Worker |-> NoText]
    /\ mutex = NoOne
    /\ results = [i \in Chunk |-> NoText]
    /\ completed = 0
    /\ failed = 0
    /\ answer = Running
    /\ decoded = [i \in Chunk |-> Undecoded]

WorkerTo(w, place) == pc' = [pc EXCEPT ![w] = place]

-----------------------------------------------------------------------------
(* The goroutine that distributes the chunks *)

Distribute ==
    /\ nextChunk <= NumChunks
    /\ Len(workChan) < NumChunks
    /\ workChan' = Append(workChan, nextChunk)
    /\ nextChunk' = nextChunk + 1
    /\ UNCHANGED <<expired, workClosed, resultChan, resultClosed, poolVars, mutex,
                   callerVars, decoded>>

(* Mutant: workChan is never closed. *)
MutCloseWork == FALSE /\ UNCHANGED vars

CloseWork ==
    /\ nextChunk > NumChunks
    /\ ~workClosed
    /\ workClosed' = TRUE
    /\ UNCHANGED <<expired, nextChunk, workChan, resultChan, resultClosed, poolVars,
                   mutex, callerVars, decoded>>

-----------------------------------------------------------------------------
(* The pool *)

Receive(w) ==
    /\ pc[w] = "receive"
    /\ workChan # <<>>
    /\ chunk' = [chunk EXCEPT ![w] = Head(workChan)]
    /\ workChan' = Tail(workChan)
    /\ WorkerTo(w, "check")
    /\ UNCHANGED <<expired, nextChunk, workClosed, resultChan, resultClosed, outcome,
                   mutex, callerVars, decoded>>

(* The range loop over workChan ends. *)
Finish(w) ==
    /\ pc[w] = "receive"
    /\ workChan = <<>>
    /\ workClosed
    /\ WorkerTo(w, "done")
    /\ UNCHANGED <<expired, chanVars, resultChan, resultClosed, chunk, outcome, mutex,
                   callerVars, decoded>>

(* The deadline has not passed: the goroutine asks for the mutex. *)
CheckDeadline(w) ==
    /\ pc[w] = "check"
    /\ ~expired
    /\ WorkerTo(w, "lock")
    /\ UNCHANGED <<expired, chanVars, resultChan, resultClosed, chunk, outcome, mutex,
                   callerVars, decoded>>

(* Mutant: the report carries the number of the chunk, not its index. *)
MutReportTo(i, o) == resultChan' = Append(resultChan, [index |-> i + 1, outcome |-> o])

ReportTo(i, o) == resultChan' = Append(resultChan, [index |-> i, outcome |-> o])

(* Mutant: a goroutine that is late quits without a report. *)
MutLateReport(i) == UNCHANGED resultChan

LateReport(i) == ReportTo(i, Failed)

(* The deadline has passed: the chunk is reported as failed, and the        *)
(* goroutine quits.                                                         *)
Quit(w) ==
    /\ pc[w] = "check"
    /\ expired
    /\ Len(resultChan) < NumChunks
    /\ LateReport(chunk[w])
    /\ WorkerTo(w, "done")
    /\ UNCHANGED <<expired, chanVars, resultClosed, chunk, outcome, mutex, callerVars,
                   decoded>>

MutexIsFree == mutex = NoOne

Lock(w) ==
    /\ pc[w] = "lock"
    /\ MutexIsFree
    /\ mutex' = w
    /\ WorkerTo(w, "recognize")
    /\ UNCHANGED <<expired, chanVars, resultChan, resultClosed, chunk, outcome,
                   callerVars, decoded>>

(* recognizeChunkWithCleanup returns and gives the mutex back. *)
Recognize(w) ==
    /\ pc[w] = "recognize"
    /\ mutex' = NoOne
    /\ \E o \in Outcome : /\ outcome' = [outcome EXCEPT ![w] = o]
                          /\ decoded' = [decoded EXCEPT ![chunk[w]] = o]
    /\ WorkerTo(w, "report")
    /\ UNCHANGED <<expired, chanVars, resultChan, resultClosed, chunk, callerVars>>

Report(w) ==
    /\ pc[w] = "report"
    /\ Len(resultChan) < NumChunks
    /\ ReportTo(chunk[w], outcome[w])
    /\ WorkerTo(w, "receive")
    /\ UNCHANGED <<expired, chanVars, resultClosed, chunk, outcome, mutex, callerVars,
                   decoded>>

(* Mutant: resultChan is closed when the first goroutine is done. *)
MutPoolIsDone == \E w \in Worker : pc[w] = "done"

PoolIsDone == \A w \in Worker : pc[w] = "done"

(* The goroutine behind wg.Wait. *)
CloseResults ==
    /\ PoolIsDone
    /\ ~resultClosed
    /\ resultClosed' = TRUE
    /\ UNCHANGED <<expired, chanVars, resultChan, poolVars, mutex, callerVars, decoded>>

-----------------------------------------------------------------------------
(* The caller *)

(* Mutant: the texts are put down in the order of their arrival. *)
MutSlot(r) == completed + 1

Slot(r) == r.index

(* The caller takes a report and calls the progress callback. *)
Collect ==
    /\ resultChan # <<>>
    /\ LET r == Head(resultChan)
       IN  IF r.outcome = Failed
             THEN failed' = failed + 1 /\ UNCHANGED results
             ELSE results' = [results EXCEPT ![Slot(r)] = r.outcome] /\ UNCHANGED failed
    /\ resultChan' = Tail(resultChan)
    /\ completed' = completed + 1
    /\ UNCHANGED <<expired, chanVars, resultClosed, poolVars, mutex, answer, decoded>>

(* The loop over results: the texts among the first i that are not empty,   *)
(* in the order of the chunks.                                              *)
TextsOf[i \in 0 .. NumChunks] ==
    IF i = 0 THEN <<>>
    ELSE IF results[i] = NoText THEN TextsOf[i - 1]
    ELSE Append(TextsOf[i - 1], results[i])

FullText == TextsOf[NumChunks]

(* Mutant: an empty text is no error. *)
MutFailure == FALSE

Failure == FullText = <<>> /\ failed > 0

Return ==
    /\ resultChan = <<>>
    /\ resultClosed
    /\ answer = Running
    /\ answer' = IF Failure THEN AllFailed ELSE Answered(FullText)
    /\ UNCHANGED <<expired, chanVars, resultChan, resultClosed, poolVars, mutex, results,
                   completed, failed, decoded>>

-----------------------------------------------------------------------------
(* Time and the other users of the manager *)

Expire ==
    /\ ~expired
    /\ answer = Running
    /\ expired' = TRUE
    /\ UNCHANGED <<chanVars, resultChan, resultClosed, poolVars, mutex, callerVars, decoded>>

OtherLock ==
    /\ mutex = NoOne
    /\ mutex' = Other
    /\ UNCHANGED <<expired, chanVars, resultChan, resultClosed, poolVars, callerVars, decoded>>

OtherUnlock ==
    /\ mutex = Other
    /\ mutex' = NoOne
    /\ UNCHANGED <<expired, chanVars, resultChan, resultClosed, poolVars, callerVars, decoded>>

WorkerStep(w) == \/ Receive(w) \/ Finish(w) \/ CheckDeadline(w) \/ Quit(w)
                 \/ Lock(w) \/ Recognize(w) \/ Report(w)

Next == \/ Distribute \/ CloseWork \/ CloseResults
        \/ Collect \/ Return
        \/ Expire
        \/ OtherLock \/ OtherUnlock
        \/ \E w \in Worker : WorkerStep(w)

Spec == Init /\ [][Next]_vars

(* Goroutines run on, native calls return and whoever holds the mutex gives *)
(* it back.  Go's mutex is handed to a goroutine that has waited long, so   *)
(* one that asks again and again for a mutex others keep taking gets it.    *)
Fairness ==
    /\ WF_vars(Distribute) /\ WF_vars(CloseWork) /\ WF_vars(CloseResults)
    /\ WF_vars(Collect) /\ WF_vars(Return)
    /\ WF_vars(OtherUnlock)
    /\ \A w \in Worker : WF_vars(WorkerStep(w)) /\ SF_vars(Lock(w))

FairSpec == Spec /\ Fairness

-----------------------------------------------------------------------------
(* Properties *)

(* Every variable keeps its type. *)
TypeOK ==
    /\ {expired, workClosed, resultClosed} \subseteq BOOLEAN
    /\ nextChunk \in 1 .. NumChunks + 1
    /\ workChan \in Seq(Chunk)
    /\ resultChan \in Seq([index : Chunk, outcome : Outcome])
    /\ pc \in [Worker -> {"receive", "check", "lock", "recognize", "report", "done"}]
    /\ chunk \in [Worker -> 0 .. NumChunks]
    /\ outcome \in [Worker -> Outcome]
    /\ mutex \in Worker \cup {Other, NoOne}
    /\ results \in [Chunk -> Text \cup {NoText}]
    /\ completed \in 0 .. NumChunks
    /\ failed \in 0 .. completed
    /\ answer = Running \/ answer = AllFailed \/ \E s \in BoundedSeq(Text, NumChunks) : answer = Answered(s)
    /\ decoded \in [Chunk -> Outcome \cup {Undecoded}]

Holding == {w \in Worker : pc[w] \in {"check", "lock", "recognize", "report"}}

(* No chunk is lost or reported twice on its way through the two channels,  *)
(* whatever quits in between: what is not distributed, in a channel, in the *)
(* hands of a goroutine or collected adds up to all chunks, and no chunk is *)
(* under way twice.                                                         *)
ChunkLedger ==
    /\ (NumChunks - nextChunk + 1) + Len(workChan) + Cardinality(Holding)
          + Len(resultChan) + completed = NumChunks
    /\ \A v, w \in Holding : chunk[v] = chunk[w] => v = w
    /\ \A w \in Holding : chunk[w] \notin ToSet(workChan)
    /\ \A r \in ToSet(resultChan) : /\ r.index \notin ToSet(workChan)
                                    /\ \A w \in Holding : chunk[w] # r.index

(* A chunk is missing from the text of an answer only because its           *)
(* recognition failed or because the deadline passed before it; every other *)
(* chunk's text stands in its own place.                                    *)
OnlyFailuresAreMissing ==
    answer # Running =>
        \A i \in Chunk : CASE decoded[i] = Undecoded -> expired /\ results[i] = NoText
                           [] decoded[i] = Failed    -> results[i] = NoText
                           [] OTHER                  -> results[i] = decoded[i]

(* An answer comes after the last goroutine of its pool: none is left       *)
(* decoding with the caller's samples, and without a timeout the progress   *)
(* that was reported has reached all chunks.                                *)
NobodyIsLeft ==
    answer # Running => /\ \A w \in Worker : pc[w] = "done"
                        /\ ~expired => completed = NumChunks

(* An empty answer without an error means that no chunk failed. *)
SilenceIsReal ==
    answer = Answered(<<>>) => \A i \in Chunk : decoded[i] = NoText

(* The call returns, in time or not. *)
CallReturns == <>(answer # Running)

(* "all chunks failed to recognize" (offline.go): the error says that every *)
(* chunk failed.                                                            *)
AllFailedMeansAll ==
    answer = AllFailed => \A i \in Chunk : decoded[i] \in {Failed, Undecoded}
=============================================================================
