---------------------- MODULE ChunkedRecognitionProofs ----------------------
(***************************************************************************)
(* Theorems about ChunkedRecognition for any number of chunks, any pool    *)
(* and any texts.                                                          *)
(***************************************************************************)
EXTENDS ChunkedRecognition, SequenceFacts, FiniteSetTheorems, TLAPS

(* The types, without the bounds that only the ledger gives. *)
Typing ==
    /\ expired \in BOOLEAN /\ workClosed \in BOOLEAN /\ resultClosed \in BOOLEAN
    /\ nextChunk \in 1 .. NumChunks + 1
    /\ workChan \in Seq(Chunk)
    /\ resultChan \in Seq([index : Chunk, outcome : Outcome])
    /\ pc \in [Worker -> {"receive", "check", "lock", "recognize", "report", "done"}]
    /\ chunk \in [Worker -> 0 .. NumChunks]
    /\ outcome \in [Worker -> Outcome]
    /\ mutex \in Worker \cup {Other, NoOne}
    /\ results \in [Chunk -> Text \cup {NoText}]
    /\ completed \in Nat
    /\ failed \in 0 .. completed
    /\ answer = Running \/ answer = AllFailed
          \/ \E s \in BoundedSeq(Text, NumChunks) : answer = Answered(s)
    /\ decoded \in [Chunk -> Outcome \cup {Undecoded}]

(* The chunks in workChan, and those with a report in resultChan. *)
Waiting  == ToSet(workChan)
Reported == {resultChan[k].index : k \in DOMAIN resultChan}

(* No chunk is at two places. *)
Places ==
    /\ IsInjective(workChan)
    /\ \A j, k \in DOMAIN resultChan : resultChan[j].index = resultChan[k].index => j = k
    /\ \A v, w \in Holding : chunk[v] = chunk[w] => v = w
    /\ \A w \in Holding : chunk[w] \in Chunk /\ chunk[w] < nextChunk
                          /\ chunk[w] \notin Waiting /\ chunk[w] \notin Reported
    /\ \A i \in Waiting : i < nextChunk /\ i \notin Reported
    /\ \A i \in Reported : i < nextChunk

(* Every chunk is still to come, in workChan, at a goroutine, in resultChan *)
(* or counted by the caller.                                                *)
Ledger == (NumChunks - nextChunk + 1) + Len(workChan) + Cardinality(Holding)
              + Len(resultChan) + completed = NumChunks

(* A chunk that the recogniser has not seen yet, if nobody gave it up. *)
Ahead(i) == \/ i >= nextChunk \/ i \in Waiting
            \/ \E w \in Worker : pc[w] \in {"check", "lock", "recognize"} /\ chunk[w] = i

(* A chunk whose report the caller does not have yet, but may get. *)
UnderWay(i) == Ahead(i) \/ i \in Reported \/ \E w \in Worker : pc[w] = "report" /\ chunk[w] = i

(* What is known of a chunk at each place. *)
History ==
    /\ \A i \in Chunk : Ahead(i) => decoded[i] = Undecoded
    /\ \A w \in Worker : pc[w] = "report" => decoded[chunk[w]] = outcome[w]
    /\ \A k \in DOMAIN resultChan :
          \/ decoded[resultChan[k].index] = resultChan[k].outcome
          \/ /\ decoded[resultChan[k].index] = Undecoded
             /\ resultChan[k].outcome = Failed /\ expired
    /\ \A i \in Chunk : UnderWay(i) => results[i] = NoText
    /\ \A i \in Chunk : ~UnderWay(i) =>
          \/ decoded[i] = Undecoded /\ expired /\ results[i] = NoText /\ failed > 0
          \/ decoded[i] = Failed /\ results[i] = NoText /\ failed > 0
          \/ decoded[i] \in Text \cup {NoText} /\ results[i] = decoded[i]

(* A goroutine has seen the deadline and left a failure behind. *)
LateSeen == expired /\ (failed > 0 \/ \E k \in DOMAIN resultChan : resultChan[k].outcome = Failed)

(* A goroutine is done when nothing is left to do or after the deadline;    *)
(* resultChan is closed, and the answer is given, after the last of them.   *)
Ending ==
    /\ workClosed => nextChunk = NumChunks + 1
    /\ \A w \in Worker : pc[w] = "done" => (workClosed /\ workChan = <<>>) \/ LateSeen
    /\ resultClosed => \A w \in Worker : pc[w] = "done"
    /\ answer # Running => resultClosed /\ resultChan = <<>>
    /\ answer = Answered(<<>>) => failed = 0 /\ \A i \in Chunk : results[i] = NoText

(* The native recogniser serves one goroutine at a time, and the mutex is   *)
(* held only around it.                                                     *)
OneAtATime == \A w \in Worker : pc[w] = "recognize" <=> mutex = w

(* The inductive invariant. *)
IInv == Typing /\ Places /\ Ledger /\ OneAtATime /\ History /\ Ending

-----------------------------------------------------------------------------
(* The special values are different from each other and from every text. *)
LEMMA Distinct ==
    /\ NoText # Failed /\ NoText # Undecoded /\ Failed # Undecoded
    /\ {NoText, Failed, Undecoded} \cap Text = {}
<1> DEFINE S == {NoText, Failed, Undecoded}
<1>1. ASSUME NEW a, NEW b, S = {a} \cup {b} PROVE Cardinality(S) <= 2
  <2>1. IsFiniteSet({a}) /\ Cardinality({a}) = 1
    BY FS_Singleton
  <2>2. Cardinality({a} \cup {b}) <= 2
    BY <2>1, FS_AddElement
  <2> QED
    BY <1>1, <2>2
<1>2. Cardinality(S) = 3
  BY ValueAssumption
<1>3. NoText # Failed
  <2> SUFFICES ASSUME NoText = Failed PROVE FALSE
    OBVIOUS
  <2>1. S = {Failed} \cup {Undecoded}
    OBVIOUS
  <2> HIDE DEF S
  <2> QED
    BY <1>1, <1>2, <2>1
<1>4. NoText # Undecoded
  <2> SUFFICES ASSUME NoText = Undecoded PROVE FALSE
    OBVIOUS
  <2>1. S = {Failed} \cup {Undecoded}
    OBVIOUS
  <2> HIDE DEF S
  <2> QED
    BY <1>1, <1>2, <2>1
<1>5. Failed # Undecoded
  <2> SUFFICES ASSUME Failed = Undecoded PROVE FALSE
    OBVIOUS
  <2>1. S = {NoText} \cup {Undecoded}
    OBVIOUS
  <2> HIDE DEF S
  <2> QED
    BY <1>1, <1>2, <2>1
<1> QED
  BY <1>3, <1>4, <1>5, ValueAssumption

(* The channels and the set of busy goroutines have a size. *)
LEMMA Sizes ==
    ASSUME Typing
    PROVE  /\ Len(workChan) \in Nat /\ Len(resultChan) \in Nat
           /\ DOMAIN workChan = 1 .. Len(workChan)
           /\ DOMAIN resultChan = 1 .. Len(resultChan)
           /\ IsFiniteSet(Holding) /\ Cardinality(Holding) \in Nat
           /\ Waiting \subseteq Chunk /\ Reported \subseteq Chunk
           /\ \A k \in DOMAIN resultChan :
                 resultChan[k].index \in Chunk /\ resultChan[k].outcome \in Outcome
<1>1. Len(workChan) \in Nat /\ DOMAIN workChan = 1 .. Len(workChan)
  BY LenProperties DEF Typing
<1>2. Len(resultChan) \in Nat /\ DOMAIN resultChan = 1 .. Len(resultChan)
  BY LenProperties DEF Typing
<1>3. IsFiniteSet(Holding) /\ Cardinality(Holding) \in Nat
  BY WorkerAssumption, FS_Subset, FS_CardinalityType DEF Holding
<1>4. \A k \in DOMAIN workChan : workChan[k] \in Chunk
  BY <1>1, ElementOfSeq DEF Typing
<1>5. \A k \in DOMAIN resultChan : resultChan[k] \in [index : Chunk, outcome : Outcome]
  BY <1>2, ElementOfSeq DEF Typing
<1>6. Waiting \subseteq Chunk
  BY <1>4 DEF Waiting, ToSet
<1>7. \A k \in DOMAIN resultChan : resultChan[k].index \in Chunk /\ resultChan[k].outcome \in Outcome
  BY <1>5
<1>8. Reported \subseteq Chunk
  BY <1>7 DEF Reported
<1> QED
  BY <1>1, <1>2, <1>3, <1>6, <1>7, <1>8

(* A report goes to the end of resultChan. *)
LEMMA ReportAdded ==
    ASSUME Typing, NEW i \in Chunk, NEW o \in Outcome, ReportTo(i, o)
    PROVE  /\ resultChan' \in Seq([index : Chunk, outcome : Outcome])
           /\ Len(resultChan') = Len(resultChan) + 1
           /\ DOMAIN resultChan' = DOMAIN resultChan \cup {Len(resultChan) + 1}
           /\ \A k \in DOMAIN resultChan : resultChan'[k] = resultChan[k]
           /\ resultChan'[Len(resultChan) + 1] = [index |-> i, outcome |-> o]
           /\ Reported' = Reported \cup {i}
<1> DEFINE R == [index : Chunk, outcome : Outcome]
           r == [index |-> i, outcome |-> o]
           n == Len(resultChan)
<1>1. resultChan' = Append(resultChan, r) /\ r \in R /\ resultChan \in Seq(R)
  BY DEF ReportTo, Typing
<1>2. n \in Nat /\ DOMAIN resultChan = 1 .. n
  BY Sizes
<1>3. r.index = i
  OBVIOUS
<1> HIDE DEF R, r
<1>4. /\ resultChan' \in Seq(R) /\ Len(resultChan') = n + 1
      /\ \A k \in 1 .. n : resultChan'[k] = resultChan[k]
      /\ resultChan'[n + 1] = r
  BY <1>1, AppendProperties
<1>5. DOMAIN resultChan' = 1 .. n + 1
  BY <1>4, LenProperties
<1> HIDE DEF n
<1>6. DOMAIN resultChan' = DOMAIN resultChan \cup {n + 1}
  BY <1>2, <1>5
<1>7. Reported' = Reported \cup {i}
  BY <1>2, <1>3, <1>4, <1>6 DEF Reported
<1> QED
  BY <1>2, <1>4, <1>6, <1>7 DEF R, r, n

(* The caller takes a report from the front of resultChan. *)
LEMMA ReportTaken ==
    ASSUME Typing, Places, resultChan # <<>>, resultChan' = Tail(resultChan)
    PROVE  /\ resultChan' \in Seq([index : Chunk, outcome : Outcome])
           /\ Len(resultChan') = Len(resultChan) - 1
           /\ \A k \in DOMAIN resultChan' :
                 k + 1 \in DOMAIN resultChan /\ resultChan'[k] = resultChan[k + 1]
           /\ 1 \in DOMAIN resultChan /\ Head(resultChan) = resultChan[1]
           /\ Head(resultChan).index \in Reported
           /\ Reported' = Reported \ {Head(resultChan).index}
<1> DEFINE R == [index : Chunk, outcome : Outcome]
           n == Len(resultChan)
<1>1. n \in Nat /\ DOMAIN resultChan = 1 .. n /\ resultChan \in Seq(R)
  BY Sizes DEF Typing
<1> HIDE DEF R
<1>2. n # 0 /\ Head(resultChan) = resultChan[1]
  BY <1>1, EmptySeq, HeadTailProperties
<1>3. /\ resultChan' \in Seq(R) /\ Len(resultChan') = n - 1
      /\ \A k \in 1 .. n - 1 : resultChan'[k] = resultChan[k + 1]
  BY <1>1, HeadTailProperties
<1>4. DOMAIN resultChan' = 1 .. n - 1
  BY <1>3, LenProperties
<1> HIDE DEF n
<1>5. \A k \in DOMAIN resultChan' :
          k + 1 \in DOMAIN resultChan /\ resultChan'[k] = resultChan[k + 1]
  BY <1>1, <1>3, <1>4
<1>6. \A k \in DOMAIN resultChan : k # 1 => k - 1 \in DOMAIN resultChan' /\ (k - 1) + 1 = k
  BY <1>1, <1>4
<1>7. 1 \in DOMAIN resultChan
  BY <1>1, <1>2
<1>8. \A j, k \in DOMAIN resultChan : resultChan[j].index = resultChan[k].index => j = k
  BY DEF Places
<1>9. \A k \in DOMAIN resultChan' : k \in Nat /\ k >= 1 /\ k + 1 # 1
  BY <1>1, <1>4
<1>10. Reported' = Reported \ {resultChan[1].index}
  <2>1. \A i \in Reported' : i \in Reported \ {resultChan[1].index}
    BY <1>5, <1>7, <1>8, <1>9 DEF Reported
  <2>2. ASSUME NEW i \in Reported \ {resultChan[1].index} PROVE i \in Reported'
    <3>1. PICK k \in DOMAIN resultChan : resultChan[k].index = i /\ k # 1
      BY DEF Reported
    <3> QED
      BY <1>5, <1>6, <3>1 DEF Reported
  <2> QED
    BY <2>1, <2>2
<1> QED
  BY <1>2, <1>3, <1>5, <1>7, <1>10 DEF R, n, Reported

-----------------------------------------------------------------------------
(* TextsOf satisfies its recursive definition. *)
LEMMA TextsOfDef ==
    /\ TextsOf[0] = <<>>
    /\ \A i \in Chunk : TextsOf[i] = IF results[i] = NoText THEN TextsOf[i - 1]
                                     ELSE Append(TextsOf[i - 1], results[i])
<1> DEFINE Step(g, i) == IF i = 0 THEN <<>>
                         ELSE IF results[i] = NoText THEN g[i - 1]
                         ELSE Append(g[i - 1], results[i])
           Solved == {n \in Nat : \E g : g = [i \in 0 .. n |-> Step(g, i)]}
<1>1. 0 \in Solved
  <2> DEFINE g == [i \in 0 .. 0 |-> <<>>]
  <2>1. g = [i \in 0 .. 0 |-> Step(g, i)]
    OBVIOUS
  <2> QED
    BY <2>1
<1>2. ASSUME NEW n \in Solved PROVE n + 1 \in Solved
  <2>1. n \in Nat
    OBVIOUS
  <2>2. PICK g : g = [i \in 0 .. n |-> Step(g, i)]
    OBVIOUS
  <2>a. \A i \in 0 .. n : g[i] = Step(g, i)
    <3> HIDE DEF Step
    <3> QED
      BY <2>2
  <2> DEFINE h == [i \in 0 .. n + 1 |-> IF i <= n THEN g[i] ELSE Step(g, i)]
             k == [i \in 0 .. n + 1 |-> Step(h, i)]
  <2>3. ASSUME NEW i \in 0 .. n + 1 PROVE h[i] = Step(h, i)
    <3>1. CASE i = 0
      BY <2>1, <2>2, <3>1
    <3>2. CASE i \in 1 .. n
      <4>1. i - 1 \in 0 .. n + 1 /\ i - 1 <= n
        BY <2>1, <3>2
      <4>2. h[i - 1] = g[i - 1] /\ h[i] = g[i]
        BY <2>1, <3>2, <4>1
      <4>3. g[i] = Step(g, i)
        BY <2>1, <2>a, <3>2
      <4> HIDE DEF h
      <4> QED
        BY <4>2, <4>3
    <3>3. CASE i = n + 1
      <4>1. i - 1 \in 0 .. n + 1 /\ i - 1 <= n /\ ~(i <= n)
        BY <2>1, <3>3
      <4>2. h[i - 1] = g[i - 1] /\ h[i] = Step(g, i)
        BY <4>1
      <4> HIDE DEF h
      <4> QED
        BY <4>2
    <3> QED
      BY <2>1, <3>1, <3>2, <3>3
  <2>4. h = k
    <3> HIDE DEF Step
    <3> QED
      BY <2>3
  <2> HIDE DEF h
  <2> HIDE DEF Step
  <2>5. h = [i \in 0 .. n + 1 |-> Step(h, i)]
    BY <2>4
  <2>6. \E f : f = [i \in 0 .. n + 1 |-> Step(f, i)]
    BY <2>5, Zenon
  <2> QED
    BY <2>1, <2>6
<1>3. NumChunks \in Solved
  <2> HIDE DEF Solved
  <2>1. Solved \in SUBSET Nat
    BY DEF Solved
  <2> QED
    BY <1>1, <1>2, <2>1, SetInduction, ChunkAssumption
<1>4. TextsOf = [i \in 0 .. NumChunks |-> Step(TextsOf, i)]
  <2>1. \E g : g = [i \in 0 .. NumChunks |-> Step(g, i)]
    BY <1>3
  <2> DEFINE Sol(g) == g = [i \in 0 .. NumChunks |-> Step(g, i)]
  <2>2. TextsOf = CHOOSE g : Sol(g)
    BY Zenon DEF TextsOf
  <2>3. \E g : Sol(g)
    BY <2>1
  <2> HIDE DEF Sol
  <2>4. Sol(CHOOSE g : Sol(g))
    BY <2>3, Zenon
  <2>5. Sol(TextsOf)
    BY <2>2, <2>4
  <2> QED
    BY <2>5 DEF Sol
<1>5. \A i \in 0 .. NumChunks : TextsOf[i] = Step(TextsOf, i)
  <2> HIDE DEF Step
  <2> QED
    BY <1>4
<1> QED
  BY <1>5, ChunkAssumption DEF Chunk

(* The joined texts are texts, one for a chunk at most, and none of them is *)
(* forgotten: they are empty only if all are.                               *)
LEMMA JoinedTexts ==
    ASSUME Typing
    PROVE  /\ FullText \in BoundedSeq(Text, NumChunks)
           /\ FullText = <<>> => \A i \in Chunk : results[i] = NoText
<1> DEFINE Good(n) == /\ TextsOf[n] \in Seq(Text)
                      /\ Len(TextsOf[n]) <= n
                      /\ TextsOf[n] = <<>> => \A i \in 1 .. n : results[i] = NoText
           Holds == {n \in Nat : n <= NumChunks => Good(n)}
<1>1. 0 \in Holds
  <2>1. <<>> \in Seq(Text) /\ Len(<<>>) = 0
    OBVIOUS
  <2>2. Good(0)
    BY <2>1, TextsOfDef
  <2> HIDE DEF Good
  <2> QED
    BY <2>2
<1>2. ASSUME NEW n \in Holds PROVE n + 1 \in Holds
  <2> SUFFICES ASSUME n + 1 <= NumChunks PROVE Good(n + 1)
    OBVIOUS
  <2>1. n \in Nat /\ n + 1 \in Chunk /\ (n + 1) - 1 = n
    BY ChunkAssumption DEF Chunk
  <2>2. Good(n)
    <3>1. n \in Holds /\ n <= NumChunks
      BY <2>1, ChunkAssumption DEF Chunk
    <3> HIDE DEF Good
    <3> QED
      BY <3>1
  <2>3. results[n + 1] \in Text \cup {NoText}
    BY <2>1 DEF Typing
  <2>4. \A i \in 1 .. n + 1 : i \in 1 .. n \/ i = n + 1
    BY <2>1
  <2>5. CASE results[n + 1] = NoText
    <3>1. TextsOf[n + 1] = TextsOf[n]
      BY <2>1, <2>5, TextsOfDef
    <3>2. Len(TextsOf[n]) \in Nat
      BY <2>2, LenProperties
    <3> QED
      BY <2>1, <2>2, <2>4, <2>5, <3>1, <3>2
  <2>6. CASE results[n + 1] # NoText
    <3>1. TextsOf[n + 1] = Append(TextsOf[n], results[n + 1])
      BY <2>1, <2>6, TextsOfDef
    <3>2. results[n + 1] \in Text /\ TextsOf[n] \in Seq(Text) /\ Len(TextsOf[n]) \in Nat
      BY <2>2, <2>3, <2>6, LenProperties
    <3>3. TextsOf[n + 1] \in Seq(Text) /\ Len(TextsOf[n + 1]) = Len(TextsOf[n]) + 1
      BY <3>1, <3>2, AppendProperties
    <3>4. TextsOf[n + 1] # <<>>
      BY <3>2, <3>3
    <3> QED
      BY <2>1, <2>2, <3>2, <3>3, <3>4
  <2> QED
    BY <2>5, <2>6
<1>3. Good(NumChunks)
  <2> HIDE DEF Good
  <2>1. Holds \in SUBSET Nat
    OBVIOUS
  <2> HIDE DEF Holds
  <2>2. Holds = Nat
    BY <1>1, <1>2, <2>1, SetInduction
  <2> QED
    BY <2>2, ChunkAssumption DEF Holds
<1>4. FullText \in BoundedSeq(Text, NumChunks)
  <2> DEFINE m == Len(FullText)
  <2>1. FullText \in Seq(Text) /\ m <= NumChunks
    BY <1>3 DEF FullText
  <2>2. m \in 0 .. NumChunks /\ FullText \in [1 .. m -> Text]
    BY <2>1, LenProperties, ChunkAssumption
  <2> HIDE DEF m
  <2> QED
    BY <2>2 DEF BoundedSeq, SeqOf
<1> QED
  BY <1>3, <1>4 DEF FullText, Chunk

-----------------------------------------------------------------------------
(* Every step keeps the types. *)
LEMMA TypingStep ==
    ASSUME Typing, Places, [Next]_vars
    PROVE  Typing'
<1> USE DEF WorkerTo, poolVars, chanVars, callerVars
<1>1. ASSUME Distribute PROVE Typing'
  <2>1. nextChunk \in Chunk /\ workChan' \in Seq(Chunk)
    BY <1>1, ChunkAssumption, AppendProperties DEF Distribute, Typing, Chunk
  <2>2. nextChunk' \in 1 .. NumChunks + 1
    BY <1>1, ChunkAssumption DEF Distribute, Typing
  <2> QED
    BY <1>1, <2>1, <2>2 DEF Distribute, Typing
<1>2. ASSUME CloseWork PROVE Typing'
  BY <1>2 DEF CloseWork, Typing
<1>3. ASSUME CloseResults PROVE Typing'
  BY <1>3 DEF CloseResults, Typing
<1>4. ASSUME Collect PROVE Typing'
  <2>1. resultChan # <<>> /\ resultChan' = Tail(resultChan)
    BY <1>4 DEF Collect
  <2>2. resultChan' \in Seq([index : Chunk, outcome : Outcome])
    BY <2>1, ReportTaken
  <2>3. Head(resultChan).index \in Chunk /\ Head(resultChan).outcome \in Outcome
    BY <2>1, ReportTaken, Sizes
  <2>4. completed' \in Nat /\ failed' \in 0 .. completed'
    BY <1>4 DEF Collect, Typing
  <2>5. results' \in [Chunk -> Text \cup {NoText}]
    BY <1>4, <2>3 DEF Collect, Typing, Slot, Outcome
  <2> QED
    BY <1>4, <2>2, <2>4, <2>5 DEF Collect, Typing
<1>5. ASSUME Return PROVE Typing'
  <2>1. answer' = AllFailed \/ \E s \in BoundedSeq(Text, NumChunks) : answer' = Answered(s)
    BY <1>5, JoinedTexts DEF Return
  <2> QED
    BY <1>5, <2>1 DEF Return, Typing
<1>6. ASSUME Expire PROVE Typing'
  BY <1>6 DEF Expire, Typing
<1>7. ASSUME OtherLock PROVE Typing'
  BY <1>7 DEF OtherLock, Typing
<1>8. ASSUME OtherUnlock PROVE Typing'
  BY <1>8 DEF OtherUnlock, Typing
<1>9. ASSUME NEW w \in Worker, Receive(w) PROVE Typing'
  <2>1. workChan' \in Seq(Chunk) /\ Head(workChan) \in Chunk
    BY <1>9, HeadTailProperties DEF Receive, Typing
  <2>2. chunk' \in [Worker -> 0 .. NumChunks]
    BY <1>9, <2>1, ChunkAssumption DEF Receive, Typing, Chunk
  <2> QED
    BY <1>9, <2>1, <2>2 DEF Receive, Typing
<1>10. ASSUME NEW w \in Worker, Finish(w) PROVE Typing'
  BY <1>10 DEF Finish, Typing
<1>11. ASSUME NEW w \in Worker, CheckDeadline(w) PROVE Typing'
  BY <1>11 DEF CheckDeadline, Typing
<1>12. ASSUME NEW w \in Worker, Quit(w) PROVE Typing'
  <2>1. chunk[w] \in Chunk /\ Failed \in Outcome /\ ReportTo(chunk[w], Failed)
    BY <1>12 DEF Quit, LateReport, Places, Holding, Outcome
  <2>2. resultChan' \in Seq([index : Chunk, outcome : Outcome])
    BY <2>1, ReportAdded
  <2> QED
    BY <1>12, <2>2 DEF Quit, Typing
<1>13. ASSUME NEW w \in Worker, Lock(w) PROVE Typing'
  BY <1>13 DEF Lock, Typing
<1>14. ASSUME NEW w \in Worker, Recognize(w) PROVE Typing'
  BY <1>14 DEF Recognize, Typing
<1>15. ASSUME NEW w \in Worker, Report(w) PROVE Typing'
  <2>1. chunk[w] \in Chunk /\ outcome[w] \in Outcome /\ ReportTo(chunk[w], outcome[w])
    BY <1>15 DEF Report, Places, Holding, Typing
  <2>2. resultChan' \in Seq([index : Chunk, outcome : Outcome])
    BY <2>1, ReportAdded
  <2> QED
    BY <1>15, <2>2 DEF Report, Typing
<1>16. ASSUME UNCHANGED vars PROVE Typing'
  BY <1>16 DEF vars, Typing
<1> QED
  BY <1>1, <1>2, <1>3, <1>4, <1>5, <1>6, <1>7, <1>8, <1>9, <1>10, <1>11, <1>12, <1>13,
     <1>14, <1>15, <1>16 DEF Next, WorkerStep

(* No chunk comes to be at two places and none gets lost: a step that takes *)
(* a chunk out of one place puts it into the next.                          *)
LEMMA PlacesStep ==
    ASSUME Typing, Places, Ledger, [Next]_vars
    PROVE  Places' /\ Ledger'
<1> USE DEF WorkerTo, poolVars, chanVars, callerVars
<1>0. /\ Len(workChan) \in Nat /\ Len(resultChan) \in Nat /\ Cardinality(Holding) \in Nat
      /\ NumChunks \in Nat /\ nextChunk \in 1 .. NumChunks + 1 /\ completed \in Nat
      /\ IsFiniteSet(Holding)
  BY Sizes, ChunkAssumption DEF Typing
<1>1. ASSUME Distribute PROVE Places' /\ Ledger'
  <2>1. nextChunk \in Chunk /\ workChan \in Seq(Chunk) /\ nextChunk \notin ToSet(workChan)
        /\ IsInjective(workChan)
    BY <1>1, <1>0 DEF Distribute, Typing, Chunk, Places, Waiting
  <2>2. /\ Len(workChan') = Len(workChan) + 1
        /\ IsInjective(workChan')
        /\ Waiting' = Waiting \cup {nextChunk}
    BY <1>1, <2>1, AppendNewInjective DEF Distribute, Waiting
  <2>3. Holding' = Holding /\ Reported' = Reported
    BY <1>1 DEF Distribute, Holding, Reported
  <2>4. nextChunk' = nextChunk + 1 /\ UNCHANGED <<chunk, resultChan, completed>>
    BY <1>1 DEF Distribute
  <2>5. Places'
    <3>1. \A w \in Holding : chunk[w] \in Nat /\ chunk[w] < nextChunk
      BY DEF Places, Chunk
    <3>2. \A i \in Waiting \cup Reported : i \in Nat /\ i < nextChunk
      BY Sizes DEF Places, Chunk
    <3> QED
      BY <1>0, <2>2, <2>3, <2>4, <3>1, <3>2 DEF Places
  <2>6. Ledger'
    BY <1>0, <2>2, <2>3, <2>4 DEF Ledger
  <2> QED
    BY <2>5, <2>6
<1>2. ASSUME UNCHANGED <<nextChunk, workChan, resultChan, pc, chunk, completed>>
      PROVE  Places' /\ Ledger'
  BY <1>2 DEF Places, Ledger, Holding, Waiting, Reported
<1>3. ASSUME Collect PROVE Places' /\ Ledger'
  <2>1. resultChan # <<>> /\ resultChan' = Tail(resultChan) /\ completed' = completed + 1
        /\ UNCHANGED <<nextChunk, workChan, pc, chunk>>
    BY <1>3 DEF Collect
  <2>2. Holding' = Holding /\ Waiting' = Waiting
    BY <2>1 DEF Holding, Waiting
  <2>3. /\ Len(resultChan') = Len(resultChan) - 1
        /\ \A k \in DOMAIN resultChan' :
                 k + 1 \in DOMAIN resultChan /\ resultChan'[k] = resultChan[k + 1]
        /\ Reported' = Reported \ {Head(resultChan).index}
        /\ resultChan' \in Seq([index : Chunk, outcome : Outcome])
    BY <2>1, ReportTaken
  <2>4. \A j, k \in DOMAIN resultChan' : resultChan'[j].index = resultChan'[k].index => j = k
    <3>1. DOMAIN resultChan' \subseteq Nat
      BY <2>3, LenProperties
    <3> QED
      BY <2>3, <3>1 DEF Places
  <2>5. Places'
    BY <2>1, <2>2, <2>3, <2>4 DEF Places
  <2>6. Ledger'
    <3>1. (NumChunks - nextChunk + 1) + Len(workChan) + Cardinality(Holding)
              + (Len(resultChan) - 1) + (completed + 1) = NumChunks
      BY <1>0 DEF Ledger
    <3> QED
      BY <2>1, <2>2, <2>3, <3>1 DEF Ledger
  <2> QED
    BY <2>5, <2>6
<1>4. ASSUME NEW w \in Worker, Receive(w) PROVE Places' /\ Ledger'
  <2> DEFINE i == Head(workChan)
  <2>1. /\ pc[w] = "receive" /\ workChan # <<>> /\ workChan' = Tail(workChan)
        /\ chunk' = [chunk EXCEPT ![w] = i] /\ pc' = [pc EXCEPT ![w] = "check"]
        /\ UNCHANGED <<nextChunk, resultChan, completed>>
    BY <1>4 DEF Receive
  <2>2. /\ Len(workChan') = Len(workChan) - 1
        /\ IsInjective(workChan')
        /\ i \in Chunk /\ i \in Waiting
        /\ Waiting' = Waiting \ {i}
    <3>1. workChan \in Seq(Chunk) /\ workChan # <<>> /\ IsInjective(workChan)
      BY <2>1 DEF Typing, Places
    <3> QED
      BY <2>1, <3>1, TailInjective DEF Waiting
  <2>3. w \notin Holding /\ Holding' = Holding \cup {w} /\ Reported' = Reported
    BY <2>1 DEF Holding, Typing, Reported
  <2>4. Cardinality(Holding') = Cardinality(Holding) + 1
    BY <1>0, <2>3, FS_AddElement
  <2>5. \A v \in Worker : chunk'[v] = IF v = w THEN i ELSE chunk[v]
    BY <2>1 DEF Typing
  <2> HIDE DEF i
  <2>6. Places'
    <3>1. \A v \in Holding' : v \in Worker /\ (v = w \/ v \in Holding)
      BY <2>3 DEF Holding
    <3>2. \A v \in Holding : v # w /\ chunk[v] # i
      BY <2>2, <2>3 DEF Places
    <3>3. \A u, v \in Holding' : chunk'[u] = chunk'[v] => u = v
      BY <2>5, <3>1, <3>2 DEF Places
    <3>4. \A v \in Holding' : chunk'[v] \in Chunk /\ chunk'[v] < nextChunk
                              /\ chunk'[v] \notin Waiting' /\ chunk'[v] \notin Reported
      BY <2>2, <2>5, <3>1, <3>2 DEF Places
    <3> QED
      BY <2>1, <2>2, <2>3, <3>3, <3>4 DEF Places
  <2>7. Ledger'
    BY <1>0, <2>1, <2>2, <2>4 DEF Ledger
  <2> QED
    BY <2>6, <2>7
<1>5. ASSUME NEW w \in Worker, NEW o \in Outcome, w \in Holding, ReportTo(chunk[w], o),
             NEW place \in {"done", "receive"}, pc' = [pc EXCEPT ![w] = place],
             UNCHANGED <<nextChunk, workChan, chunk, completed>>
      PROVE  Places' /\ Ledger'
  <2> DEFINE i == chunk[w]
             n == Len(resultChan)
  <2>1. i \in Chunk /\ i < nextChunk /\ i \notin Waiting /\ i \notin Reported
    BY <1>5 DEF Places
  <2>2. /\ Len(resultChan') = n + 1
        /\ DOMAIN resultChan' = DOMAIN resultChan \cup {n + 1}
        /\ \A k \in DOMAIN resultChan : resultChan'[k] = resultChan[k]
        /\ resultChan'[n + 1] = [index |-> i, outcome |-> o]
        /\ Reported' = Reported \cup {i}
    BY <1>5, <2>1, ReportAdded
  <2>3. Holding' = Holding \ {w} /\ Waiting' = Waiting
    BY <1>5 DEF Holding, Typing, Waiting
  <2>4. Cardinality(Holding') = Cardinality(Holding) - 1
    BY <1>0, <1>5, <2>3, FS_RemoveElement
  <2>5. \A k \in DOMAIN resultChan : resultChan[k].index # i
    BY <2>1 DEF Reported
  <2>6. resultChan'[n + 1].index = i
    BY <2>2
  <2> HIDE DEF i, n
  <2>7. \A j, k \in DOMAIN resultChan' : resultChan'[j].index = resultChan'[k].index => j = k
    BY <2>2, <2>5, <2>6 DEF Places
  <2>8. \A v \in Holding' : v \in Holding /\ chunk'[v] = chunk[v] /\ chunk[v] # i
    BY <1>5, <2>3 DEF Places, i
  <2>9. Places'
    BY <1>5, <2>1, <2>2, <2>3, <2>7, <2>8 DEF Places
  <2>10. Ledger'
    <3>1. /\ Len(resultChan') = Len(resultChan) + 1
          /\ nextChunk' = nextChunk /\ Len(workChan') = Len(workChan) /\ completed' = completed
      BY <1>5, <2>2 DEF n
    <3>2. (NumChunks - nextChunk + 1) + Len(workChan) + (Cardinality(Holding) - 1)
              + (Len(resultChan) + 1) + completed = NumChunks
      BY <1>0 DEF Ledger
    <3> QED
      BY <2>4, <3>1, <3>2 DEF Ledger
  <2> QED
    BY <2>9, <2>10
<1>6. ASSUME NEW w \in Worker, Quit(w) PROVE Places' /\ Ledger'
  <2>1. Failed \in Outcome /\ w \in Holding
    BY <1>6 DEF Quit, Outcome, Holding
  <2> QED
    BY <1>5, <1>6, <2>1 DEF Quit, LateReport
<1>7. ASSUME NEW w \in Worker, Report(w) PROVE Places' /\ Ledger'
  <2>1. outcome[w] \in Outcome /\ w \in Holding
    BY <1>7 DEF Report, Holding, Typing
  <2> QED
    BY <1>5, <1>7, <2>1 DEF Report
<1>8. ASSUME NEW w \in Worker,
             \/ CheckDeadline(w) \/ Lock(w) \/ Recognize(w) \/ Finish(w)
      PROVE  Places' /\ Ledger'
  <2>1. Holding' = Holding
    BY <1>8 DEF CheckDeadline, Lock, Recognize, Finish, Holding, Typing
  <2>2. UNCHANGED <<nextChunk, workChan, resultChan, chunk, completed>>
    BY <1>8 DEF CheckDeadline, Lock, Recognize, Finish
  <2> QED
    BY <2>1, <2>2 DEF Places, Ledger, Waiting, Reported
<1> QED
  BY <1>1, <1>2, <1>3, <1>4, <1>6, <1>7, <1>8
  DEF Next, WorkerStep, CloseWork, CloseResults, Return, Expire, OtherLock, OtherUnlock, vars

(* The mutex is held by the goroutine that decodes, by another user, or by  *)
(* nobody.                                                                  *)
LEMMA MutexStep ==
    ASSUME Typing, OneAtATime, [Next]_vars
    PROVE  OneAtATime'
<1> USE DEF WorkerTo, poolVars, chanVars, callerVars
<1>0. Other \notin Worker /\ NoOne \notin Worker /\ Other # NoOne
  BY ValueAssumption
<1>1. CASE UNCHANGED <<pc, mutex>>
  BY <1>1 DEF OneAtATime
<1>2. CASE OtherLock \/ OtherUnlock
  BY <1>0, <1>2 DEF OtherLock, OtherUnlock, OneAtATime
<1>3. ASSUME NEW w \in Worker,
             Receive(w) \/ Finish(w) \/ CheckDeadline(w) \/ Quit(w) \/ Report(w)
      PROVE  OneAtATime'
  BY <1>3 DEF Receive, Finish, CheckDeadline, Quit, Report, OneAtATime, Typing
<1>4. ASSUME NEW w \in Worker, Lock(w) PROVE OneAtATime'
  BY <1>0, <1>4 DEF Lock, MutexIsFree, OneAtATime, Typing
<1>5. ASSUME NEW w \in Worker, Recognize(w) PROVE OneAtATime'
  BY <1>0, <1>5 DEF Recognize, OneAtATime, Typing
<1> QED
  BY <1>1, <1>2, <1>3, <1>4, <1>5
  DEF Next, WorkerStep, Distribute, CloseWork, CloseResults, Collect, Return, Expire, vars

-----------------------------------------------------------------------------
(* What is known of every chunk stays true as it moves on: a step that does *)
(* not collect leaves the same chunks under way.                            *)
LEMMA HistoryKept ==
    ASSUME Typing, History,
           \A i \in Chunk : Ahead(i)' => Ahead(i),
           \A i \in Chunk : UnderWay(i)' <=> UnderWay(i),
           expired => expired', UNCHANGED <<results, failed>>,
           \A i \in Chunk : Ahead(i)' \/ ~UnderWay(i) => decoded'[i] = decoded[i],
           \A w \in Worker : pc'[w] = "report" => decoded'[chunk'[w]] = outcome'[w],
           \A k \in DOMAIN resultChan' :
              \/ decoded'[resultChan'[k].index] = resultChan'[k].outcome
              \/ /\ decoded'[resultChan'[k].index] = Undecoded
                 /\ resultChan'[k].outcome = Failed /\ expired'
    PROVE  History'
<1>1. \A i \in Chunk : Ahead(i)' => decoded'[i] = Undecoded
  BY DEF History
<1>2. \A i \in Chunk : UnderWay(i)' => results'[i] = NoText
  BY DEF History
<1>3. ASSUME NEW i \in Chunk, ~UnderWay(i)'
      PROVE  \/ decoded'[i] = Undecoded /\ expired' /\ results'[i] = NoText /\ failed' > 0
             \/ decoded'[i] = Failed /\ results'[i] = NoText /\ failed' > 0
             \/ decoded'[i] \in Text \cup {NoText} /\ results'[i] = decoded'[i]
  <2>1. ~UnderWay(i) /\ decoded'[i] = decoded[i]
    BY <1>3
  <2> QED
    BY <2>1 DEF History
<1> QED
  BY <1>1, <1>2, <1>3 DEF History

(* A report that was taken tells what the recogniser said, or that the      *)
(* deadline passed before it was asked.                                     *)
LEMMA HistoryStep ==
    ASSUME Typing, Places, History, [Next]_vars
    PROVE  History'
<1> USE DEF WorkerTo, poolVars, chanVars, callerVars
<1>0. \A i \in Chunk : i \in Nat /\ nextChunk \in Nat
  BY DEF Chunk, Typing
<1>1. ASSUME Distribute PROVE History'
  <2>1. nextChunk \in Chunk /\ workChan \in Seq(Chunk) /\ nextChunk \notin ToSet(workChan)
        /\ IsInjective(workChan)
    BY <1>0, <1>1, ChunkAssumption DEF Distribute, Typing, Chunk, Places, Waiting
  <2>2. Waiting' = Waiting \cup {nextChunk} /\ nextChunk' = nextChunk + 1
    BY <1>1, <2>1, AppendNewInjective DEF Distribute, Waiting
  <2>3. UNCHANGED <<pc, chunk, resultChan, outcome, results, failed, expired, decoded>>
    BY <1>1 DEF Distribute
  <2>4. Reported' = Reported
    BY <2>3 DEF Reported
  <2>5. \A i \in Chunk : Ahead(i)' <=> Ahead(i)
    BY <1>0, <2>2, <2>3 DEF Ahead
  <2>6. \A i \in Chunk : UnderWay(i)' <=> UnderWay(i)
    BY <2>3, <2>4, <2>5 DEF UnderWay
  <2> QED
    BY <2>3, <2>5, <2>6 DEF History
<1>2. CASE /\ UNCHANGED <<nextChunk, workChan, pc, chunk, resultChan, outcome, results, failed,
                          decoded>>
           /\ expired => expired'
  BY <1>2 DEF History, UnderWay, Ahead, Waiting, Reported
<1>3. ASSUME Collect PROVE History'
  <2> DEFINE r == Head(resultChan)
  <2>1. /\ resultChan # <<>> /\ resultChan' = Tail(resultChan)
        /\ UNCHANGED <<nextChunk, workChan, pc, chunk, outcome, expired, decoded>>
        /\ \/ r.outcome = Failed /\ failed' = failed + 1 /\ results' = results
           \/ r.outcome # Failed /\ failed' = failed
                  /\ results' = [results EXCEPT ![r.index] = r.outcome]
    BY <1>3 DEF Collect, Slot
  <2>2. /\ \A k \in DOMAIN resultChan' :
                 k + 1 \in DOMAIN resultChan /\ resultChan'[k] = resultChan[k + 1]
        /\ 1 \in DOMAIN resultChan /\ r = resultChan[1]
        /\ r.index \in Reported
        /\ Reported' = Reported \ {r.index}
    BY <2>1, ReportTaken
  <2>3. r.index \in Chunk /\ r.outcome \in Outcome
    BY <2>2, Sizes
  <2>4. \/ decoded[r.index] = r.outcome
        \/ decoded[r.index] = Undecoded /\ r.outcome = Failed /\ expired
    BY <2>2 DEF History
  <2> HIDE DEF r
  <2>5. r.index < nextChunk /\ r.index \notin Waiting
        /\ \A w \in Worker : pc[w] \in {"check", "lock", "recognize", "report"} => chunk[w] # r.index
    BY <2>2 DEF Places, Holding
  <2>6. \A i \in Chunk : Ahead(i)' <=> Ahead(i)
    BY <2>1 DEF Ahead, Waiting
  <2>7. ~Ahead(r.index)
    BY <1>0, <2>3, <2>5 DEF Ahead
  <2>8. \A i \in Chunk : UnderWay(i)' <=> UnderWay(i) /\ i # r.index
    BY <2>1, <2>2, <2>5, <2>6, <2>7 DEF UnderWay
  <2>9. UnderWay(r.index)
    BY <2>2 DEF UnderWay
  <2>10. results[r.index] = NoText
    BY <2>3, <2>9 DEF History
  <2>11. failed \in Nat /\ failed' \in Nat /\ failed' >= failed
    BY <2>1 DEF Typing
  <2>12. results \in [Chunk -> Text \cup {NoText}]
    BY DEF Typing
  <2>13. \A i \in Chunk : i # r.index => results'[i] = results[i]
    BY <2>1, <2>12
  <2>14. ASSUME NEW i \in Chunk, ~UnderWay(i)'
         PROVE  \/ decoded'[i] = Undecoded /\ expired' /\ results'[i] = NoText /\ failed' > 0
                \/ decoded'[i] = Failed /\ results'[i] = NoText /\ failed' > 0
                \/ decoded'[i] \in Text \cup {NoText} /\ results'[i] = decoded'[i]
    <3>1. CASE i # r.index
      <4>1. \/ decoded[i] = Undecoded /\ expired /\ results[i] = NoText /\ failed > 0
            \/ decoded[i] = Failed /\ results[i] = NoText /\ failed > 0
            \/ decoded[i] \in Text \cup {NoText} /\ results[i] = decoded[i]
        BY <2>8, <2>14, <3>1 DEF History
      <4> QED
        BY <2>1, <2>11, <2>13, <3>1, <4>1
    <3>2. CASE i = r.index /\ r.outcome = Failed
      BY <2>1, <2>4, <2>10, <2>11, <3>2
    <3>3. CASE i = r.index /\ r.outcome # Failed
      <4>1. results'[i] = r.outcome
        BY <2>1, <2>3, <2>12, <3>3
      <4>2. r.outcome \in Text \cup {NoText}
        BY <2>3, <3>3 DEF Outcome
      <4> QED
        BY <2>1, <2>4, <3>3, <4>1, <4>2
    <3> QED
      BY <3>1, <3>2, <3>3
  <2>15. \A i \in Chunk : Ahead(i)' => decoded'[i] = Undecoded
    BY <2>1, <2>6 DEF History
  <2>16. \A w \in Worker : pc'[w] = "report" => decoded'[chunk'[w]] = outcome'[w]
    BY <2>1 DEF History
  <2>17. \A k \in DOMAIN resultChan' :
            \/ decoded'[resultChan'[k].index] = resultChan'[k].outcome
            \/ /\ decoded'[resultChan'[k].index] = Undecoded
               /\ resultChan'[k].outcome = Failed /\ expired'
    BY <2>1, <2>2 DEF History
  <2>18. \A i \in Chunk : UnderWay(i)' => results'[i] = NoText
    BY <2>8, <2>13 DEF History
  <2> QED
    BY <2>14, <2>15, <2>16, <2>17, <2>18 DEF History
<1>4. ASSUME NEW w \in Worker, Receive(w) PROVE History'
  <2> DEFINE h == Head(workChan)
  <2>1. /\ pc[w] = "receive" /\ workChan # <<>> /\ workChan' = Tail(workChan)
        /\ chunk' = [chunk EXCEPT ![w] = h] /\ pc' = [pc EXCEPT ![w] = "check"]
        /\ UNCHANGED <<nextChunk, resultChan, outcome, results, failed, expired, decoded>>
    BY <1>4 DEF Receive
  <2>2. h \in Waiting /\ Waiting' = Waiting \ {h}
    <3>1. workChan \in Seq(Chunk) /\ workChan # <<>> /\ IsInjective(workChan)
      BY <2>1 DEF Typing, Places
    <3> QED
      BY <2>1, <3>1, TailInjective DEF Waiting
  <2>3. \A v \in Worker : /\ chunk'[v] = IF v = w THEN h ELSE chunk[v]
                          /\ pc'[v] = IF v = w THEN "check" ELSE pc[v]
    BY <2>1 DEF Typing
  <2>4. Reported' = Reported
    BY <2>1 DEF Reported
  <2> HIDE DEF h
  <2>5. \A i \in Chunk : Ahead(i)' <=> Ahead(i)
    BY <2>1, <2>2, <2>3 DEF Ahead
  <2>6. \A i \in Chunk : UnderWay(i)' <=> UnderWay(i)
    BY <2>1, <2>3, <2>4, <2>5 DEF UnderWay
  <2>7. \A v \in Worker : pc'[v] = "report" => decoded'[chunk'[v]] = outcome'[v]
    BY <2>1, <2>3 DEF History
  <2> QED
    BY <2>1, <2>5, <2>6, <2>7 DEF History
<1>5. ASSUME NEW w \in Worker, CheckDeadline(w) \/ Lock(w) \/ Finish(w) PROVE History'
  <2>1. /\ UNCHANGED <<nextChunk, workChan, chunk, resultChan, outcome, results, failed,
                       expired, decoded>>
        /\ \A v \in Worker :
              /\ pc'[v] = "report" <=> pc[v] = "report"
              /\ pc'[v] \in {"check", "lock", "recognize"} <=> pc[v] \in {"check", "lock", "recognize"}
    BY <1>5 DEF CheckDeadline, Lock, Finish, Typing
  <2>2. Reported' = Reported /\ Waiting' = Waiting
    BY <2>1 DEF Reported, Waiting
  <2>3. \A i \in Chunk : Ahead(i)' <=> Ahead(i)
    BY <2>1, <2>2 DEF Ahead
  <2>4. \A i \in Chunk : UnderWay(i)' <=> UnderWay(i)
    BY <2>1, <2>2, <2>3 DEF UnderWay
  <2> QED
    BY <2>1, <2>3, <2>4 DEF History
<1>6. ASSUME NEW w \in Worker, Quit(w) \/ Report(w) PROVE History'
  <2> DEFINE c == chunk[w]
             o == IF pc[w] = "check" THEN Failed ELSE outcome[w]
             n == Len(resultChan)
  <2>1. /\ pc[w] \in {"check", "report"} /\ w \in Holding
        /\ pc[w] = "check" => expired
        /\ ReportTo(c, o) /\ o \in Outcome
        /\ UNCHANGED <<nextChunk, workChan, chunk, outcome, results, failed, expired, decoded>>
    BY <1>6 DEF Quit, LateReport, Report, Holding, Typing, Outcome
  <2>2. \A v \in Worker : /\ v = w => pc'[v] \notin {"check", "lock", "recognize", "report"}
                          /\ v # w => pc'[v] = pc[v]
    BY <1>6 DEF Quit, Report, Typing
  <2>3. c \in Chunk
    BY <2>1 DEF Places
  <2>4. /\ DOMAIN resultChan' = DOMAIN resultChan \cup {n + 1}
        /\ \A k \in DOMAIN resultChan : resultChan'[k] = resultChan[k]
        /\ resultChan'[n + 1] = [index |-> c, outcome |-> o]
        /\ Reported' = Reported \cup {c}
    BY <2>1, <2>3, ReportAdded
  <2>5. resultChan'[n + 1].index = c /\ resultChan'[n + 1].outcome = o
    BY <2>4
  <2>6. pc[w] = "check" => Ahead(c)
    BY <2>1 DEF Ahead
  <2>7. \/ decoded[c] = o
        \/ decoded[c] = Undecoded /\ o = Failed /\ expired
    BY <2>1, <2>3, <2>6 DEF History
  <2> HIDE DEF o, n
  <2>8. \A i \in Chunk : Ahead(i)' => Ahead(i)
    BY <2>1, <2>2 DEF Ahead, Waiting
  <2>9. \A i \in Chunk : Ahead(i) => Ahead(i)' \/ i = c
    BY <2>1, <2>2 DEF Ahead, Waiting
  <2>10. \A i \in Chunk : UnderWay(i)' <=> UnderWay(i)
    <3>1. ASSUME NEW i \in Chunk, i = c PROVE UnderWay(i)' <=> UnderWay(i)
      BY <2>1, <2>4, <2>6, <3>1 DEF UnderWay
    <3>2. ASSUME NEW i \in Chunk, i # c PROVE UnderWay(i)' <=> UnderWay(i)
      BY <2>1, <2>2, <2>4, <2>8, <2>9, <3>2 DEF UnderWay
    <3> QED
      BY <3>1, <3>2
  <2>11. \A v \in Worker : pc'[v] = "report" => decoded'[chunk'[v]] = outcome'[v]
    BY <2>1, <2>2 DEF History
  <2>12. \A k \in DOMAIN resultChan' :
            \/ decoded'[resultChan'[k].index] = resultChan'[k].outcome
            \/ /\ decoded'[resultChan'[k].index] = Undecoded
               /\ resultChan'[k].outcome = Failed /\ expired'
    <3> SUFFICES ASSUME NEW k \in DOMAIN resultChan'
                 PROVE  \/ decoded[resultChan'[k].index] = resultChan'[k].outcome
                        \/ /\ decoded[resultChan'[k].index] = Undecoded
                           /\ resultChan'[k].outcome = Failed /\ expired
      BY <2>1
    <3>1. CASE k = n + 1
      BY <2>5, <2>7, <3>1
    <3>2. CASE k \in DOMAIN resultChan
      BY <2>4, <3>2 DEF History
    <3> QED
      BY <2>4, <3>1, <3>2
  <2> QED
    BY <2>1, <2>8, <2>10, <2>11, <2>12, HistoryKept
<1>7. ASSUME NEW w \in Worker, Recognize(w) PROVE History'
  <2> DEFINE c == chunk[w]
  <2>1. pc[w] = "recognize" /\ w \in Holding /\ c \in Chunk
    BY <1>7 DEF Recognize, Places, Holding
  <2>2. PICK o \in Outcome : /\ outcome' = [outcome EXCEPT ![w] = o]
                             /\ decoded' = [decoded EXCEPT ![c] = o]
    BY <1>7 DEF Recognize
  <2>3. UNCHANGED <<nextChunk, workChan, chunk, resultChan, results, failed, expired>>
    BY <1>7 DEF Recognize
  <2>4. \A v \in Worker : /\ pc'[v] = IF v = w THEN "report" ELSE pc[v]
                          /\ outcome'[v] = IF v = w THEN o ELSE outcome[v]
    BY <1>7, <2>2 DEF Recognize, Typing
  <2>5. \A i \in Chunk : decoded'[i] = IF i = c THEN o ELSE decoded[i]
    BY <2>2 DEF Typing
  <2>6. /\ c < nextChunk /\ c \notin Waiting /\ c \notin Reported
        /\ \A v \in Holding : v # w => chunk[v] # c /\ chunk[v] \in Chunk
    BY <2>1 DEF Places
  <2>7. Reported' = Reported /\ Waiting' = Waiting
    BY <2>3 DEF Reported, Waiting
  <2> HIDE DEF c
  <2>8. \A i \in Chunk : Ahead(i)' <=> Ahead(i) /\ i # c
    BY <1>0, <2>1, <2>3, <2>4, <2>6, <2>7 DEF Ahead, Holding, c
  <2>9. \A i \in Chunk : UnderWay(i)' <=> UnderWay(i)
    <3>1. ASSUME NEW i \in Chunk, i = c PROVE UnderWay(i)' <=> UnderWay(i)
      BY <2>1, <2>3, <2>4, <3>1 DEF UnderWay, Ahead, c
    <3>2. ASSUME NEW i \in Chunk, i # c PROVE UnderWay(i)' <=> UnderWay(i)
      BY <2>3, <2>4, <2>7, <2>8, <3>2 DEF UnderWay, c
    <3> QED
      BY <3>1, <3>2
  <2>10. UnderWay(c)
    BY <2>1 DEF UnderWay, Ahead, c
  <2>11. \A i \in Chunk : Ahead(i)' \/ ~UnderWay(i) => decoded'[i] = decoded[i]
    BY <2>5, <2>8, <2>10
  <2>12. \A v \in Worker : pc'[v] = "report" => decoded'[chunk'[v]] = outcome'[v]
    <3>1. ASSUME NEW v \in Worker, v # w, pc[v] = "report"
          PROVE  decoded'[chunk[v]] = outcome[v]
      <4>1. chunk[v] # c /\ chunk[v] \in Chunk
        BY <2>6, <3>1 DEF Holding
      <4> QED
        BY <2>5, <3>1, <4>1 DEF History
    <3>2. decoded'[chunk[w]] = o
      BY <2>1, <2>5 DEF c
    <3> QED
      BY <2>3, <2>4, <3>1, <3>2
  <2>13. \A k \in DOMAIN resultChan : resultChan[k].index \in Chunk /\ resultChan[k].index # c
    BY <2>6, Sizes DEF Reported
  <2>14. \A k \in DOMAIN resultChan' :
            \/ decoded'[resultChan'[k].index] = resultChan'[k].outcome
            \/ /\ decoded'[resultChan'[k].index] = Undecoded
               /\ resultChan'[k].outcome = Failed /\ expired'
    BY <2>3, <2>5, <2>13 DEF History
  <2> QED
    BY <2>3, <2>8, <2>9, <2>11, <2>12, <2>14, HistoryKept
<1> QED
  BY <1>1, <1>2, <1>3, <1>4, <1>5, <1>6, <1>7
  DEF Next, WorkerStep, CloseWork, CloseResults, Return, Expire, OtherLock, OtherUnlock, vars

-----------------------------------------------------------------------------
(* The three outcomes of the call are different. *)
LEMMA Outcomes ==
    /\ AllFailed # Running
    /\ \A s : Answered(s) # Running /\ Answered(s) # AllFailed
    /\ \A s, t : Answered(s) = Answered(t) => s = t
<1>1. ASSUME NEW s PROVE Answered(s).kind = "text" /\ Answered(s).texts = s
  BY DEF Answered
<1>2. Running.kind = "running" /\ AllFailed.kind = "all chunks failed"
  BY DEF Running, AllFailed
<1>3. ASSUME NEW s, NEW t, Answered(s) = Answered(t) PROVE s = t
  <2>1. Answered(s).texts = Answered(t).texts
    BY <1>3
  <2> QED
    BY <1>1, <2>1
<1> QED
  BY <1>1, <1>2, <1>3

(* How the pool and the call come to their end. *)
LEMMA EndingStep ==
    ASSUME Typing, Places, Ending, [Next]_vars
    PROVE  Ending'
<1> USE DEF WorkerTo, poolVars, chanVars, callerVars
<1>1. ASSUME Distribute PROVE Ending'
  <2>1. ~workClosed
    BY <1>1, ChunkAssumption DEF Distribute, Ending, Typing
  <2> QED
    BY <1>1, <2>1 DEF Distribute, Ending, LateSeen
<1>2. ASSUME CloseWork PROVE Ending'
  <2>1. nextChunk = NumChunks + 1
    BY <1>2, ChunkAssumption DEF CloseWork, Typing
  <2> QED
    BY <1>2, <2>1 DEF CloseWork, Ending, LateSeen
<1>3. ASSUME CloseResults PROVE Ending'
  BY <1>3 DEF CloseResults, PoolIsDone, Ending, LateSeen
<1>4. ASSUME Collect PROVE Ending'
  <2> DEFINE r == Head(resultChan)
  <2>1. /\ resultChan # <<>> /\ resultChan' = Tail(resultChan)
        /\ UNCHANGED <<workClosed, nextChunk, workChan, pc, resultClosed, expired, answer>>
        /\ failed' = IF r.outcome = Failed THEN failed + 1 ELSE failed
    BY <1>4 DEF Collect
  <2>2. answer = Running
    BY <2>1 DEF Ending
  <2>3. \A k \in DOMAIN resultChan : k # 1 => k - 1 \in DOMAIN resultChan'
                                       /\ resultChan'[k - 1] = resultChan[k]
    <3>1. /\ \A k \in DOMAIN resultChan' :
                 k + 1 \in DOMAIN resultChan /\ resultChan'[k] = resultChan[k + 1]
          /\ resultChan' \in Seq([index : Chunk, outcome : Outcome])
          /\ Len(resultChan') = Len(resultChan) - 1
      BY <2>1, ReportTaken
    <3>2. DOMAIN resultChan' = 1 .. Len(resultChan) - 1
      BY <3>1, LenProperties
    <3>3. \A k \in DOMAIN resultChan : k # 1 => k - 1 \in DOMAIN resultChan' /\ (k - 1) + 1 = k
      BY <3>2, Sizes
    <3> QED
      BY <3>1, <3>3
  <2>4. failed \in Nat /\ r = resultChan[1]
    BY <2>1, ReportTaken DEF Typing
  <2> HIDE DEF r
  <2>5. LateSeen => LateSeen'
    <3>1. CASE failed > 0
      BY <2>1, <2>4, <3>1 DEF LateSeen
    <3>2. ASSUME NEW k \in DOMAIN resultChan, resultChan[k].outcome = Failed, expired
          PROVE  LateSeen'
      <4>1. CASE k = 1
        BY <2>1, <2>4, <3>2, <4>1 DEF LateSeen
      <4>2. CASE k # 1
        BY <2>1, <2>3, <3>2, <4>2 DEF LateSeen
      <4> QED
        BY <4>1, <4>2
    <3> QED
      BY <3>1, <3>2 DEF LateSeen
  <2> QED
    BY <2>1, <2>2, <2>5, Outcomes DEF Ending
<1>5. ASSUME Return PROVE Ending'
  <2>1. answer' = Answered(<<>>) => failed = 0 /\ \A i \in Chunk : results[i] = NoText
    <3> SUFFICES ASSUME answer' = Answered(<<>>)
                 PROVE  failed = 0 /\ \A i \in Chunk : results[i] = NoText
      OBVIOUS
    <3>1. FullText = <<>> /\ ~(failed > 0)
      BY <1>5, Outcomes DEF Return, Failure
    <3> QED
      BY <3>1, JoinedTexts DEF Typing
  <2> QED
    BY <1>5, <2>1 DEF Return, Ending, LateSeen
<1>6. ASSUME Expire PROVE Ending'
  BY <1>6 DEF Expire, Ending, LateSeen
<1>7. CASE OtherLock \/ OtherUnlock \/ UNCHANGED vars
  BY <1>7 DEF OtherLock, OtherUnlock, vars, Ending, LateSeen
<1>8. ASSUME NEW w \in Worker, Receive(w) \/ CheckDeadline(w) \/ Lock(w) \/ Recognize(w)
      PROVE  Ending'
  <2>1. /\ UNCHANGED <<workClosed, nextChunk, resultChan, resultClosed, expired, answer, failed,
                       results>>
        /\ workChan = <<>> => workChan' = <<>>
        /\ pc[w] # "done"
        /\ \A v \in Worker : pc'[v] = "done" <=> pc[v] = "done"
    BY <1>8 DEF Receive, CheckDeadline, Lock, Recognize, Typing
  <2> QED
    BY <2>1 DEF Ending, LateSeen
<1>9. ASSUME NEW w \in Worker, Finish(w) PROVE Ending'
  <2>1. /\ UNCHANGED <<workClosed, nextChunk, workChan, resultChan, resultClosed, expired, answer,
                       failed, results>>
        /\ workChan = <<>> /\ workClosed
        /\ \A v \in Worker : pc[v] = "done" => pc'[v] = "done"
    BY <1>9 DEF Finish, Typing
  <2> QED
    BY <2>1 DEF Ending, LateSeen
<1>10. ASSUME NEW w \in Worker, Quit(w) \/ Report(w) PROVE Ending'
  <2> DEFINE o == IF pc[w] = "check" THEN Failed ELSE outcome[w]
             n == Len(resultChan)
  <2>1. /\ pc[w] \in {"check", "report"}
        /\ pc[w] = "check" => expired
        /\ ReportTo(chunk[w], o) /\ o \in Outcome
        /\ UNCHANGED <<workClosed, nextChunk, workChan, resultClosed, expired, answer, failed,
                       results>>
    BY <1>10 DEF Quit, LateReport, Report, Typing, Outcome
  <2>2. \A v \in Worker : /\ pc[w] = "check" => pc'[w] = "done"
                          /\ pc[w] = "report" => pc'[w] = "receive"
                          /\ v # w => pc'[v] = pc[v]
    BY <1>10 DEF Quit, Report, Typing
  <2>3. chunk[w] \in Chunk
    BY <2>1 DEF Places, Holding
  <2>4. /\ DOMAIN resultChan' = DOMAIN resultChan \cup {n + 1}
        /\ \A k \in DOMAIN resultChan : resultChan'[k] = resultChan[k]
        /\ resultChan'[n + 1] = [index |-> chunk[w], outcome |-> o]
    BY <2>1, <2>3, ReportAdded
  <2>5. resultChan'[n + 1].outcome = o
    BY <2>4
  <2>6. LateSeen => LateSeen'
    BY <2>1, <2>4 DEF LateSeen
  <2>7. pc[w] = "check" => LateSeen'
    BY <2>1, <2>4, <2>5 DEF LateSeen
  <2>8. ~resultClosed /\ answer = Running
    BY <2>1 DEF Ending
  <2> HIDE DEF o, n
  <2>9. \A v \in Worker : pc'[v] = "done" => (workClosed /\ workChan = <<>>) \/ LateSeen'
    BY <2>1, <2>2, <2>6, <2>7 DEF Ending
  <2> QED
    BY <2>1, <2>8, <2>9, Outcomes DEF Ending
<1> QED
  BY <1>1, <1>2, <1>3, <1>4, <1>5, <1>6, <1>7, <1>8, <1>9, <1>10 DEF Next, WorkerStep

(* The invariant holds when the call starts. *)
LEMMA InitIInv == Init => IInv
<1> SUFFICES ASSUME Init PROVE IInv
  OBVIOUS
<1>1. Waiting = {} /\ Reported = {} /\ Holding = {}
  BY DEF Init, Waiting, Reported, Holding, ToSet
<1>2. Typing
  <2>1. NoText \in Outcome /\ Undecoded \in Outcome \cup {Undecoded}
    BY DEF Outcome
  <2>2. nextChunk \in 1 .. NumChunks + 1
    BY ChunkAssumption DEF Init
  <2>3. chunk \in [Worker -> 0 .. NumChunks]
    BY ChunkAssumption DEF Init
  <2>4. outcome \in [Worker -> Outcome] /\ decoded \in [Chunk -> Outcome \cup {Undecoded}]
    BY <2>1 DEF Init
  <2>5. workChan \in Seq(Chunk) /\ resultChan \in Seq([index : Chunk, outcome : Outcome])
    BY DEF Init
  <2>6. completed \in Nat /\ failed \in 0 .. completed
    BY DEF Init
  <2>7. /\ pc \in [Worker -> {"receive", "check", "lock", "recognize", "report", "done"}]
        /\ results \in [Chunk -> Text \cup {NoText}]
    BY DEF Init
  <2> QED
    BY <2>2, <2>3, <2>4, <2>5, <2>6, <2>7 DEF Init, Typing
<1>3. Places
  BY <1>1 DEF Init, Places, IsInjective
<1>4. Ledger
  BY <1>1, FS_EmptySet, ChunkAssumption DEF Init, Ledger
<1>5. OneAtATime
  BY ValueAssumption DEF Init, OneAtATime
<1>6. History
  <2>1. \A i \in Chunk : Ahead(i)
    BY DEF Init, Ahead, Chunk
  <2> QED
    BY <2>1 DEF Init, History, UnderWay
<1>7. Ending
  BY Outcomes DEF Init, Ending
<1> QED
  BY <1>2, <1>3, <1>4, <1>5, <1>6, <1>7 DEF IInv

(* The inductive invariant holds in every reachable state. *)
THEOREM Inductive == Spec => []IInv
<1>1. IInv /\ [Next]_vars => IInv'
  <2> SUFFICES ASSUME IInv, [Next]_vars PROVE IInv'
    OBVIOUS
  <2> QED
    BY TypingStep, PlacesStep, MutexStep, HistoryStep, EndingStep DEF IInv
<1> QED
  BY InitIInv, <1>1, PTL DEF Spec

(* When the results are closed the pool is gone: nobody holds a chunk, and  *)
(* a chunk that is left over in workChan was not reached in time.           *)
LEMMA PoolGone ==
    ASSUME IInv, answer # Running
    PROVE  /\ \A w \in Worker : pc[w] = "done"
           /\ Holding = {} /\ resultChan = <<>> /\ Reported = {}
           /\ \/ LateSeen
              \/ nextChunk = NumChunks + 1 /\ workChan = <<>> /\ Waiting = {}
<1>1. resultClosed /\ resultChan = <<>> /\ \A w \in Worker : pc[w] = "done"
  BY DEF IInv, Ending
<1>2. Holding = {} /\ Reported = {}
  BY <1>1 DEF Holding, Reported
<1>3. PICK w \in Worker : TRUE
  BY WorkerAssumption
<1>4. LateSeen \/ (workClosed /\ workChan = <<>>)
  BY <1>1, <1>3 DEF IInv, Ending
<1>5. CASE workClosed /\ workChan = <<>>
  BY <1>1, <1>2, <1>5 DEF IInv, Ending, Waiting, ToSet
<1> QED
  BY <1>1, <1>2, <1>4, <1>5

(* Every variable keeps its type; no more reports are counted than there    *)
(* are chunks (RecognizeChunked).                                           *)
THEOREM TypeCorrect == Spec => []TypeOK
<1>1. IInv => TypeOK
  <2> SUFFICES ASSUME IInv PROVE TypeOK
    OBVIOUS
  <2>1. completed \in 0 .. NumChunks
    <3>1. /\ Len(workChan) \in Nat /\ Len(resultChan) \in Nat /\ Cardinality(Holding) \in Nat
          /\ NumChunks \in Nat /\ nextChunk \in 1 .. NumChunks + 1 /\ completed \in Nat
      BY Sizes, ChunkAssumption DEF IInv, Typing
    <3> QED
      BY <3>1 DEF IInv, Ledger
  <2> QED
    BY <2>1 DEF IInv, Typing, TypeOK
<1> QED
  BY Inductive, <1>1, PTL

(* No chunk is lost on its way through workChan, a goroutine and            *)
(* resultChan, and none is at two places, whoever quits at the deadline.    *)
THEOREM ChunksAddUp == Spec => []ChunkLedger
<1>1. IInv => ChunkLedger
  <2> SUFFICES ASSUME IInv PROVE ChunkLedger
    OBVIOUS
  <2>1. \A r \in ToSet(resultChan) : r.index \in Reported
    BY DEF ToSet, Reported
  <2> QED
    BY <2>1 DEF IInv, Places, Ledger, ChunkLedger, Waiting
<1> QED
  BY Inductive, <1>1, PTL

(* A chunk is missing from the answer only because it failed or was late,   *)
(* and every other text stands where its chunk belongs.                     *)
THEOREM TextsAreInPlace == Spec => []OnlyFailuresAreMissing
<1>1. IInv => OnlyFailuresAreMissing
  <2> SUFFICES ASSUME IInv, answer # Running, NEW i \in Chunk
               PROVE  CASE decoded[i] = Undecoded -> expired /\ results[i] = NoText
                        [] decoded[i] = Failed    -> results[i] = NoText
                        [] OTHER                  -> results[i] = decoded[i]
    BY DEF OnlyFailuresAreMissing
  <2>1. CASE UnderWay(i)
    <3>1. Ahead(i)
      BY <2>1, PoolGone DEF UnderWay
    <3>2. decoded[i] = Undecoded /\ results[i] = NoText
      BY <2>1, <3>1 DEF IInv, History
    <3>3. LateSeen
      <4>1. i \in Nat /\ i <= NumChunks /\ NumChunks \in Nat
        BY ChunkAssumption DEF Chunk
      <4> QED
        BY <3>1, <4>1, PoolGone DEF Ahead
    <3> QED
      BY <3>2, <3>3 DEF LateSeen
  <2>2. CASE ~UnderWay(i)
    <3>1. \/ decoded[i] = Undecoded /\ expired /\ results[i] = NoText
          \/ decoded[i] = Failed /\ results[i] = NoText
          \/ decoded[i] \in Text \cup {NoText} /\ results[i] = decoded[i]
      BY <2>2 DEF IInv, History
    <3> QED
      BY <3>1, Distinct
  <2> QED
    BY <2>1, <2>2
<1> QED
  BY Inductive, <1>1, PTL

(* The answer comes after the last goroutine, and in time it covers all     *)
(* chunks (wg.Wait, the range over resultChan).                             *)
THEOREM AnswerComesLast == Spec => []NobodyIsLeft
<1>1. IInv => NobodyIsLeft
  <2> SUFFICES ASSUME IInv, answer # Running
               PROVE  (\A w \in Worker : pc[w] = "done") /\ (~expired => completed = NumChunks)
    BY DEF NobodyIsLeft
  <2>1. ASSUME ~expired PROVE completed = NumChunks
    <3>1. nextChunk = NumChunks + 1 /\ workChan = <<>> /\ Holding = {} /\ resultChan = <<>>
      BY <2>1, PoolGone DEF LateSeen
    <3>2. Cardinality(Holding) = 0 /\ Len(workChan) = 0 /\ Len(resultChan) = 0
      BY <3>1, FS_EmptySet
    <3>3. completed \in Nat /\ NumChunks \in Nat
      BY ChunkAssumption DEF IInv, Typing
    <3> QED
      BY <3>1, <3>2, <3>3 DEF IInv, Ledger
  <2> QED
    BY <2>1, PoolGone
<1> QED
  BY Inductive, <1>1, PTL

(* An empty text without an error means that every chunk was recognised and *)
(* nothing was said (the test of fullText and failedChunks).                *)
THEOREM SilenceIsTrue == Spec => []SilenceIsReal
<1>1. IInv => SilenceIsReal
  <2> SUFFICES ASSUME IInv, answer = Answered(<<>>), NEW i \in Chunk
               PROVE  decoded[i] = NoText
    BY DEF SilenceIsReal
  <2>1. answer # Running /\ failed = 0 /\ results[i] = NoText
    BY Outcomes DEF IInv, Ending
  <2>2. ~LateSeen
    BY <2>1, PoolGone DEF LateSeen
  <2>3. ~UnderWay(i)
    <3>1. i \in Nat /\ i <= NumChunks /\ NumChunks \in Nat
      BY ChunkAssumption DEF Chunk
    <3> QED
      BY <2>1, <2>2, <3>1, PoolGone DEF UnderWay, Ahead
  <2> QED
    BY <2>1, <2>3 DEF IInv, History
<1> QED
  BY Inductive, <1>1, PTL
=============================================================================
