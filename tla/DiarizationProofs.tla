-------------------------- MODULE DiarizationProofs --------------------------
(***************************************************************************)
(* What the algorithms on segments compute, for every list of segments:    *)
(* merging keeps the order, its result is explained by one pass over the   *)
(* segments, also after speakers were joined, and the ranking of speakers  *)
(* puts the longest first.  The loop takes the segments one by one, so     *)
(* most of it is induction on a list that grows by one.                    *)
(***************************************************************************)
EXTENDS Diarization, SequenceFacts, FiniteSetTheorems

-----------------------------------------------------------------------------
(* Segments.                                                                *)

(* A segment that ends elsewhere, and one with the label of its speaker.     *)
EndAt(seg, t) == [start |-> seg.start, end |-> t, speaker |-> seg.speaker]
Labelled(seg, label) == [start |-> seg.start, end |-> seg.end, speaker |-> label[seg.speaker]]

(* A segment that ends elsewhere is one, and its other fields stay.         *)
LEMMA EndAtFacts ==
    ASSUME NEW seg \in Segment, NEW t \in Nat
    PROVE  /\ EndAt(seg, t) \in Segment
           /\ EndAt(seg, t).start = seg.start
           /\ EndAt(seg, t).end = t
           /\ EndAt(seg, t).speaker = seg.speaker
  BY DEF EndAt, Segment

(* A relabelled segment is one, and its other fields stay.                  *)
LEMMA LabelledFacts ==
    ASSUME NEW seg \in Segment, NEW label \in [Nat -> Nat]
    PROVE  /\ Labelled(seg, label) \in Segment
           /\ Labelled(seg, label).start = seg.start
           /\ Labelled(seg, label).end = seg.end
           /\ Labelled(seg, label).speaker = label[seg.speaker]
  BY DEF Labelled, Segment

(* The fields of a segment.                                                 *)
LEMMA Fields ==
    ASSUME NEW seg \in Segment
    PROVE  seg.start \in Nat /\ seg.end \in Nat /\ seg.speaker \in Nat
  BY DEF Segment

(* Segments whose fields agree are equal.                                   *)
LEMMA SegmentsAgree ==
    ASSUME NEW x \in Segment, NEW y \in Segment,
           x.start = y.start, x.end = y.end, x.speaker = y.speaker
    PROVE  x = y
  BY DEF Segment

(* The last of a list that grew.                                            *)
LEMMA LastOfAppend ==
    ASSUME NEW S, NEW seq \in Seq(S), NEW e \in S
    PROVE  Last(Append(seq, e)) = e /\ Append(seq, e) # <<>> /\ Append(seq, e) \in Seq(S)
  BY AppendProperties DEF Last

-----------------------------------------------------------------------------
(* The loop of mergeAdjacentSegments.                                       *)

(* The loop of mergeAdjacentSegments goes over the segments one by one.     *)
LEMMA MergedDef ==
    ASSUME NEW segs, Len(segs) \in Nat
    PROVE  \E merged : /\ merged[0] = <<>>
                       /\ \A i \in 1 .. Len(segs) : merged[i] = MergeNext(merged[i - 1], segs[i])
                       /\ MergeAdjacent(segs) = merged[Len(segs)]
<1> DEFINE Step(g, i) == IF i = 0 THEN <<>> ELSE MergeNext(g[i - 1], segs[i])
           Solved == {j \in Nat : \E g : g = [i \in 0 .. j |-> Step(g, i)]}
<1>1. 0 \in Solved
  <2> DEFINE g == [i \in 0 .. 0 |-> <<>>]
  <2>1. g = [i \in 0 .. 0 |-> Step(g, i)]
    OBVIOUS
  <2> QED
    BY <2>1
<1>2. ASSUME NEW k \in Solved PROVE k + 1 \in Solved
  <2>1. k \in Nat
    OBVIOUS
  <2>2. PICK g : g = [i \in 0 .. k |-> Step(g, i)]
    OBVIOUS
  <2>a. \A i \in 0 .. k : g[i] = Step(g, i)
    <3> HIDE DEF Step
    <3> QED
      BY <2>2
  <2> DEFINE h == [i \in 0 .. k + 1 |-> IF i <= k THEN g[i] ELSE Step(g, i)]
  <2>3. ASSUME NEW i \in 0 .. k + 1 PROVE h[i] = Step(h, i)
    <3>1. CASE i = 0
      BY <2>1, <2>2, <3>1
    <3>2. CASE i \in 1 .. k
      <4>1. i - 1 \in 0 .. k + 1 /\ i - 1 <= k
        BY <2>1, <3>2
      <4>2. h[i - 1] = g[i - 1] /\ h[i] = g[i]
        BY <2>1, <3>2, <4>1
      <4>3. g[i] = Step(g, i)
        BY <2>1, <2>a, <3>2
      <4> HIDE DEF h
      <4> QED
        BY <4>2, <4>3
    <3>3. CASE i = k + 1
      <4>1. i - 1 \in 0 .. k + 1 /\ i - 1 <= k /\ ~(i <= k)
        BY <2>1, <3>3
      <4>2. h[i - 1] = g[i - 1] /\ h[i] = Step(g, i)
        BY <4>1
      <4> HIDE DEF h
      <4> QED
        BY <4>2
    <3> QED
      BY <2>1, <3>1, <3>2, <3>3
  <2>4. h = [i \in 0 .. k + 1 |-> Step(h, i)]
    <3> HIDE DEF Step
    <3> QED
      BY <2>3
  <2> HIDE DEF h, Step
  <2>5. \E f : f = [i \in 0 .. k + 1 |-> Step(f, i)]
    BY <2>4, Zenon
  <2> QED
    BY <2>1, <2>5
<1>3. Len(segs) \in Solved
  <2> HIDE DEF Solved
  <2>1. Solved \in SUBSET Nat
    BY DEF Solved
  <2> QED
    BY <1>1, <1>2, <2>1, SetInduction
<1> DEFINE Sol(g) == g = [i \in 0 .. Len(segs) |-> Step(g, i)]
           merged == CHOOSE g : Sol(g)
<1>4. MergeAdjacent(segs) = merged[Len(segs)]
  BY Zenon DEF MergeAdjacent
<1>5. Sol(merged)
  <2>1. \E g : Sol(g)
    BY <1>3
  <2> HIDE DEF Sol
  <2> QED
    BY <2>1, Zenon
<1>6. \A i \in 0 .. Len(segs) : merged[i] = Step(merged, i)
  <2> HIDE DEF merged, Step
  <2> QED
    BY <1>5
<1> HIDE DEF merged
<1>7. merged[0] = <<>> /\ \A i \in 1 .. Len(segs) : merged[i] = MergeNext(merged[i - 1], segs[i])
  BY <1>6
<1> QED
  BY <1>4, <1>7, Zenon

(* What one turn of the loop does to a list whose last segment is known.    *)
LEMMA TurnOnLast ==
    ASSUME NEW segs \in Seq(Segment), NEW last \in Segment, NEW next \in Segment
    PROVE  /\ MergeNext(<<>>, next) = Append(<<>>, next)
           /\ Mergeable(last, next) =>
                  MergeNext(Append(segs, last), next) = Append(segs, EndAt(last, next.end))
           /\ ~Mergeable(last, next) =>
                  MergeNext(Append(segs, last), next) = Append(Append(segs, last), next)
<1> DEFINE len == Len(segs)
           old == Append(segs, last)
<1>1. /\ old \in Seq(Segment) /\ Len(old) = len + 1 /\ old[len + 1] = last /\ old # <<>>
      /\ \A i \in 1 .. len : old[i] = segs[i]
      /\ len \in Nat
  BY AppendProperties, LenProperties
<1>2. Last(old) = last
  BY LastOfAppend
<1>3. MergeNext(<<>>, next) = Append(<<>>, next)
  BY DEF MergeNext
<1>4. ASSUME ~Mergeable(last, next) PROVE MergeNext(old, next) = Append(old, next)
  BY <1>2, <1>4 DEF MergeNext
<1>5. ASSUME Mergeable(last, next) PROVE MergeNext(old, next) = Append(segs, EndAt(last, next.end))
  <2> DEFINE new == MergeNext(old, next)
             want == Append(segs, EndAt(last, next.end))
  <2>1. new = [old EXCEPT ![len + 1].end = next.end]
    BY <1>1, <1>2, <1>5 DEF MergeNext
  <2>2. DOMAIN old = 1 .. len + 1
    BY <1>1, LenProperties
  <2>3. EndAt(last, next.end) \in Segment
    BY Fields, EndAtFacts
  <2>4. /\ want \in Seq(Segment) /\ Len(want) = len + 1 /\ want[len + 1] = EndAt(last, next.end)
        /\ \A i \in 1 .. len : want[i] = segs[i]
    BY <2>3, AppendProperties
  <2> HIDE DEF old, len
  <2>5. new[len + 1] = [last EXCEPT !.end = next.end]
    BY <1>1, <2>1, <2>2
  <2> HIDE DEF new, want
  <2>a. \A i \in 1 .. len : new[i] = old[i]
    <3>1. \A i \in 1 .. len : i \in DOMAIN old /\ i # len + 1
      BY <1>1, <2>2
    <3> QED
      BY <2>1, <3>1
  <2>6. new = [i \in 1 .. len + 1 |-> new[i]] /\ \A i \in 1 .. len : new[i] = segs[i]
    <3>1. new = [i \in 1 .. len + 1 |-> new[i]]
      BY <2>1, <2>2
    <3> QED
      BY <1>1, <2>a, <3>1
  <2>7. new[len + 1] = EndAt(last, next.end)
    BY <2>5 DEF EndAt, Segment
  <2>8. want = [i \in 1 .. len + 1 |-> want[i]]
    <3>1. want \in [1 .. len + 1 -> Segment]
      BY <2>4, LenProperties
    <3> QED
      BY <3>1
  <2>9. \A i \in 1 .. len + 1 : new[i] = want[i]
    <3>1. \A i \in 1 .. len + 1 : i \in 1 .. len \/ i = len + 1
      BY <1>1
    <3> QED
      BY <2>4, <2>6, <2>7, <3>1
  <2> QED
    BY <2>6, <2>8, <2>9 DEF new, want
<1> QED
  BY <1>3, <1>4, <1>5

(* After a turn the list is one of segments, and ends with the end and the   *)
(* speaker of the segment it took.                                          *)
LEMMA TurnFacts ==
    ASSUME NEW merged \in Seq(Segment), NEW next \in Segment
    PROVE  /\ MergeNext(merged, next) \in Seq(Segment)
           /\ MergeNext(merged, next) # <<>>
           /\ Last(MergeNext(merged, next)).end = next.end
           /\ Last(MergeNext(merged, next)).speaker = next.speaker
<1>1. CASE merged = <<>>
  <2>1. MergeNext(merged, next) = Append(merged, next)
    BY <1>1 DEF MergeNext
  <2> QED
    BY <2>1, LastOfAppend
<1>2. CASE merged # <<>>
  <2>1. PICK segs \in Seq(Segment), last \in Segment : merged = Append(segs, last)
    BY <1>2, SequenceEmptyOrAppend
  <2>2. CASE Mergeable(last, next)
    <3>1. MergeNext(merged, next) = Append(segs, EndAt(last, next.end))
      BY <2>1, <2>2, TurnOnLast
    <3>2. /\ EndAt(last, next.end) \in Segment
          /\ EndAt(last, next.end).end = next.end
          /\ EndAt(last, next.end).speaker = next.speaker
      BY <2>2, Fields, EndAtFacts DEF Mergeable
    <3> QED
      BY <3>1, <3>2, LastOfAppend
  <2>3. CASE ~Mergeable(last, next)
    <3>1. MergeNext(merged, next) = Append(merged, next)
      BY <2>1, <2>3, TurnOnLast
    <3> QED
      BY <3>1, LastOfAppend
  <2> QED
    BY <2>2, <2>3
<1> QED
  BY <1>1, <1>2

(* Two turns whose segments belong together are one with the joined segment. *)
LEMMA TwoTurns ==
    ASSUME NEW merged \in Seq(Segment), NEW seg \in Segment, NEW next \in Segment, Mergeable(seg, next)
    PROVE  MergeNext(MergeNext(merged, seg), next) = MergeNext(merged, EndAt(seg, next.end))
<1>1. PICK both \in Segment : /\ both = EndAt(seg, next.end)
                              /\ both.start = seg.start /\ both.end = next.end
                              /\ both.speaker = seg.speaker
  BY Fields, EndAtFacts
<1>2. CASE merged = <<>>
  <2>1. <<>> \in Seq(Segment)
    OBVIOUS
  <2>2. MergeNext(merged, seg) = Append(<<>>, seg)
    BY <1>2, <2>1, TurnOnLast
  <2>3. MergeNext(merged, both) = Append(<<>>, both)
    BY <1>2, <2>1, TurnOnLast
  <2>4. MergeNext(Append(<<>>, seg), next) = Append(<<>>, EndAt(seg, next.end))
    BY <2>1, TurnOnLast
  <2> QED
    BY <1>1, <2>2, <2>3, <2>4
<1>3. CASE merged # <<>>
  <2>1. PICK segs \in Seq(Segment), last \in Segment : merged = Append(segs, last)
    BY <1>3, SequenceEmptyOrAppend
  <2>2. Mergeable(last, both) <=> Mergeable(last, seg)
    BY <1>1 DEF Mergeable
  <2>3. CASE ~Mergeable(last, seg)
    <3>1. MergeNext(merged, seg) = Append(merged, seg)
      BY <2>1, <2>3, TurnOnLast
    <3>2. MergeNext(merged, both) = Append(merged, both)
      BY <2>1, <2>2, <2>3, TurnOnLast
    <3>3. MergeNext(Append(merged, seg), next) = Append(merged, EndAt(seg, next.end))
      BY TurnOnLast
    <3> QED
      BY <1>1, <3>1, <3>2, <3>3
  <2>4. CASE Mergeable(last, seg)
    <3>1. PICK longer \in Segment : /\ longer = EndAt(last, seg.end)
                                    /\ longer.end = seg.end /\ longer.speaker = last.speaker
      BY Fields, EndAtFacts
    <3>2. Mergeable(longer, next)
      BY <2>4, <3>1 DEF Mergeable
    <3>3. MergeNext(MergeNext(merged, seg), next) = Append(segs, EndAt(longer, next.end))
      <4>1. MergeNext(merged, seg) = Append(segs, longer)
        BY <2>1, <2>4, <3>1, TurnOnLast
      <4>2. MergeNext(Append(segs, longer), next) = Append(segs, EndAt(longer, next.end))
        BY <3>2, TurnOnLast
      <4> QED
        BY <4>1, <4>2
    <3>4. MergeNext(merged, both) = Append(segs, EndAt(last, both.end))
      BY <2>1, <2>2, <2>4, TurnOnLast
    <3>5. EndAt(longer, next.end) = EndAt(last, both.end)
      BY <1>1, <3>1 DEF EndAt
    <3> QED
      BY <1>1, <3>3, <3>4, <3>5
  <2> QED
    BY <2>3, <2>4
<1> QED
  BY <1>2, <1>3

(* mergeAdjacentSegments of a list with one more segment: one more turn.    *)
LEMMA MergeAppend ==
    ASSUME NEW segs \in Seq(Segment), NEW next \in Segment
    PROVE  MergeAdjacent(Append(segs, next)) = MergeNext(MergeAdjacent(segs), next)
<1> DEFINE len == Len(segs)
           more == Append(segs, next)
<1>1. /\ len \in Nat /\ Len(more) = len + 1 /\ more[len + 1] = next
      /\ \A i \in 1 .. len : more[i] = segs[i]
  BY LenProperties, AppendProperties
<1>2. PICK old : /\ old[0] = <<>>
                 /\ \A i \in 1 .. len : old[i] = MergeNext(old[i - 1], segs[i])
                 /\ MergeAdjacent(segs) = old[len]
  <2>1. Len(segs) \in Nat
    BY <1>1
  <2> QED
    BY <2>1, MergedDef
<1>3. PICK new : /\ new[0] = <<>>
                 /\ \A i \in 1 .. len + 1 : new[i] = MergeNext(new[i - 1], more[i])
                 /\ MergeAdjacent(more) = new[len + 1]
  <2>1. Len(more) \in Nat
    BY <1>1
  <2> HIDE DEF more
  <2> QED
    BY <1>1, <2>1, MergedDef
<1> HIDE DEF more, len
<1> DEFINE Same == {k \in Nat : k <= len => new[k] = old[k]}
<1>4. 0 \in Same
  BY <1>2, <1>3
<1>5. ASSUME NEW k \in Same PROVE k + 1 \in Same
  <2>1. k \in Nat
    OBVIOUS
  <2> SUFFICES ASSUME k + 1 <= len PROVE new[k + 1] = old[k + 1]
    BY <2>1
  <2>2. k + 1 \in 1 .. len /\ k + 1 \in 1 .. len + 1 /\ (k + 1) - 1 = k /\ k <= len
    BY <1>1, <2>1
  <2>3. new[k] = old[k]
    BY <2>2
  <2> HIDE DEF Same
  <2>4. new[k + 1] = MergeNext(new[k], more[k + 1]) /\ old[k + 1] = MergeNext(old[k], segs[k + 1])
    BY <1>2, <1>3, <2>2
  <2> QED
    BY <1>1, <2>2, <2>3, <2>4
<1>6. new[len] = old[len]
  <2>1. len \in Same
    <3> HIDE DEF Same
    <3>1. Same \in SUBSET Nat
      BY DEF Same
    <3> QED
      BY <1>1, <1>4, <1>5, <3>1, SetInduction
  <2> QED
    BY <1>1, <2>1
<1>7. new[len + 1] = MergeNext(new[len], next)
  <2>1. len + 1 \in 1 .. len + 1 /\ (len + 1) - 1 = len
    BY <1>1
  <2> QED
    BY <1>1, <1>3, <2>1
<1> QED
  BY <1>2, <1>3, <1>6, <1>7 DEF more, len

(* Nothing is merged to nothing,                                            *)
LEMMA MergeNothing == MergeAdjacent(<<>>) = <<>>
<1>1. Len(<<>>) = 0
  OBVIOUS
<1>2. Len(<<>>) \in Nat
  OBVIOUS
<1> QED
  BY <1>1, <1>2, MergedDef

(* What is merged are segments again.                                       *)
LEMMA MergedAreSegments ==
    ASSUME NEW segs \in Seq(Segment)
    PROVE  MergeAdjacent(segs) \in Seq(Segment)
<1> DEFINE Good == {s \in Seq(Segment) : MergeAdjacent(s) \in Seq(Segment)}
<1>1. <<>> \in Good
  <2>1. <<>> \in Seq(Segment)
    OBVIOUS
  <2> QED
    BY <2>1, MergeNothing
<1>2. ASSUME NEW s \in Seq(Segment), s \in Good, NEW next \in Segment PROVE Append(s, next) \in Good
  <2>1. MergeNext(MergeAdjacent(s), next) \in Seq(Segment)
    BY <1>2, TurnFacts
  <2> QED
    BY <2>1, MergeAppend, AppendProperties
<1> HIDE DEF Good
<1>3. Seq(Segment) \subseteq Good
  BY <1>1, <1>2, AppendInduction
<1> QED
  BY <1>3 DEF Good

(* The last merged segment ends when the last segment does and is its       *)
(* speaker's.                                                               *)
LEMMA LastMerged ==
    ASSUME NEW segs \in Seq(Segment), segs # <<>>
    PROVE  /\ MergeAdjacent(segs) # <<>>
           /\ Last(MergeAdjacent(segs)).end = Last(segs).end
           /\ Last(MergeAdjacent(segs)).speaker = Last(segs).speaker
<1>1. PICK s \in Seq(Segment), next \in Segment : segs = Append(s, next)
  BY SequenceEmptyOrAppend
<1>2. MergeAdjacent(segs) = MergeNext(MergeAdjacent(s), next) /\ MergeAdjacent(s) \in Seq(Segment)
  BY <1>1, MergeAppend, MergedAreSegments
<1>3. Last(segs) = next
  BY <1>1, LastOfAppend
<1>4. PICK merged \in Seq(Segment) : merged = MergeAdjacent(s)
  BY <1>2
<1>5. /\ MergeNext(merged, next) # <<>>
      /\ Last(MergeNext(merged, next)).end = next.end
      /\ Last(MergeNext(merged, next)).speaker = next.speaker
  BY TurnFacts
<1> QED
  BY <1>2, <1>3, <1>4, <1>5

(* Merging loses no speaker and adds none.                                  *)
LEMMA SpeakersStay ==
    ASSUME NEW segs \in Seq(Segment)
    PROVE  Speakers(MergeAdjacent(segs)) = Speakers(segs)
<1>1. ASSUME NEW s \in Seq(Segment), NEW x \in Segment
      PROVE  Speakers(Append(s, x)) = Speakers(s) \cup {x.speaker}
  <2> DEFINE len == Len(s)
             more == Append(s, x)
  <2>1. /\ len \in Nat /\ DOMAIN s = 1 .. len /\ DOMAIN more = 1 .. len + 1 /\ more[len + 1] = x
        /\ \A i \in 1 .. len : more[i] = s[i]
    BY LenProperties, AppendProperties
  <2> HIDE DEF len, more
  <2>2. \A i \in 1 .. len + 1 : i \in 1 .. len \/ i = len + 1
    BY <2>1
  <2>3. (\A i \in 1 .. len : i \in 1 .. len + 1) /\ len + 1 \in 1 .. len + 1
    BY <2>1
  <2>4. Speakers(more) = Speakers(s) \cup {x.speaker}
    BY <2>1, <2>2, <2>3 DEF Speakers
  <2> QED
    BY <2>4 DEF more
<1> DEFINE Same == {s \in Seq(Segment) : Speakers(MergeAdjacent(s)) = Speakers(s)}
<1>2. <<>> \in Same
  <2>1. <<>> \in Seq(Segment)
    OBVIOUS
  <2> QED
    BY <2>1, MergeNothing
<1>3. ASSUME NEW s \in Seq(Segment), s \in Same, NEW next \in Segment PROVE Append(s, next) \in Same
  <2>1. PICK merged \in Seq(Segment) : merged = MergeAdjacent(s) /\ Speakers(merged) = Speakers(s)
    BY <1>3, MergedAreSegments
  <2>2. MergeAdjacent(Append(s, next)) = MergeNext(merged, next)
    BY <2>1, MergeAppend
  <2>3. Speakers(MergeNext(merged, next)) = Speakers(merged) \cup {next.speaker}
    <3>1. CASE merged = <<>>
      <4>1. MergeNext(merged, next) = Append(merged, next)
        BY <3>1 DEF MergeNext
      <4> QED
        BY <1>1, <4>1
    <3>2. CASE merged # <<>>
      <4>1. PICK front \in Seq(Segment), last \in Segment : merged = Append(front, last)
        BY <3>2, SequenceEmptyOrAppend
      <4>2. CASE ~Mergeable(last, next)
        <5>1. MergeNext(merged, next) = Append(merged, next)
          BY <4>1, <4>2, TurnOnLast
        <5> QED
          BY <1>1, <5>1
      <4>3. CASE Mergeable(last, next)
        <5>1. PICK longer \in Segment : longer = EndAt(last, next.end) /\ longer.speaker = last.speaker
          BY Fields, EndAtFacts
        <5>2. MergeNext(merged, next) = Append(front, longer)
          BY <4>1, <4>3, <5>1, TurnOnLast
        <5>3. last.speaker = next.speaker
          BY <4>3 DEF Mergeable
        <5>4. /\ Speakers(Append(front, longer)) = Speakers(front) \cup {last.speaker}
              /\ Speakers(merged) = Speakers(front) \cup {last.speaker}
          BY <1>1, <4>1, <5>1
        <5> QED
          BY <5>2, <5>3, <5>4
      <4> QED
        BY <4>2, <4>3
    <3> QED
      BY <3>1, <3>2
  <2>4. Speakers(Append(s, next)) = Speakers(s) \cup {next.speaker}
    BY <1>1
  <2> QED
    BY <2>1, <2>2, <2>3, <2>4, AppendProperties
<1> HIDE DEF Same
<1>4. Seq(Segment) \subseteq Same
  BY <1>2, <1>3, AppendInduction
<1> QED
  BY <1>4 DEF Same

(* The starts of segments. *)
Starts(segs) == {segs[i].start : i \in DOMAIN segs}

(* One turn of the loop keeps the order, and a start is one that was there  *)
(* or that of the next segment.                                             *)
LEMMA TurnKeepsOrder ==
    ASSUME NEW segs \in Seq(Segment), InOrder(segs),
           NEW next \in Segment, next.start <= next.end,
           segs # <<>> => Last(segs).start <= next.start
    PROVE  /\ MergeNext(segs, next) \in Seq(Segment) /\ MergeNext(segs, next) # <<>>
           /\ InOrder(MergeNext(segs, next))
           /\ Last(MergeNext(segs, next)).start <= next.start
           /\ Starts(MergeNext(segs, next)) \subseteq Starts(segs) \cup {next.start}
<1> DEFINE L == Len(segs)
           merged == MergeNext(segs, next)
<1>1. L \in Nat /\ DOMAIN segs = 1 .. L /\ \A i \in 1 .. L : segs[i] \in Segment
  BY LenProperties, ElementOfSeq
<1>2. \A seg \in Segment : seg.start \in Nat /\ seg.end \in Nat
  BY DEF Segment
<1>3. /\ \A i \in 1 .. L : segs[i].start <= segs[i].end
      /\ \A i \in 2 .. L : segs[i - 1].start <= segs[i].start
  BY <1>1 DEF InOrder
<1>4. CASE segs # <<>> /\ Mergeable(Last(segs), next)
  <2>1. merged = [segs EXCEPT ![L].end = next.end]
    BY <1>4 DEF MergeNext
  <2>2. L \in 1 .. L
    BY <1>1, <1>4, EmptySeq
  <2>3. DOMAIN merged = 1 .. L /\ \A i \in 1 .. L : i # L => merged[i] = segs[i]
    BY <1>1, <2>1
  <2>4. merged[L] = [segs[L] EXCEPT !.end = next.end]
    BY <1>1, <2>1, <2>2
  <2> HIDE DEF merged, L
  <2>5. merged[L] \in Segment /\ merged[L].start = segs[L].start /\ merged[L].end = next.end
    BY <1>1, <2>2, <2>4 DEF Segment
  <2>6. \A i \in 1 .. L : merged[i] \in Segment /\ merged[i].start = segs[i].start
    BY <1>1, <2>3, <2>5
  <2>7. merged = [i \in 1 .. L |-> merged[i]]
    BY <1>1, <2>1 DEF L
  <2>8. merged \in Seq(Segment) /\ Len(merged) = L
    <3>1. merged \in [1 .. L -> Segment]
      BY <2>6, <2>7
    <3> QED
      BY <1>1, <2>3, <3>1, LenProperties
  <2>9. Last(segs) = segs[L] /\ Last(merged) = merged[L]
    BY <2>8 DEF Last, L
  <2>10. \A i \in 1 .. L : merged[i].start <= merged[i].end
    <3>1. segs[L].start <= next.end
      BY <1>1, <1>2, <1>4, <2>2, <2>9
    <3> QED
      BY <1>3, <2>3, <2>5, <3>1
  <2>11. InOrder(merged)
    <3>1. \A i \in 2 .. L : i \in 1 .. L /\ i - 1 \in 1 .. L
      BY <1>1
    <3>2. \A i \in 2 .. L : merged[i - 1].start <= merged[i].start
      BY <1>3, <2>6, <3>1
    <3> QED
      BY <2>3, <2>8, <2>10, <3>2 DEF InOrder
  <2>12. Starts(merged) \subseteq Starts(segs)
    BY <1>1, <2>3, <2>6 DEF Starts
  <2>13. merged # <<>> /\ Last(merged).start <= next.start
    BY <1>1, <1>4, <2>2, <2>5, <2>8, <2>9, EmptySeq
  <2> QED
    BY <2>8, <2>11, <2>12, <2>13 DEF merged
<1>5. CASE ~(segs # <<>> /\ Mergeable(Last(segs), next))
  <2>1. merged = Append(segs, next)
    BY <1>5 DEF MergeNext
  <2>2. /\ merged \in Seq(Segment) /\ Len(merged) = L + 1 /\ merged[L + 1] = next
        /\ \A i \in 1 .. L : merged[i] = segs[i]
    BY <2>1, AppendProperties
  <2> HIDE DEF merged
  <2>3. DOMAIN merged = 1 .. L + 1
    BY <2>2, LenProperties
  <2>4. Last(merged) = next /\ (segs # <<>> => Last(segs) = segs[L])
    BY <2>2 DEF Last
  <2> HIDE DEF L
  <2>5. \A i \in 1 .. L + 1 : merged[i].start <= merged[i].end
    <3> SUFFICES ASSUME NEW i \in 1 .. L + 1 PROVE merged[i].start <= merged[i].end
      OBVIOUS
    <3>1. i \in 1 .. L \/ i = L + 1
      BY <1>1
    <3> QED
      BY <1>3, <2>2, <3>1
  <2>6. \A i \in 2 .. L + 1 : merged[i - 1].start <= merged[i].start
    <3> SUFFICES ASSUME NEW i \in 2 .. L + 1 PROVE merged[i - 1].start <= merged[i].start
      OBVIOUS
    <3>1. i - 1 \in 1 .. L
      BY <1>1
    <3>2. CASE i \in 2 .. L
      <4>1. i \in 1 .. L
        BY <1>1, <3>2
      <4> QED
        BY <1>3, <2>2, <3>1, <3>2, <4>1
    <3>3. CASE i = L + 1
      <4>1. i - 1 = L /\ segs # <<>>
        BY <1>1, <3>1, <3>3, EmptySeq DEF L
      <4> QED
        BY <2>2, <2>4, <3>1, <3>3, <4>1
    <3> QED
      BY <1>1, <3>2, <3>3
  <2>7. InOrder(merged)
    BY <2>2, <2>3, <2>5, <2>6 DEF InOrder
  <2>8. Starts(merged) \subseteq Starts(segs) \cup {next.start}
    <3>1. \A i \in 1 .. L + 1 : i \in 1 .. L \/ i = L + 1
      BY <1>1
    <3> QED
      BY <1>1, <2>2, <2>3, <3>1 DEF Starts
  <2>9. merged # <<>> /\ Last(merged).start <= next.start
    BY <1>1, <1>2, <2>2, <2>4, EmptySeq
  <2> QED
    BY <2>2, <2>7, <2>8, <2>9 DEF merged
<1> QED
  BY <1>4, <1>5

(* mergeAdjacentSegments keeps the order and makes up no start.             *)
LEMMA MergingKeepsOrder ==
    ASSUME NEW segs \in Seq(Segment), InOrder(segs)
    PROVE  /\ MergeAdjacent(segs) \in Seq(Segment)
           /\ InOrder(MergeAdjacent(segs))
           /\ Starts(MergeAdjacent(segs)) \subseteq Starts(segs)
<1> DEFINE L == Len(segs)
<1>1. L \in Nat /\ DOMAIN segs = 1 .. L /\ \A i \in 1 .. L : segs[i] \in Segment
  BY LenProperties, ElementOfSeq
<1>2. \A seg \in Segment : seg.start \in Nat /\ seg.end \in Nat
  BY DEF Segment
<1>3. /\ \A i \in 1 .. L : segs[i].start <= segs[i].end
      /\ \A i \in 2 .. L : segs[i - 1].start <= segs[i].start
  BY <1>1 DEF InOrder
<1>4. PICK merged : /\ merged[0] = <<>>
                    /\ \A i \in 1 .. L : merged[i] = MergeNext(merged[i - 1], segs[i])
                    /\ MergeAdjacent(segs) = merged[L]
  <2>1. Len(segs) \in Nat
    BY <1>1
  <2> QED
    BY <2>1, MergedDef
<1> DEFINE Good(k) == /\ merged[k] \in Seq(Segment) /\ InOrder(merged[k])
                      /\ Starts(merged[k]) \subseteq Starts(segs)
                      /\ k = 0 => merged[k] = <<>>
                      /\ k > 0 => merged[k] # <<>> /\ Last(merged[k]).start <= segs[k].start
           Holds == {k \in Nat : k <= L => Good(k)}
<1>5. 0 \in Holds
  <2>1. merged[0] \in Seq(Segment) /\ merged[0] = <<>> /\ Starts(merged[0]) = {} /\ InOrder(merged[0])
    BY <1>4 DEF Starts, InOrder
  <2>2. Good(0)
    BY <2>1
  <2> HIDE DEF Good
  <2> QED
    BY <2>2
<1>6. ASSUME NEW k \in Holds PROVE k + 1 \in Holds
  <2>1. k \in Nat
    OBVIOUS
  <2> SUFFICES ASSUME k + 1 <= L PROVE Good(k + 1)
    BY <2>1
  <2>2. Good(k) /\ k + 1 \in 1 .. L /\ (k + 1) - 1 = k
    BY <1>1, <2>1
  <2>3. segs[k + 1] \in Segment /\ segs[k + 1].start <= segs[k + 1].end
    BY <1>1, <1>3, <2>2
  <2>4. merged[k + 1] = MergeNext(merged[k], segs[k + 1])
    BY <1>4, <2>2
  <2>5. merged[k] # <<>> => Last(merged[k]).start <= segs[k + 1].start
    <3> SUFFICES ASSUME merged[k] # <<>> PROVE Last(merged[k]).start <= segs[k + 1].start
      OBVIOUS
    <3>1. k > 0 /\ k \in 1 .. L /\ k + 1 \in 2 .. L
      BY <1>1, <2>1, <2>2
    <3>2. Last(merged[k]).start <= segs[k].start /\ segs[k].start <= segs[k + 1].start
      BY <1>3, <2>2, <3>1
    <3>3. segs[k].start \in Nat /\ segs[k + 1].start \in Nat
      BY <1>1, <1>2, <2>2, <3>1
    <3>4. Last(merged[k]).start \in Nat
      <4>1. merged[k] \in Seq(Segment) /\ merged[k] # <<>>
        BY <2>2
      <4>2. Len(merged[k]) \in 1 .. Len(merged[k])
        BY <4>1, EmptySeq, LenProperties
      <4>3. Last(merged[k]) \in Segment
        BY <4>1, <4>2, ElementOfSeq DEF Last
      <4> QED
        BY <1>2, <4>3
    <3> QED
      BY <3>2, <3>3, <3>4
  <2>6. merged[k] \in Seq(Segment) /\ InOrder(merged[k]) /\ Starts(merged[k]) \subseteq Starts(segs)
    BY <2>2
  <2>7. segs[k + 1].start \in Starts(segs)
    BY <1>1, <2>2 DEF Starts
  <2> HIDE DEF Good
  <2>8. /\ merged[k + 1] \in Seq(Segment) /\ merged[k + 1] # <<>> /\ InOrder(merged[k + 1])
        /\ Last(merged[k + 1]).start <= segs[k + 1].start
        /\ Starts(merged[k + 1]) \subseteq Starts(merged[k]) \cup {segs[k + 1].start}
    BY <2>3, <2>4, <2>5, <2>6, TurnKeepsOrder
  <2>9. k + 1 # 0
    BY <2>1
  <2> QED
    BY <2>6, <2>7, <2>8, <2>9 DEF Good
<1>7. Good(L)
  <2> HIDE DEF Good
  <2>1. L \in Holds
    <3> HIDE DEF Holds
    <3>1. Holds \in SUBSET Nat
      BY DEF Holds
    <3> QED
      BY <1>1, <1>5, <1>6, <3>1, SetInduction
  <2> QED
    BY <1>1, <2>1
<1> QED
  BY <1>4, <1>7

-----------------------------------------------------------------------------
(* The speakers.                                                            *)

(* The speakers can be counted.                                             *)
LEMMA SpeakersAreFinite ==
    ASSUME NEW segs \in Seq(Segment)
    PROVE  IsFiniteSet(Speakers(segs)) /\ Cardinality(Speakers(segs)) \in Nat
<1> DEFINE S == Speakers(segs)
           L == Len(segs)
           f == [i \in 1 .. L |-> segs[i].speaker]
<1>1. L \in Nat /\ DOMAIN segs = 1 .. L
  BY LenProperties
<1>2. f \in Surjection(1 .. L, S)
  BY <1>1 DEF Surjection, Speakers
<1>3. IsFiniteSet(1 .. L)
  BY <1>1, FS_Interval
<1> HIDE DEF f, S
<1>4. IsFiniteSet(S)
  BY <1>2, <1>3, FS_Surjection
<1> QED
  BY <1>4, FS_CardinalityType DEF S

(* There are finitely many speakers, so a ranking names all of them.        *)
LEMMA RankingsAreWhole ==
    ASSUME NEW segs \in Seq(Segment), NEW ranking \in Rankings(segs)
    PROVE  ToSet(ranking) = Speakers(segs)
<1> DEFINE S == Speakers(segs)
           L == Len(segs)
           C == Cardinality(S)
<1>1. L \in Nat /\ DOMAIN segs = 1 .. L
  BY LenProperties
<1>2. IsFiniteSet(S)
  BY SpeakersAreFinite
<1>3. /\ ranking \in [1 .. C -> S]
      /\ \A i, j \in 1 .. C : i # j => ranking[i] # ranking[j]
  BY DEF Rankings, SetToSeqs
<1> HIDE DEF S
<1>4. C \in Nat
  BY <1>2, FS_CardinalityType
<1>5. IsFiniteSet(1 .. C) /\ Cardinality(1 .. C) = C
  <2> HIDE DEF C
  <2>1. 1 \in Int /\ C \in Int
    BY <1>4
  <2>2. /\ IsFiniteSet(1 .. C)
        /\ Cardinality(1 .. C) = IF 1 > C THEN 0 ELSE C - 1 + 1
    BY <2>1, FS_Interval
  <2> QED
    BY <1>4, <2>2
<1>6. ranking \in Injection(1 .. C, S)
  BY <1>3 DEF Injection, IsInjective
<1>7. ranking \in Surjection(1 .. C, S)
  BY <1>2, <1>5, <1>6, FS_Injection
<1>8. \A s \in S : \E i \in 1 .. C : ranking[i] = s
  BY <1>7 DEF Surjection
<1>9. ToSet(ranking) = S
  BY <1>3, <1>8 DEF ToSet
<1> QED
  BY <1>9 DEF S

(* A ranking puts the longest first.                                        *)
LEMMA LongestFirst ==
    ASSUME NEW segs \in Seq(Segment), NEW ranking \in Rankings(segs)
    PROVE  LET total == Durations(segs)
               count == Cardinality(Speakers(segs))
           IN  /\ ranking \in [1 .. count -> Speakers(segs)]
               /\ \A s \in Speakers(segs) : \E k \in 1 .. count : ranking[k] = s
               /\ \A i, j \in 1 .. count : i < j => total[ranking[j]] <= total[ranking[i]]
<1> DEFINE count == Cardinality(Speakers(segs))
           total == Durations(segs)
<1>1. ranking \in [1 .. count -> Speakers(segs)]
  BY DEF Rankings, SetToSeqs
<1>2. DOMAIN ranking = 1 .. count
  BY <1>1
<1>3. \A i, j \in DOMAIN ranking : i < j => total[ranking[i]] >= total[ranking[j]]
  BY Zenon DEF Rankings
<1>4. \A s \in Speakers(segs) : \E k \in 1 .. count : ranking[k] = s
  BY <1>2, RankingsAreWhole DEF ToSet
<1> HIDE DEF count, total
<1>5. \A i, j \in 1 .. count : i < j => total[ranking[j]] <= total[ranking[i]]
  BY <1>2, <1>3
<1> QED
  BY <1>1, <1>4, <1>5 DEF count, total

(* A ranking of the speakers gives each of them a new number.               *)
LEMMA MappingFacts ==
    ASSUME NEW segs \in Seq(Segment), NEW ranking \in Rankings(segs), NEW max \in Nat \ {0}
    PROVE  Mapping(ranking, max) \in [Speakers(segs) -> 0 .. max - 1]
<1> DEFINE label == Mapping(ranking, max)
<1>1. ToSet(ranking) = Speakers(segs)
  BY RankingsAreWhole
<1>2. DOMAIN ranking \subseteq Int
  <2>1. DOMAIN ranking = 1 .. Cardinality(Speakers(segs))
    BY DEF Rankings, SetToSeqs
  <2> QED
    BY <2>1
<1>3. ASSUME NEW s \in Speakers(segs) PROVE label[s] \in 0 .. max - 1
  <2>1. \E k \in DOMAIN ranking : ranking[k] = s
    BY <1>1 DEF ToSet
  <2> DEFINE first == CHOOSE k \in DOMAIN ranking : ranking[k] = s
  <2>2. first \in Int
    BY <1>2, <2>1
  <2>3. label[s] = (first - 1) % max
    BY <1>1 DEF Mapping
  <2> HIDE DEF first, label
  <2>4. (first - 1) % max \in 0 .. max - 1
    BY <2>2
  <2> QED
    BY <2>3, <2>4
<1>4. label = [s \in Speakers(segs) |-> label[s]]
  BY <1>1 DEF Mapping
<1> QED
  BY <1>3, <1>4

(* The speaker at each place of a ranking gets the number of that place,    *)
(* counted from 0 and around.                                               *)
LEMMA NumbersGoAround ==
    ASSUME NEW segs \in Seq(Segment), NEW ranking \in Rankings(segs), NEW max \in Nat \ {0},
           NEW k \in 1 .. Cardinality(Speakers(segs))
    PROVE  Mapping(ranking, max)[ranking[k]] = (k - 1) % max
<1>1. /\ DOMAIN ranking = 1 .. Cardinality(Speakers(segs))
      /\ \A i, j \in DOMAIN ranking : i # j => ranking[i] # ranking[j]
  BY DEF Rankings, SetToSeqs
<1>2. ranking[k] \in ToSet(ranking)
  BY <1>1 DEF ToSet
<1>3. k = CHOOSE i \in DOMAIN ranking : ranking[i] = ranking[k]
  BY <1>1
<1> QED
  BY <1>2, <1>3, Zenon DEF Mapping

-----------------------------------------------------------------------------
(* New labels.                                                              *)

(* Relabelling changes the speakers and nothing else.                       *)
LEMMA RelabelFacts ==
    ASSUME NEW segs \in Seq(Segment), NEW label \in [Nat -> Nat]
    PROVE  /\ Relabel(segs, label) \in Seq(Segment)
           /\ Len(Relabel(segs, label)) = Len(segs)
           /\ \A i \in 1 .. Len(segs) :
                  /\ Relabel(segs, label)[i].start = segs[i].start
                  /\ Relabel(segs, label)[i].end = segs[i].end
                  /\ Relabel(segs, label)[i].speaker = label[segs[i].speaker]
<1> DEFINE len == Len(segs)
           new == Relabel(segs, label)
<1>1. len \in Nat /\ DOMAIN segs = 1 .. len /\ \A i \in 1 .. len : segs[i] \in Segment
  BY LenProperties, ElementOfSeq
<1>2. new = [i \in 1 .. len |-> [segs[i] EXCEPT !.speaker = label[segs[i].speaker]]]
  BY <1>1, Zenon DEF Relabel
<1> HIDE DEF new, len
<1>3. ASSUME NEW i \in 1 .. len
      PROVE  /\ new[i].start = segs[i].start /\ new[i].end = segs[i].end
             /\ new[i].speaker = label[segs[i].speaker]
             /\ new[i] \in Segment
  <2>1. segs[i] \in Segment /\ label[segs[i].speaker] \in Nat
    BY <1>1 DEF Segment
  <2>2. new[i] = [segs[i] EXCEPT !.speaker = label[segs[i].speaker]]
    BY <1>2
  <2>3. new[i] = [start |-> segs[i].start, end |-> segs[i].end, speaker |-> label[segs[i].speaker]]
    BY <2>1, <2>2 DEF Segment
  <2> QED
    BY <2>1, <2>3 DEF Segment
<1>4. new \in [1 .. len -> Segment] /\ DOMAIN new = 1 .. len
  BY <1>2, <1>3
<1>5. new \in Seq(Segment) /\ Len(new) = len
  BY <1>1, <1>4, LenProperties
<1> QED
  BY <1>3, <1>5 DEF new, len

(* and relabelled to nothing.                                               *)
LEMMA RelabelNothing ==
    ASSUME NEW label
    PROVE  Relabel(<<>>, label) = <<>>
  BY DEF Relabel

(* Relabelling goes over the segments one by one as well.                   *)
LEMMA RelabelAppend ==
    ASSUME NEW segs \in Seq(Segment), NEW next \in Segment, NEW label \in [Nat -> Nat]
    PROVE  /\ Relabel(segs, label) \in Seq(Segment)
           /\ Relabel(Append(segs, next), label) = Append(Relabel(segs, label), Labelled(next, label))
<1> DEFINE len == Len(segs)
           more == Append(segs, next)
           old == Relabel(segs, label)
           new == Relabel(more, label)
<1>1. /\ len \in Nat /\ more \in Seq(Segment) /\ Len(more) = len + 1 /\ more[len + 1] = next
      /\ \A i \in 1 .. len : more[i] = segs[i] /\ segs[i] \in Segment
  BY LenProperties, ElementOfSeq, AppendProperties
<1>2. /\ old \in Seq(Segment) /\ Len(old) = len
      /\ \A i \in 1 .. len : /\ old[i].start = segs[i].start /\ old[i].end = segs[i].end
                             /\ old[i].speaker = label[segs[i].speaker]
  BY RelabelFacts
<1>3. /\ new \in Seq(Segment) /\ Len(new) = len + 1
      /\ \A i \in 1 .. len + 1 : /\ new[i].start = more[i].start /\ new[i].end = more[i].end
                                 /\ new[i].speaker = label[more[i].speaker]
  <2> HIDE DEF more, len
  <2>1. /\ new \in Seq(Segment) /\ Len(new) = Len(more)
        /\ \A i \in 1 .. Len(more) : /\ new[i].start = more[i].start /\ new[i].end = more[i].end
                                    /\ new[i].speaker = label[more[i].speaker]
    BY <1>1, RelabelFacts
  <2> QED
    BY <1>1, <2>1
<1>4. PICK last \in Segment : /\ last = Labelled(next, label)
                             /\ last.start = next.start /\ last.end = next.end
                             /\ last.speaker = label[next.speaker]
  BY LabelledFacts
<1> DEFINE want == Append(old, last)
<1> HIDE DEF old, len
<1>5. /\ want \in Seq(Segment) /\ Len(want) = len + 1 /\ want[len + 1] = last
      /\ \A i \in 1 .. len : want[i] = old[i]
  <2>1. old \in Seq(Segment) /\ Len(old) = len
    BY <1>2
  <2> QED
    BY <2>1, AppendProperties
<1> HIDE DEF more, new, want
<1>7. \A i \in 1 .. len + 1 : new[i] \in Segment /\ want[i] \in Segment
  <2>1. (\A i \in 1 .. Len(new) : new[i] \in Segment) /\ (\A i \in 1 .. Len(want) : want[i] \in Segment)
    BY <1>3, <1>5, ElementOfSeq
  <2> QED
    BY <1>3, <1>5, <2>1
<1>8. ASSUME NEW i \in 1 .. len + 1 PROVE new[i] = want[i]
  <2>1. new[i] \in Segment /\ want[i] \in Segment
    BY <1>7
  <2>2. /\ new[i].start = more[i].start /\ new[i].end = more[i].end
        /\ new[i].speaker = label[more[i].speaker]
    BY <1>3
  <2>3. CASE i \in 1 .. len
    <3>1. /\ want[i].start = more[i].start /\ want[i].end = more[i].end
          /\ want[i].speaker = label[more[i].speaker]
      <4>1. want[i] = old[i] /\ more[i] = segs[i]
        BY <1>1, <1>5, <2>3
      <4>2. /\ old[i].start = segs[i].start /\ old[i].end = segs[i].end
            /\ old[i].speaker = label[segs[i].speaker]
        BY <1>2, <2>3
      <4> QED
        BY <4>1, <4>2
    <3> QED
      BY <2>1, <2>2, <3>1, SegmentsAgree
  <2>4. CASE i = len + 1
    <3>1. /\ want[i].start = more[i].start /\ want[i].end = more[i].end
          /\ want[i].speaker = label[more[i].speaker]
      <4>1. want[i] = last /\ more[i] = next
        BY <1>1, <1>5, <2>4
      <4> QED
        BY <1>4, <4>1
    <3> QED
      BY <2>1, <2>2, <3>1, SegmentsAgree
  <2> QED
    BY <1>1, <2>3, <2>4
<1>9. new = want
  <2>1. new \in [1 .. Len(new) -> Segment] /\ want \in [1 .. Len(want) -> Segment]
    BY <1>3, <1>5, LenProperties
  <2>2. new \in [1 .. len + 1 -> Segment] /\ want \in [1 .. len + 1 -> Segment]
    BY <1>3, <1>5, <2>1
  <2>3. new = [i \in 1 .. len + 1 |-> new[i]] /\ want = [i \in 1 .. len + 1 |-> want[i]]
    BY <2>2
  <2> QED
    BY <1>8, <2>3
<1> QED
  BY <1>2, <1>4, <1>9 DEF old, new, want, more

(* The numbers of the speakers as labels change nothing.                    *)
LEMMA OwnLabels ==
    ASSUME NEW segs \in Seq(Segment)
    PROVE  Relabel(segs, [s \in Nat |-> s]) = segs
<1> DEFINE label == [s \in Nat |-> s]
           new == Relabel(segs, label)
           len == Len(segs)
<1>1. label \in [Nat -> Nat] /\ \A s \in Nat : label[s] = s
  OBVIOUS
<1> HIDE DEF label
<1>2. /\ new \in Seq(Segment) /\ Len(new) = len
      /\ \A i \in 1 .. len : /\ new[i].start = segs[i].start /\ new[i].end = segs[i].end
                             /\ new[i].speaker = label[segs[i].speaker]
  BY <1>1, RelabelFacts
<1> HIDE DEF new
<1>3. ASSUME NEW i \in 1 .. len PROVE new[i] = segs[i]
  <2>1. new[i] \in Segment /\ segs[i] \in Segment
    BY <1>2, ElementOfSeq
  <2>2. new[i].speaker = segs[i].speaker
    BY <1>1, <1>2, <2>1, Fields
  <2> QED
    BY <1>2, <2>1, <2>2, SegmentsAgree
<1>4. new \in [1 .. len -> Segment] /\ segs \in [1 .. len -> Segment]
  BY <1>2, LenProperties
<1> HIDE DEF len
<1>5. new = [i \in 1 .. len |-> new[i]] /\ segs = [i \in 1 .. len |-> segs[i]]
  BY <1>4
<1>6. new = segs
  BY <1>3, <1>5
<1> QED
  BY <1>6 DEF new, label

(* A label for each speaker of a list can be one for every number.          *)
LEMMA TotalLabel ==
    ASSUME NEW segs \in Seq(Segment), NEW label \in [Speakers(segs) -> Nat]
    PROVE  \E total \in [Nat -> Nat] :
               /\ \A s \in Speakers(segs) : total[s] = label[s]
               /\ Relabel(segs, total) = Relabel(segs, label)
<1> DEFINE total == [s \in Nat |-> IF s \in Speakers(segs) THEN label[s] ELSE 0]
<1>1. \A i \in DOMAIN segs : segs[i].speaker \in Speakers(segs)
  BY DEF Speakers
<1>2. Speakers(segs) \subseteq Nat
  <2>1. DOMAIN segs = 1 .. Len(segs)
    BY LenProperties
  <2>2. \A i \in DOMAIN segs : segs[i] \in Segment
    BY <2>1, ElementOfSeq
  <2> QED
    BY <2>2 DEF Speakers, Segment
<1>3. \A s \in Speakers(segs) : total[s] = label[s]
  BY <1>2
<1>4. total \in [Nat -> Nat]
  OBVIOUS
<1> HIDE DEF total
<1>5. Relabel(segs, total) = Relabel(segs, label)
  <2> DEFINE Same(f) == [i \in DOMAIN segs |-> [segs[i] EXCEPT !.speaker = f[i]]]
             f == [i \in DOMAIN segs |-> total[segs[i].speaker]]
             g == [i \in DOMAIN segs |-> label[segs[i].speaker]]
  <2>1. f = g
    BY <1>1, <1>3
  <2>2. Relabel(segs, total) = Same(f)
    BY Zenon DEF Relabel
  <2>3. Relabel(segs, label) = Same(g)
    BY Zenon DEF Relabel
  <2> HIDE DEF Same, f, g
  <2> QED
    BY <2>1, <2>2, <2>3
<1> QED
  BY <1>3, <1>4, <1>5

(* New labels for the speakers move no segment.                             *)
LEMMA RelabellingMovesNothing ==
    ASSUME NEW segs \in Seq(Segment), InOrder(segs), NEW label \in [Nat -> Nat]
    PROVE  /\ Relabel(segs, label) \in Seq(Segment)
           /\ InOrder(Relabel(segs, label))
           /\ Starts(Relabel(segs, label)) = Starts(segs)
<1> DEFINE new == Relabel(segs, label)
           len == Len(segs)
<1>1. len \in Nat /\ DOMAIN segs = 1 .. len
  BY LenProperties
<1>2. /\ new \in Seq(Segment) /\ Len(new) = len
      /\ \A i \in 1 .. len : new[i].start = segs[i].start /\ new[i].end = segs[i].end
  BY RelabelFacts
<1> HIDE DEF new
<1>3. DOMAIN new = 1 .. len
  BY <1>2, LenProperties
<1> HIDE DEF len
<1>4. \A i \in 2 .. len : i \in 1 .. len /\ i - 1 \in 1 .. len
  BY <1>1
<1>5. InOrder(new)
  BY <1>1, <1>2, <1>3, <1>4 DEF InOrder, len
<1>6. Starts(new) = Starts(segs)
  BY <1>1, <1>2, <1>3 DEF Starts
<1> QED
  BY <1>2, <1>5, <1>6 DEF new

(* Whatever Process answers, its segments are in order and each starts      *)
(* where one of those starts that the native diarizer found.                *)
LEMMA ProcessKeepsOrder ==
    ASSUME NEW found \in Seq(Segment), InOrder(found), NEW max \in Int,
           NEW answer \in Process(found, max)
    PROVE  answer \in Seq(Segment) /\ InOrder(answer) /\ Starts(answer) \subseteq Starts(found)
<1> DEFINE segs == MergeAdjacent(found)
<1>1. segs \in Seq(Segment) /\ InOrder(segs) /\ Starts(segs) \subseteq Starts(found)
  BY MergingKeepsOrder
<1> HIDE DEF segs
<1>2. CASE answer = segs
  BY <1>1, <1>2
<1>3. CASE answer # segs
  <2>1. max > 0 /\ answer \in MergeSpeakers(segs, max)
    BY <1>3 DEF Process, segs
  <2>2. PICK ranking \in Rankings(segs) :
          answer = MergeAdjacent(Relabel(segs, Mapping(ranking, max)))
    BY <1>3, <2>1 DEF MergeSpeakers
  <2> DEFINE new == Relabel(segs, Mapping(ranking, max))
  <2>3. PICK label \in [Speakers(segs) -> Nat] : label = Mapping(ranking, max)
    <3>1. max \in Nat \ {0}
      BY <2>1
    <3>2. Mapping(ranking, max) \in [Speakers(segs) -> 0 .. max - 1]
      BY <1>1, <3>1, MappingFacts
    <3>3. 0 .. max - 1 \subseteq Nat
      OBVIOUS
    <3> QED
      BY <3>2, <3>3
  <2>4. new \in Seq(Segment) /\ InOrder(new) /\ Starts(new) = Starts(segs)
    <3>1. PICK total \in [Nat -> Nat] : Relabel(segs, total) = Relabel(segs, label)
      BY <1>1, TotalLabel
    <3> QED
      BY <1>1, <2>3, <3>1, RelabellingMovesNothing
  <2>5. answer = MergeAdjacent(new)
    BY <2>2
  <2> HIDE DEF new
  <2> QED
    BY <1>1, <2>4, <2>5, MergingKeepsOrder
<1> QED
  BY <1>2, <1>3

(* Merging, relabelling and merging again is relabelling and merging once.  *)
LEMMA MergeOnce ==
    ASSUME NEW segs \in Seq(Segment), NEW label \in [Nat -> Nat]
    PROVE  MergeAdjacent(Relabel(MergeAdjacent(segs), label)) = MergeAdjacent(Relabel(segs, label))
<1> DEFINE Twice(s) == MergeAdjacent(Relabel(MergeAdjacent(s), label))
           Once(s)  == MergeAdjacent(Relabel(s, label))
           Same == {s \in Seq(Segment) : Twice(s) = Once(s)}
<1>1. <<>> \in Same
  <2>1. <<>> \in Seq(Segment)
    OBVIOUS
  <2>2. Twice(<<>>) = Once(<<>>)
    BY MergeNothing, RelabelNothing
  <2> QED
    BY <2>1, <2>2
<1>2. ASSUME NEW s \in Seq(Segment), s \in Same, NEW next \in Segment PROVE Append(s, next) \in Same
  <2>1. PICK merged \in Seq(Segment) : merged = MergeAdjacent(s)
    BY MergedAreSegments
  <2>2. PICK new \in Segment : /\ new = Labelled(next, label) /\ new.start = next.start
                               /\ new.end = next.end /\ new.speaker = label[next.speaker]
    BY LabelledFacts
  <2>3. PICK once \in Seq(Segment) : once = Once(s) /\ once = MergeAdjacent(Relabel(merged, label))
    BY <1>2, <2>1, RelabelAppend, MergedAreSegments
  <2>4. Once(Append(s, next)) = MergeNext(once, new)
    <3>1. Relabel(Append(s, next), label) = Append(Relabel(s, label), new) /\ Relabel(s, label) \in Seq(Segment)
      BY <2>2, RelabelAppend
    <3> QED
      BY <2>3, <3>1, MergeAppend
  <2>5. Twice(Append(s, next)) = MergeAdjacent(Relabel(MergeNext(merged, next), label))
    BY <2>1, MergeAppend
  <2>6. ASSUME MergeNext(merged, next) = Append(merged, next)
        PROVE  Twice(Append(s, next)) = MergeNext(once, new)
    <3>1. /\ Relabel(Append(merged, next), label) = Append(Relabel(merged, label), new)
          /\ Relabel(merged, label) \in Seq(Segment)
      BY <2>2, RelabelAppend
    <3> QED
      BY <2>3, <2>5, <2>6, <3>1, MergeAppend
  <2>7. CASE merged = <<>>
    <3>1. MergeNext(merged, next) = Append(merged, next)
      BY <2>7 DEF MergeNext
    <3> QED
      BY <2>4, <2>6, <3>1, AppendProperties
  <2>8. CASE merged # <<>>
    <3>1. PICK front \in Seq(Segment), last \in Segment : merged = Append(front, last)
      BY <2>8, SequenceEmptyOrAppend
    <3>2. CASE ~Mergeable(last, next)
      <4>1. MergeNext(merged, next) = Append(merged, next)
        BY <3>1, <3>2, TurnOnLast
      <4> QED
        BY <2>4, <2>6, <4>1, AppendProperties
    <3>3. CASE Mergeable(last, next)
      <4>1. PICK longer \in Segment : longer = EndAt(last, next.end)
        BY Fields, EndAtFacts
      <4>2. MergeNext(merged, next) = Append(front, longer)
        BY <3>1, <3>3, <4>1, TurnOnLast
      <4>3. PICK named \in Segment : /\ named = Labelled(last, label) /\ named.start = last.start
                                     /\ named.end = last.end /\ named.speaker = label[last.speaker]
        BY LabelledFacts
      <4>4. Labelled(longer, label) = EndAt(named, new.end)
        BY <2>2, <4>1, <4>3, EndAtFacts, Fields DEF EndAt, Labelled
      <4>5. Mergeable(named, new)
        BY <2>2, <3>3, <4>3 DEF Mergeable
      <4>6. PICK some \in Seq(Segment) : some = MergeAdjacent(Relabel(front, label))
        BY RelabelAppend, MergedAreSegments
      <4>7. once = MergeNext(some, named)
        <5>1. Relabel(merged, label) = Append(Relabel(front, label), named) /\ Relabel(front, label) \in Seq(Segment)
          BY <3>1, <4>3, RelabelAppend
        <5> QED
          BY <2>3, <4>6, <5>1, MergeAppend
      <4>8. Twice(Append(s, next)) = MergeNext(some, EndAt(named, new.end))
        <5>1. /\ Relabel(Append(front, longer), label) = Append(Relabel(front, label), Labelled(longer, label))
              /\ Relabel(front, label) \in Seq(Segment) /\ Labelled(longer, label) \in Segment
          BY RelabelAppend, LabelledFacts
        <5> QED
          BY <2>5, <4>2, <4>4, <4>6, <5>1, MergeAppend
      <4> QED
        BY <2>4, <4>5, <4>7, <4>8, TwoTurns, AppendProperties
    <3> QED
      BY <3>2, <3>3
  <2> QED
    BY <2>7, <2>8
<1> HIDE DEF Same
<1>3. Seq(Segment) \subseteq Same
  BY <1>1, <1>2, AppendInduction
<1> QED
  BY <1>3 DEF Same

-----------------------------------------------------------------------------
(* One pass explains the answer.                                            *)

(* One more segment begins a new run, or it does not; the others' breaks    *)
(* stay.                                                                    *)
LEMMA BreaksOfMore ==
    ASSUME NEW found \in Seq(Segment), NEW next \in Segment, NEW label \in [Nat -> Nat]
    PROVE  LET more == Append(found, next)
               len  == Len(found)
               new  == \/ found = <<>>
                       \/ label[Last(found).speaker] # label[next.speaker]
                       \/ next.start - Last(found).end >= Gap
           IN  /\ Breaks(found, label) \subseteq 1 .. len
               /\ new => Breaks(more, label) = Breaks(found, label) \cup {len + 1}
               /\ ~new => Breaks(more, label) = Breaks(found, label)
<1> DEFINE more == Append(found, next)
           len  == Len(found)
           new  == \/ found = <<>>
                   \/ label[Last(found).speaker] # label[next.speaker]
                   \/ next.start - Last(found).end >= Gap
<1>1. /\ len \in Nat /\ DOMAIN found = 1 .. len /\ DOMAIN more = 1 .. len + 1 /\ more[len + 1] = next
      /\ \A i \in 1 .. len : more[i] = found[i]
  BY LenProperties, AppendProperties
<1>2. found = <<>> <=> len = 0
  BY EmptySeq
<1>3. Last(found) = found[len]
  BY DEF Last
<1> HIDE DEF len, more
<1>4. Breaks(found, label) \subseteq 1 .. len
  BY <1>1 DEF Breaks
<1>5. ASSUME NEW i \in 1 .. len PROVE i \in Breaks(more, label) <=> i \in Breaks(found, label)
  <2>1. i \in 1 .. len + 1 /\ more[i] = found[i] /\ (i # 1 => more[i - 1] = found[i - 1])
    <3>1. len \in Nat
      BY <1>1
    <3>2. i # 1 => i - 1 \in 1 .. len
      BY <3>1
    <3>3. i \in 1 .. len + 1
      BY <3>1
    <3> QED
      BY <1>1, <3>2, <3>3
  <2>2. CASE i = 1
    BY <1>1, <2>1, <2>2 DEF Breaks
  <2>3. CASE i # 1
    BY <1>1, <2>1, <2>3 DEF Breaks
  <2> QED
    BY <2>2, <2>3
<1>6. len + 1 \in Breaks(more, label) <=> new
  <2>1. len + 1 \in 1 .. len + 1 /\ (len + 1) - 1 = len /\ (len + 1 = 1 <=> len = 0)
    BY <1>1
  <2>2. CASE len = 0
    BY <1>1, <1>2, <2>1, <2>2 DEF Breaks
  <2>3. CASE len # 0
    <3>1. more[len] = found[len]
      <4>1. len \in 1 .. len
        BY <1>1, <2>3
      <4> QED
        BY <1>1, <4>1
    <3> QED
      BY <1>1, <1>2, <1>3, <2>1, <2>3, <3>1 DEF Breaks
  <2> QED
    BY <2>2, <2>3
<1>7. Breaks(more, label) \subseteq 1 .. len + 1
  BY <1>1 DEF Breaks
<1>8. \A i \in 1 .. len + 1 : i \in 1 .. len \/ i = len + 1
  BY <1>1
<1>9. len + 1 \notin 1 .. len
  BY <1>1
<1> HIDE DEF new
<1>10. new => Breaks(more, label) = Breaks(found, label) \cup {len + 1}
  BY <1>4, <1>5, <1>6, <1>7, <1>8, <1>9
<1>11. ~new => Breaks(more, label) = Breaks(found, label)
  BY <1>4, <1>5, <1>6, <1>7, <1>8, <1>9
<1> QED
  BY <1>4, <1>10, <1>11 DEF new, more, len

(* The answer ends as what was found does.                                  *)
LEMMA EndsAlike ==
    ASSUME NEW found \in Seq(Segment), found # <<>>, NEW label \in [Nat -> Nat]
    PROVE  LET answer == MergeAdjacent(Relabel(found, label))
           IN  /\ answer # <<>>
               /\ Last(answer).end = Last(found).end
               /\ Last(answer).speaker = label[Last(found).speaker]
<1>1. PICK s \in Seq(Segment), next \in Segment : found = Append(s, next)
  BY SequenceEmptyOrAppend
<1>2. PICK last \in Segment : /\ last = Labelled(next, label) /\ last.end = next.end
                             /\ last.speaker = label[next.speaker]
  BY LabelledFacts
<1>3. PICK new \in Seq(Segment) : new = Relabel(s, label)
  BY RelabelAppend
<1>4. Relabel(found, label) = Append(new, last)
  BY <1>1, <1>2, <1>3, RelabelAppend
<1>5. /\ Append(new, last) \in Seq(Segment) /\ Append(new, last) # <<>>
      /\ Last(Append(new, last)) = last /\ Last(found) = next
  BY <1>1, LastOfAppend
<1>6. PICK relabelled \in Seq(Segment) : relabelled = Append(new, last) /\ relabelled # <<>>
  BY <1>5
<1>7. /\ MergeAdjacent(relabelled) # <<>>
      /\ Last(MergeAdjacent(relabelled)).end = Last(relabelled).end
      /\ Last(MergeAdjacent(relabelled)).speaker = Last(relabelled).speaker
  BY <1>6, LastMerged
<1> QED
  BY <1>2, <1>4, <1>5, <1>6, <1>7

(* Where there is a place there is a last one.                              *)
LEMMA LastIsInside ==
    ASSUME NEW len \in Nat, NEW i \in 1 .. len
    PROVE  len \in 1 .. len
  OBVIOUS

(* The place before a later one is a place.                                 *)
LEMMA BeforeIsInside ==
    ASSUME NEW len \in Nat, NEW i \in 1 .. len, NEW j \in 1 .. len, i < j
    PROVE  j - 1 \in 1 .. len
  OBVIOUS

(* A gap is wide or it is not.                                              *)
LEMMA GapOrNot ==
    ASSUME NEW a \in Nat, NEW b \in Nat, NEW c \in Nat
    PROVE  a - b >= c <=> ~(a - b < c)
  OBVIOUS

(* One pass explains the answer as in Explains, and each of its segments     *)
(* ends with the last one of its run.                                       *)
RunsExplain(label, found, segs) ==
    \E first \in [DOMAIN segs -> Breaks(found, label)] :
        /\ \A i \in Breaks(found, label) : \E k \in DOMAIN first : first[k] = i
        /\ \A k \in 2 .. Len(segs) : first[k - 1] < first[k]
        /\ \A k \in DOMAIN segs :
               LET last == IF k = Len(segs) THEN Len(found) ELSE first[k + 1] - 1
               IN  /\ segs[k].start = found[first[k]].start
                   /\ segs[k].end = found[last].end
                   /\ segs[k].speaker = label[found[first[k]].speaker]

(* Relabelling and merging is what one pass explains.                       *)
LEMMA OnePass ==
    ASSUME NEW segs \in Seq(Segment), NEW label \in [Nat -> Nat]
    PROVE  RunsExplain(label, segs, MergeAdjacent(Relabel(segs, label)))
<1> DEFINE Answer(s) == MergeAdjacent(Relabel(s, label))
           Good == {s \in Seq(Segment) : RunsExplain(label, s, Answer(s))}
<1>1. <<>> \in Good
  <2>1. <<>> \in Seq(Segment) /\ Len(<<>>) = 0 /\ DOMAIN <<>> = {}
    OBVIOUS
  <2>2. Answer(<<>>) = <<>>
    BY RelabelNothing, MergeNothing
  <2>3. Breaks(<<>>, label) = {}
    BY <2>1 DEF Breaks
  <2>4. RunsExplain(label, <<>>, <<>>)
    <3> DEFINE first == [k \in {} |-> 1]
    <3>1. first \in [DOMAIN <<>> -> Breaks(<<>>, label)]
      BY <2>1
    <3>2. \A k \in 2 .. Len(<<>>) : FALSE
      BY <2>1
    <3> HIDE DEF first
    <3> QED
      BY <2>1, <2>3, <3>1, <3>2 DEF RunsExplain
  <2> QED
    BY <2>1, <2>2, <2>4
<1>2. ASSUME NEW s \in Seq(Segment), s \in Good, NEW next \in Segment PROVE Append(s, next) \in Good
  <2> DEFINE more == Append(s, next)
             len == Len(s)
             K == Len(Answer(s))
  <2>1. /\ len \in Nat /\ DOMAIN s = 1 .. len
        /\ more \in Seq(Segment) /\ Len(more) = len + 1 /\ more[len + 1] = next
        /\ \A i \in 1 .. len : more[i] = s[i]
    BY LenProperties, AppendProperties
  <2>2. PICK answer \in Seq(Segment) : answer = Answer(s)
    BY RelabelAppend, MergedAreSegments
  <2>3. K \in Nat /\ Len(answer) = K /\ DOMAIN answer = 1 .. K
    BY <2>2, LenProperties
  <2>4. PICK first \in [1 .. K -> Breaks(s, label)] :
            /\ \A i \in Breaks(s, label) : \E k \in 1 .. K : first[k] = i
            /\ \A k \in 2 .. K : first[k - 1] < first[k]
            /\ \A k \in 1 .. K :
                   LET last == IF k = K THEN len ELSE first[k + 1] - 1
                   IN  /\ answer[k].start = s[first[k]].start
                       /\ answer[k].end = s[last].end
                       /\ answer[k].speaker = label[s[first[k]].speaker]
    <3>1. RunsExplain(label, s, answer)
      BY <1>2, <2>2
    <3>2. PICK first \in [DOMAIN answer -> Breaks(s, label)] :
            /\ \A i \in Breaks(s, label) : \E k \in DOMAIN first : first[k] = i
            /\ \A k \in 2 .. Len(answer) : first[k - 1] < first[k]
            /\ \A k \in DOMAIN answer :
                   LET last == IF k = Len(answer) THEN Len(s) ELSE first[k + 1] - 1
                   IN  /\ answer[k].start = s[first[k]].start
                       /\ answer[k].end = s[last].end
                       /\ answer[k].speaker = label[s[first[k]].speaker]
      BY <3>1, Zenon DEF RunsExplain
    <3> HIDE DEF K, len, more
    <3>3. first \in [1 .. K -> Breaks(s, label)] /\ DOMAIN first = 1 .. K
      BY <2>3, <3>2
    <3>4. /\ \A i \in Breaks(s, label) : \E k \in 1 .. K : first[k] = i
          /\ \A k \in 2 .. K : first[k - 1] < first[k]
      BY <2>3, <3>2, <3>3, Zenon
    <3>5. \A k \in 1 .. K :
             LET last == IF k = K THEN len ELSE first[k + 1] - 1
             IN  /\ answer[k].start = s[first[k]].start
                 /\ answer[k].end = s[last].end
                 /\ answer[k].speaker = label[s[first[k]].speaker]
      BY <2>3, <3>2, Zenon DEF len
    <3> QED
      BY <3>3, <3>4, <3>5, Zenon
  <2>5. PICK new \in Segment : /\ new = Labelled(next, label) /\ new.start = next.start
                               /\ new.end = next.end /\ new.speaker = label[next.speaker]
    BY LabelledFacts
  <2>6. Answer(more) = MergeNext(answer, new)
    <3>1. Relabel(more, label) = Append(Relabel(s, label), new) /\ Relabel(s, label) \in Seq(Segment)
      BY <2>5, RelabelAppend
    <3> QED
      BY <2>2, <3>1, MergeAppend
  <2> DEFINE begins == \/ s = <<>>
                       \/ label[Last(s).speaker] # label[next.speaker]
                       \/ next.start - Last(s).end >= Gap
  <2>7. /\ Breaks(s, label) \subseteq 1 .. len
        /\ begins => Breaks(more, label) = Breaks(s, label) \cup {len + 1}
        /\ ~begins => Breaks(more, label) = Breaks(s, label)
    BY BreaksOfMore
  <2>8. \A k \in 1 .. K : first[k] \in 1 .. len
    BY <2>4, <2>7
  <2>9. s # <<>> => /\ answer # <<>> /\ Last(answer).end = Last(s).end
                    /\ Last(answer).speaker = label[Last(s).speaker]
    BY <2>2, EndsAlike
  <2>10. s = <<>> => answer = <<>>
    BY <2>2, RelabelNothing, MergeNothing
  <2>11. begins <=> ~(answer # <<>> /\ Mergeable(Last(answer), new))
    <3>1. CASE s = <<>>
      BY <2>10, <3>1
    <3>2. CASE s # <<>>
      <4>1. PICK old \in Segment : old = Last(s)
        <5>1. PICK front \in Seq(Segment), old \in Segment : s = Append(front, old)
          BY <3>2, SequenceEmptyOrAppend
        <5> QED
          BY <5>1, LastOfAppend
      <4>2. old.end \in Nat /\ next.start \in Nat /\ Gap \in Nat
        BY Fields, TickAssumption
      <4>3. PICK last : /\ last = Last(answer) /\ answer # <<>>
                        /\ last.end = old.end /\ last.speaker = label[old.speaker]
        BY <2>9, <3>2, <4>1
      <4>4. Mergeable(last, new) <=> /\ label[old.speaker] = label[next.speaker]
                                     /\ next.start - old.end < Gap
        BY <2>5, <4>3 DEF Mergeable
      <4>5. begins <=> ~(label[old.speaker] = label[next.speaker] /\ next.start - old.end < Gap)
        <5>1. (next.start - old.end >= Gap) <=> ~(next.start - old.end < Gap)
          BY <4>2, GapOrNot, Zenon
        <5> QED
          BY <3>2, <4>1, <5>1, Zenon
      <4> HIDE DEF begins
      <4> QED
        BY <4>3, <4>4, <4>5
    <3> QED
      BY <3>1, <3>2
  <2> HIDE DEF begins, Answer, K, len, more
  <2>12. Breaks(s, label) \subseteq 1 .. len /\ \A i \in 1 .. len : i # len + 1
    BY <2>1, <2>7
  <2>15. len \in Nat /\ K \in Nat
    BY <2>1, <2>3
  <2>13. CASE begins
    <3> DEFINE longer == Append(answer, new)
               all == [k \in 1 .. K + 1 |-> IF k = K + 1 THEN len + 1 ELSE first[k]]
    <3>1. Answer(more) = longer
      BY <2>6, <2>11, <2>13 DEF MergeNext
    <3>2. /\ longer \in Seq(Segment) /\ Len(longer) = K + 1 /\ longer[K + 1] = new
          /\ DOMAIN longer = 1 .. K + 1
          /\ \A k \in 1 .. K : longer[k] = answer[k]
      <4>1. /\ longer \in Seq(Segment) /\ Len(longer) = Len(answer) + 1 /\ longer[Len(answer) + 1] = new
            /\ \A k \in 1 .. Len(answer) : longer[k] = answer[k]
        BY AppendProperties
      <4> QED
        BY <2>3, <4>1, LenProperties
    <3>3. Breaks(more, label) = Breaks(s, label) \cup {len + 1}
      BY <2>7, <2>13
    <3>4. /\ \A k \in 1 .. K + 1 : k \in 1 .. K \/ k = K + 1
          /\ K + 1 \in 1 .. K + 1
          /\ \A k \in 1 .. K : k \in 1 .. K + 1 /\ k # K + 1
      BY <2>3
    <3>5. /\ DOMAIN all = 1 .. K + 1 /\ all[K + 1] = len + 1
          /\ \A k \in 1 .. K : all[k] = first[k]
      BY <3>4
    <3>6. all \in [1 .. K + 1 -> Breaks(more, label)]
      BY <3>3, <3>4
    <3> HIDE DEF longer, all
    <3>7. \A i \in Breaks(more, label) : \E k \in DOMAIN all : all[k] = i
      BY <2>4, <3>3, <3>4, <3>5
    <3>8. ASSUME NEW k \in 2 .. K + 1 PROVE all[k - 1] < all[k]
      <4>1. k - 1 \in 1 .. K
        BY <2>3
      <4>2. CASE k = K + 1
        <5>1. first[k - 1] \in 1 .. len /\ all[k - 1] = first[k - 1] /\ all[k] = len + 1
          BY <2>8, <3>5, <4>1, <4>2
        <5> QED
          BY <2>15, <5>1
      <4>3. CASE k # K + 1
        <5>1. k \in 2 .. K /\ k \in 1 .. K
          BY <2>3, <4>3
        <5> QED
          BY <2>4, <3>5, <4>1, <5>1
      <4> QED
        BY <4>2, <4>3
    <3>9. ASSUME NEW k \in 1 .. K + 1
          PROVE  LET last == IF k = K + 1 THEN len + 1 ELSE all[k + 1] - 1
                 IN  /\ longer[k].start = more[all[k]].start
                     /\ longer[k].end = more[last].end
                     /\ longer[k].speaker = label[more[all[k]].speaker]
      <4>1. CASE k = K + 1
        BY <2>1, <2>5, <3>2, <3>5, <4>1
      <4>2. CASE k # K + 1
        <5>1. k \in 1 .. K
          BY <3>4, <4>2
        <5> DEFINE last == IF k = K THEN len ELSE first[k + 1] - 1
        <5>2. last \in 1 .. len /\ last = all[k + 1] - 1
          <6>1. CASE k = K
            <7>1. first[k] \in 1 .. len
              BY <2>8, <5>1
            <7>2. len \in 1 .. len
              BY <2>15, <7>1, LastIsInside, Zenon
            <7>3. all[k + 1] - 1 = len
              <8>1. all[k + 1] = len + 1
                BY <3>5, <6>1
              <8> QED
                BY <2>15, <8>1
            <7> QED
              BY <6>1, <7>2, <7>3
          <6>2. CASE k # K
            <7>1. k + 1 \in 2 .. K /\ k + 1 \in 1 .. K /\ (k + 1) - 1 = k
              BY <2>3, <5>1, <6>2
            <7>2. first[k] < first[k + 1] /\ first[k] \in 1 .. len /\ first[k + 1] \in 1 .. len
              BY <2>4, <2>8, <5>1, <7>1
            <7>3. all[k + 1] = first[k + 1]
              BY <3>5, <7>1
            <7>4. first[k + 1] - 1 \in 1 .. len
              BY <2>15, <7>2, BeforeIsInside, Zenon
            <7> QED
              BY <6>2, <7>3, <7>4
          <6> QED
            BY <6>1, <6>2
        <5>3. /\ answer[k].start = s[first[k]].start
              /\ answer[k].end = s[last].end
              /\ answer[k].speaker = label[s[first[k]].speaker]
          BY <2>4, <5>1
        <5> HIDE DEF last
        <5>4. more[last] = s[last] /\ more[first[k]] = s[first[k]] /\ longer[k] = answer[k] /\ all[k] = first[k]
          BY <2>1, <2>8, <3>2, <3>5, <5>1, <5>2
        <5> QED
          BY <4>2, <5>2, <5>3, <5>4
      <4> QED
        BY <4>1, <4>2
    <3>10. RunsExplain(label, more, longer)
      <4>1. \A k \in 2 .. Len(longer) : all[k - 1] < all[k]
        BY <3>2, <3>8
      <4>2. all \in [DOMAIN longer -> Breaks(more, label)]
        BY <3>2, <3>6
      <4>3. \A k \in DOMAIN longer :
               LET last == IF k = Len(longer) THEN Len(more) ELSE all[k + 1] - 1
               IN  /\ longer[k].start = more[all[k]].start
                   /\ longer[k].end = more[last].end
                   /\ longer[k].speaker = label[more[all[k]].speaker]
        BY <2>1, <3>2, <3>9, Zenon
      <4> QED
        BY <3>7, <4>1, <4>2, <4>3, Zenon DEF RunsExplain
    <3> QED
      BY <2>1, <3>1, <3>10 DEF more
  <2>14. CASE ~begins
    <3>1. PICK front \in Seq(Segment), old \in Segment : answer = Append(front, old)
      BY <2>11, <2>14, SequenceEmptyOrAppend
    <3>2. Mergeable(old, new)
      BY <2>11, <2>14, <3>1, LastOfAppend
    <3>3. PICK last \in Segment : /\ last = EndAt(old, new.end) /\ last.start = old.start
                                  /\ last.end = new.end /\ last.speaker = old.speaker
      BY Fields, EndAtFacts
    <3> DEFINE longer == Append(front, last)
    <3>4. Answer(more) = longer
      BY <2>6, <3>1, <3>2, <3>3, TurnOnLast
    <3>5. /\ Len(front) \in Nat /\ K = Len(front) + 1 /\ answer[K] = old
          /\ \A k \in 1 .. Len(front) : answer[k] = front[k]
      BY <2>3, <3>1, AppendProperties, LenProperties
    <3>6. /\ longer \in Seq(Segment) /\ Len(longer) = K /\ longer[K] = last
          /\ DOMAIN longer = 1 .. K
          /\ \A k \in 1 .. Len(front) : longer[k] = front[k]
      BY <3>5, AppendProperties, LenProperties
    <3>7. /\ K \in 1 .. K
          /\ \A k \in 1 .. K : k # K => k \in 1 .. Len(front) /\ longer[k] = answer[k]
      <4>1. \A k \in 1 .. K : k # K => k \in 1 .. Len(front)
        BY <3>5
      <4>2. K \in 1 .. K
        BY <3>5
      <4> QED
        BY <3>5, <3>6, <4>1, <4>2
    <3>8. Breaks(more, label) = Breaks(s, label)
      BY <2>7, <2>14
    <3> HIDE DEF longer
    <3>9. ASSUME NEW k \in 1 .. K
          PROVE  LET end == IF k = K THEN len + 1 ELSE first[k + 1] - 1
                 IN  /\ longer[k].start = more[first[k]].start
                     /\ longer[k].end = more[end].end
                     /\ longer[k].speaker = label[more[first[k]].speaker]
      <4> DEFINE end == IF k = K THEN len ELSE first[k + 1] - 1
      <4>1. /\ answer[k].start = s[first[k]].start
            /\ answer[k].end = s[end].end
            /\ answer[k].speaker = label[s[first[k]].speaker]
        BY <2>4
      <4>2. more[first[k]] = s[first[k]]
        BY <2>1, <2>8
      <4>3. CASE k = K
        BY <2>1, <2>5, <3>3, <3>5, <3>6, <4>1, <4>2, <4>3
      <4>4. CASE k # K
        <5>1. longer[k] = answer[k]
          BY <3>7, <4>4
        <5>2. more[end] = s[end]
          <6>1. k + 1 \in 2 .. K /\ k + 1 \in 1 .. K /\ (k + 1) - 1 = k
            BY <2>3, <4>4
          <6>2. first[k] < first[k + 1] /\ first[k] \in 1 .. len /\ first[k + 1] \in 1 .. len
            BY <2>4, <2>8, <6>1
          <6>3. first[k + 1] - 1 \in 1 .. len
            BY <2>15, <6>2, BeforeIsInside, Zenon
          <6> QED
            BY <2>1, <4>4, <6>3
        <5> QED
          BY <4>1, <4>2, <4>4, <5>1, <5>2
      <4> QED
        BY <4>3, <4>4
    <3>10. RunsExplain(label, more, longer)
      <4>1. \A k \in 2 .. Len(longer) : first[k - 1] < first[k]
        BY <2>4, <3>6
      <4>2. first \in [DOMAIN longer -> Breaks(more, label)] /\ DOMAIN first = 1 .. K
        BY <2>4, <3>6, <3>8
      <4>3. \A k \in DOMAIN longer :
               LET end == IF k = Len(longer) THEN Len(more) ELSE first[k + 1] - 1
               IN  /\ longer[k].start = more[first[k]].start
                   /\ longer[k].end = more[end].end
                   /\ longer[k].speaker = label[more[first[k]].speaker]
        BY <2>1, <3>6, <3>9, Zenon
      <4>4. \A i \in Breaks(more, label) : \E k \in DOMAIN first : first[k] = i
        BY <2>4, <3>8, <4>2
      <4> QED
        BY <4>1, <4>2, <4>3, <4>4, Zenon DEF RunsExplain
    <3> QED
      BY <2>1, <3>4, <3>10 DEF more
  <2> QED
    BY <2>13, <2>14
<1> HIDE DEF Good
<1>3. Seq(Segment) \subseteq Good
  BY <1>1, <1>2, AppendInduction
<1> QED
  BY <1>3 DEF Good

(* Only the labels of speakers that were found matter.                      *)
LEMMA SameLabels ==
    ASSUME NEW found \in Seq(Segment), NEW label, NEW other, NEW segs,
           \A s \in Speakers(found) : label[s] = other[s],
           RunsExplain(label, found, segs)
    PROVE  RunsExplain(other, found, segs)
<1>1. \A i \in DOMAIN found : label[found[i].speaker] = other[found[i].speaker]
  BY DEF Speakers
<1>2. DOMAIN found = 1 .. Len(found) /\ Len(found) \in Nat
  BY LenProperties
<1>3. \A i \in DOMAIN found : i = 1 \/ i - 1 \in DOMAIN found
  BY <1>2
<1>4. Breaks(found, label) = Breaks(found, other)
  BY <1>1, <1>3, Zenon DEF Breaks
<1>5. Breaks(found, label) \subseteq DOMAIN found
  BY DEF Breaks
<1>6. PICK first \in [DOMAIN segs -> Breaks(found, label)] :
        /\ \A i \in Breaks(found, label) : \E k \in DOMAIN first : first[k] = i
        /\ \A k \in 2 .. Len(segs) : first[k - 1] < first[k]
        /\ \A k \in DOMAIN segs :
               LET last == IF k = Len(segs) THEN Len(found) ELSE first[k + 1] - 1
               IN  /\ segs[k].start = found[first[k]].start
                   /\ segs[k].end = found[last].end
                   /\ segs[k].speaker = label[found[first[k]].speaker]
  BY Zenon DEF RunsExplain
<1>7. \A k \in DOMAIN segs : label[found[first[k]].speaker] = other[found[first[k]].speaker]
  BY <1>1, <1>5
<1>8. \A k \in DOMAIN segs :
               LET last == IF k = Len(segs) THEN Len(found) ELSE first[k + 1] - 1
               IN  /\ segs[k].start = found[first[k]].start
                   /\ segs[k].end = found[last].end
                   /\ segs[k].speaker = other[found[first[k]].speaker]
  BY <1>6, <1>7, Zenon
<1>9. /\ first \in [DOMAIN segs -> Breaks(found, other)]
      /\ \A i \in Breaks(found, other) : \E k \in DOMAIN first : first[k] = i
  BY <1>4, <1>6
<1> QED
  BY <1>6, <1>8, <1>9, Zenon DEF RunsExplain

(* The last one is among the ends of a run, and holds the run if its ends    *)
(* are in order.                                                            *)
LEMMA RunsAreEnough ==
    ASSUME NEW found \in Seq(Segment), NEW segs \in Seq(Segment), NEW label,
           RunsExplain(label, found, segs)
    PROVE  Explains(label, found, segs)
<1>1. PICK first \in [DOMAIN segs -> Breaks(found, label)] :
        /\ \A i \in Breaks(found, label) : \E k \in DOMAIN first : first[k] = i
        /\ \A k \in 2 .. Len(segs) : first[k - 1] < first[k]
        /\ \A k \in DOMAIN segs :
               LET last == IF k = Len(segs) THEN Len(found) ELSE first[k + 1] - 1
               IN  /\ segs[k].start = found[first[k]].start
                   /\ segs[k].end = found[last].end
                   /\ segs[k].speaker = label[found[first[k]].speaker]
  BY Zenon DEF RunsExplain
<1>2. DOMAIN found = 1 .. Len(found) /\ Len(found) \in Nat
  BY LenProperties
<1>3. DOMAIN segs = 1 .. Len(segs) /\ Len(segs) \in Nat
  BY LenProperties
<1>4. Breaks(found, label) \subseteq 1 .. Len(found)
  BY <1>2 DEF Breaks
<1>5. \A k \in DOMAIN segs : first[k] \in 1 .. Len(found)
  BY <1>1, <1>4
<1>6. \A i \in 1 .. Len(found) : found[i].end \in Nat
  BY ElementOfSeq, Fields
<1>7. ASSUME NEW k \in DOMAIN segs
      PROVE  LET run == first[k] .. IF k = Len(segs) THEN Len(found) ELSE first[k + 1] - 1
             IN  /\ segs[k].start = found[first[k]].start
                 /\ segs[k].speaker = label[found[first[k]].speaker]
                 /\ \E i \in run : segs[k].end = found[i].end
                 /\ (\A i, j \in run : i < j => found[i].end <= found[j].end) =>
                        \A i \in run : found[i].end <= segs[k].end
  <2> DEFINE last == IF k = Len(segs) THEN Len(found) ELSE first[k + 1] - 1
             run == first[k] .. last
  <2>1. /\ segs[k].start = found[first[k]].start
        /\ segs[k].end = found[last].end
        /\ segs[k].speaker = label[found[first[k]].speaker]
    BY <1>1
  <2>2. last \in 1 .. Len(found) /\ first[k] <= last
    <3>1. CASE k = Len(segs)
      BY <1>2, <1>5, <3>1
    <3>2. CASE k # Len(segs)
      <4>1. k + 1 \in 2 .. Len(segs) /\ k + 1 \in DOMAIN segs /\ (k + 1) - 1 = k
        BY <1>3, <3>2
      <4>2. first[k] < first[k + 1]
        BY <1>1, <4>1
      <4> QED
        BY <1>2, <1>5, <3>2, <4>1, <4>2
    <3> QED
      BY <3>1, <3>2
  <2>3. first[k] \in 1 .. Len(found)
    BY <1>5
  <2> HIDE DEF last
  <2>4. last \in run /\ run \subseteq 1 .. Len(found) /\ \A i \in run : i < last \/ i = last
    BY <1>2, <2>2, <2>3
  <2>5. \E i \in run : segs[k].end = found[i].end
    BY <2>1, <2>4
  <2>6. ASSUME \A i, j \in run : i < j => found[i].end <= found[j].end, NEW i \in run
        PROVE  found[i].end <= segs[k].end
    <3>1. CASE i < last
      BY <2>1, <2>4, <2>6, <3>1
    <3>2. CASE i = last
      BY <1>6, <2>1, <2>4, <3>2
    <3> QED
      BY <2>4, <3>1, <3>2
  <2> QED
    BY <2>1, <2>5, <2>6 DEF last
<1> QED
  BY <1>1, <1>7, Zenon DEF Explains

(* Whatever Process answers, one pass explains it: with the speakers' own   *)
(* numbers, or with those that a ranking gave them.                         *)
LEMMA AnswerExplained ==
    ASSUME NEW found \in Seq(Segment), NEW max \in Int, NEW answer \in Process(found, max)
    PROVE  LET crowded == max > 0 /\ ~(Cardinality(Speakers(found)) <= max)
           IN  /\ ~crowded => Explains([s \in Speakers(found) |-> s], found, answer)
               /\ crowded => \E r \in Rankings(MergeAdjacent(found)) :
                                 Explains(Mapping(r, max), found, answer)
<1> DEFINE crowded == max > 0 /\ ~(Cardinality(Speakers(found)) <= max)
<1>1. PICK merged \in Seq(Segment) : merged = MergeAdjacent(found) /\ Speakers(merged) = Speakers(found)
  BY MergedAreSegments, SpeakersStay
<1>2. ASSUME ~crowded PROVE Explains([s \in Speakers(found) |-> s], found, answer)
  <2>1. answer = merged
    <3>1. CASE max > 0
      <4>1. Cardinality(Speakers(merged)) <= max
        BY <1>1, <1>2, <3>1
      <4>2. answer \in MergeSpeakers(merged, max)
        BY <1>1, <3>1, Zenon DEF Process
      <4> QED
        BY <4>1, <4>2, Zenon DEF MergeSpeakers
    <3>2. CASE ~(max > 0)
      BY <1>1, <3>2, Zenon DEF Process
    <3> QED
      BY <3>1, <3>2
  <2> DEFINE label == [s \in Nat |-> s]
  <2>2. label \in [Nat -> Nat] /\ \A s \in Nat : label[s] = s
    OBVIOUS
  <2>a. Relabel(found, label) = found
    BY OwnLabels
  <2> HIDE DEF label
  <2>3. RunsExplain(label, found, answer)
    <3>1. RunsExplain(label, found, MergeAdjacent(Relabel(found, label)))
      BY <2>2, OnePass
    <3> QED
      BY <1>1, <2>1, <2>a, <3>1
  <2>4. Speakers(found) \subseteq Nat
    <3>1. \A i \in DOMAIN found : found[i] \in Segment
      BY LenProperties, ElementOfSeq
    <3> QED
      BY <3>1, Fields DEF Speakers
  <2>5. \A s \in Speakers(found) : label[s] = [t \in Speakers(found) |-> t][s]
    BY <2>2, <2>4
  <2>6. RunsExplain([s \in Speakers(found) |-> s], found, answer)
    BY <2>3, <2>5, SameLabels
  <2> QED
    BY <1>1, <2>1, <2>6, RunsAreEnough
<1>3. ASSUME crowded PROVE \E r \in Rankings(MergeAdjacent(found)) : Explains(Mapping(r, max), found, answer)
  <2>1. PICK r \in Rankings(merged) : answer = MergeAdjacent(Relabel(merged, Mapping(r, max)))
    BY <1>1, <1>3 DEF Process, MergeSpeakers
  <2>2. PICK label \in [Speakers(merged) -> Nat] : label = Mapping(r, max)
    <3>1. max \in Nat \ {0}
      BY <1>3
    <3>2. Mapping(r, max) \in [Speakers(merged) -> 0 .. max - 1]
      BY <3>1, MappingFacts
    <3>3. 0 .. max - 1 \subseteq Nat
      OBVIOUS
    <3> QED
      BY <3>2, <3>3
  <2>3. PICK total \in [Nat -> Nat] : /\ \A s \in Speakers(merged) : total[s] = label[s]
                                     /\ Relabel(merged, total) = Relabel(merged, label)
    BY TotalLabel
  <2>4. answer = MergeAdjacent(Relabel(found, total))
    <3>1. MergeAdjacent(Relabel(MergeAdjacent(found), total)) = MergeAdjacent(Relabel(found, total))
      BY MergeOnce
    <3> QED
      BY <1>1, <2>1, <2>2, <2>3, <3>1
  <2>5. RunsExplain(total, found, answer)
    BY <2>4, OnePass
  <2>6. RunsExplain(label, found, answer)
    <3>1. \A s \in Speakers(found) : total[s] = label[s]
      BY <1>1, <2>3
    <3> QED
      BY <2>5, <3>1, SameLabels
  <2>7. answer \in Seq(Segment)
    <3>1. Relabel(found, total) \in Seq(Segment)
      BY RelabelFacts
    <3> QED
      BY <2>4, <3>1, MergedAreSegments
  <2>8. Explains(label, found, answer)
    BY <2>6, <2>7, RunsAreEnough
  <2> QED
    BY <1>1, <2>1, <2>2, <2>8
<1> QED
  BY <1>2, <1>3
=============================================================================
