----------------------------- MODULE Diarization -----------------------------
(***************************************************************************)
(* The sequential algorithms of src/internal/asr/diarization.go on the     *)
(* segments the native diarizer found: merging neighbours of one speaker,  *)
(* reducing the number of speakers, and cutting the samples of a segment   *)
(* out of the recording.                                                   *)
(*                                                                         *)
(* A segment is [start, end, speaker].  Times are counted in ticks, as     *)
(* fine as the examples need; Gap ticks are the half second within which   *)
(* neighbours are merged.  Texts are left out.                             *)
(***************************************************************************)
EXTENDS Integers, Sequences, FiniteSets, SequencesExt, FiniteSetsExt

CONSTANTS TicksPerSecond,
          Gap             \* 0.5 s

ASSUME TickAssumption == {TicksPerSecond, Gap} \subseteq Nat \ {0}

Segment == [start : Nat, end : Nat, speaker : Nat]

(* The native result is sorted by its starts; no segment ends before it     *)
(* starts, but it may end, or even start, after the recording.              *)
InOrder(segs) ==
    /\ \A i \in DOMAIN segs : segs[i].start <= segs[i].end
    /\ \A i \in 2 .. Len(segs) : segs[i - 1].start <= segs[i].start

Speakers(segs) == {segs[i].speaker : i \in DOMAIN segs}

-----------------------------------------------------------------------------
(* Mutant: a gap of exactly half a second is closed as well. *)
MutMergeable(current, next) ==
    current.speaker = next.speaker /\ next.start - current.end <= Gap

Mergeable(current, next) ==
    current.speaker = next.speaker /\ next.start - current.end < Gap

(* One turn of the loop of mergeAdjacentSegments; the last element of what  *)
(* was merged is the loop's current.  The merged segment takes the end of   *)
(* the later one, also a smaller end.                                       *)
MergeNext(merged, next) ==
    IF merged # <<>> /\ Mergeable(Last(merged), next)
      THEN [merged EXCEPT ![Len(merged)].end = next.end]
      ELSE Append(merged, next)

(* mergeAdjacentSegments: merged[i] is what the first i segments become. *)
MergeAdjacent(segs) ==
    LET merged[i \in 0 .. Len(segs)] ==
            IF i = 0 THEN <<>> ELSE MergeNext(merged[i - 1], segs[i])
    IN  merged[Len(segs)]

-----------------------------------------------------------------------------
(* totalDuration of each speaker. *)
Durations(segs) ==
    [s \in Speakers(segs) |->
        FoldLeft(LAMBDA sum, seg : IF seg.speaker = s THEN sum + seg.end - seg.start ELSE sum,
                 0, segs)]

(* Mutant: the list is not sorted. *)
MutRankings(segs) == SetToSeqs(Speakers(segs))

(* What statsList can be after the sort: the longest come first, and equals *)
(* in any order, because the list is filled in the order of a map.          *)
Rankings(segs) ==
    LET total == Durations(segs)
    IN  {r \in SetToSeqs(Speakers(segs)) :
            \A i, j \in DOMAIN r : i < j => total[r[i]] >= total[r[j]]}

(* speakerMapping: the first max speakers get the numbers from 0, the rest  *)
(* are given to them in turn.                                               *)
Mapping(ranking, max) ==
    [s \in ToSet(ranking) |->
        ((CHOOSE k \in DOMAIN ranking : ranking[k] = s) - 1) % max]

Relabel(segs, label) ==
    [i \in DOMAIN segs |-> [segs[i] EXCEPT !.speaker = label[@]]]

(* mergeSpeakersIfNeeded: the possible answers. *)
MergeSpeakers(segs, max) ==
    IF Cardinality(Speakers(segs)) <= max
      THEN {segs}
      ELSE {MergeAdjacent(Relabel(segs, Mapping(r, max))) : r \in Rankings(segs)}

(* The possible answers of Process for what the native diarizer found. *)
Process(raw, max) ==
    LET merged == MergeAdjacent(raw)
    IN  IF max > 0 THEN MergeSpeakers(merged, max) ELSE {merged}

-----------------------------------------------------------------------------
(* Mutant: the end is not cut to the recording. *)
MutSlice(seg, n, rate) ==
    [from |-> (seg.start * rate) \div TicksPerSecond, to |-> (seg.end * rate) \div TicksPerSecond]

(* The samples of a segment in a recording of n samples.  The start is not  *)
(* cut to the end of the recording.                                         *)
Slice(seg, n, rate) ==
    [from |-> Max({0, (seg.start * rate) \div TicksPerSecond}),
     to   |-> Min({n, (seg.end * rate) \div TicksPerSecond})]

-----------------------------------------------------------------------------
(* One pass over the segments found explains the answer segs when the found *)
(* speakers have these labels: a run of one label without a gap of half a   *)
(* second between neighbours is one segment.  It begins with the run and    *)
(* ends with one of the run's segments; it holds all of them if the run's   *)
(* ends are in order.  A run begins at each break.                          *)
Breaks(found, label) ==
    {i \in DOMAIN found :
        \/ i = 1
        \/ label[found[i - 1].speaker] # label[found[i].speaker]
        \/ found[i].start - found[i - 1].end >= Gap}

Explains(label, found, segs) ==
    \E first \in [DOMAIN segs -> Breaks(found, label)] :
        /\ \A i \in Breaks(found, label) : \E k \in DOMAIN first : first[k] = i
        /\ \A k \in 2 .. Len(segs) : first[k - 1] < first[k]
        /\ \A k \in DOMAIN segs :
               LET run == first[k] .. IF k = Len(segs) THEN Len(found) ELSE first[k + 1] - 1
               IN  /\ segs[k].start = found[first[k]].start
                   /\ segs[k].speaker = label[found[first[k]].speaker]
                   /\ \E i \in run : segs[k].end = found[i].end
                   /\ (\A i, j \in run : i < j => found[i].end <= found[j].end) =>
                          \A i \in run : found[i].end <= segs[k].end
=============================================================================
