--------------------------- MODULE AudioConversion ---------------------------
(***************************************************************************)
(* The audio converter (src/internal/audio/converter.go): a sequential     *)
(* decoder, stated as operators on the lengths, offsets and rates that     *)
(* decide what it reads and how long its answer is.                        *)
(*                                                                         *)
(* A file is what its writer put down: its magic bytes, the chunks after   *)
(* the 12 bytes of a RIFF header, whether an odd chunk is followed by a    *)
(* padding byte, how many bytes its end is short of what the chunks say,   *)
(* the fields of the fmt chunk, and what FFmpeg would make of it.          *)
(*                                                                         *)
(* The reader steps over a chunk by its size and never over a padding      *)
(* byte.  Once it is off by that byte it takes bytes from the middle for   *)
(* names and sizes, skips by a size it made of a letter and three bytes,   *)
(* and comes to the end of the file without the chunk it looks for: it is  *)
(* lost.  Sample values are left out; a division of floats is taken as     *)
(* exact.                                                                  *)
(***************************************************************************)
EXTENDS Integers, Sequences, SequencesExt

CONSTANT TargetRate  \* targetSampleRate, 16000

ASSUME TargetRateAssumption == TargetRate \in Nat \ {0}

(* What a conversion ends with; a panic is a division by zero or a slice of *)
(* an impossible length.                                                    *)
Samples(n) == [kind |-> "samples", n |-> n]
Refused == [kind |-> "error", n |-> 0]
Panic   == [kind |-> "panic", n |-> 0]

(* The containers that are recognised by their magic bytes and given to     *)
(* FFmpeg, in files of at least 12 bytes.  No bytes are recognised as WMA,  *)
(* and AAC only as an mpeg sync.                                            *)
Container == {"ID3", "mpeg sync", "ftyp", "fLaC", "OggS", "#!AMR"}

Padding(f, i) == IF f.padded THEN f.chunks[i].size % 2 ELSE 0

(* Where chunk k begins, if the file is that long. *)
Offset(f, k) ==
    FoldLeftDomain(LAMBDA sum, i : sum + 8 + f.chunks[i].size + Padding(f, i),
                   12, SubSeq(f.chunks, 1, k - 1))

FileLength(f) == Offset(f, Len(f.chunks) + 1) - f.missing

DetectFormat(f) ==
    CASE f.magic = "RIFF" /\ FileLength(f) >= 12 -> "wav"
      [] f.magic \in Container -> "other"
      [] OTHER -> "unknown"

(* The reader is at the next chunk after it went over chunk i.  It takes 16 *)
(* bytes from a fmt chunk however short that is.                            *)
Follows(f, i) == /\ Padding(f, i) = 0
                 /\ f.chunks[i].id = "fmt " => f.chunks[i].size >= 16

(* The chunk with this name that a reader at chunk i comes to: one or none. *)
Find(f, i, id) ==
    {k \in i .. Len(f.chunks) :
        /\ f.chunks[k].id = id /\ Offset(f, k) + 8 <= FileLength(f)
        /\ \A j \in i .. k - 1 : f.chunks[j].id # id /\ Follows(f, j)}

-----------------------------------------------------------------------------
Bytes(bits) == bits \div 8

(* Mutant: the size of a sample is forgotten. *)
MutDecodePCM(size, bits, channels) ==
    IF bits \notin {8, 16, 32} THEN Refused
    ELSE IF channels = 0 THEN Panic
    ELSE Samples(size \div channels)

(* decodePCM: how many samples of the first channel there are. *)
DecodePCM(size, bits, channels) ==
    IF bits \notin {8, 16, 32} THEN Refused
    ELSE IF channels = 0 THEN Panic
    ELSE Samples((size \div Bytes(bits)) \div channels)

(* ... and the byte sample i starts at.  With 32 bits the other channels    *)
(* are skipped by a product of 16-bit numbers.                              *)
SampleByte(i, bits, channels) ==
    CASE bits = 8  -> i * channels
      [] bits = 16 -> i * channels * 2
      [] bits = 32 -> i * (4 + (((channels - 1) * 4) % 65536))

(* Mutant: the ratio is turned around. *)
MutResampledLength(n, rate) == (n * rate) \div TargetRate

(* resample: the length of the new signal ... *)
ResampledLength(n, rate) == (n * TargetRate) \div rate

(* ... and the samples of the old one that new sample i is made of. *)
Sources(i, n, rate) ==
    LET s == (i * rate) \div TargetRate
    IN  IF s >= n - 1 THEN {n - 1} ELSE {s, s + 1}

Resample(n, rate) ==
    CASE rate = TargetRate -> Samples(n)
      [] rate = 0 -> Panic
      [] OTHER -> Samples(ResampledLength(n, rate))

(* The data chunk that convertWAV decodes: one or none.  Its size is what   *)
(* the chunk says; what the file does not have of it is read as zero.       *)
DataChunk(f) ==
    UNION {IF Follows(f, k) THEN Find(f, k + 1, "data") ELSE {} : k \in Find(f, 1, "fmt ")}

ConvertWAV(f) ==
    IF FileLength(f) < 44 \/ DataChunk(f) = {}
      THEN Refused
      ELSE LET k   == CHOOSE d \in DataChunk(f) : TRUE
               pcm == DecodePCM(f.chunks[k].size, f.bits, f.channels)
           IN  IF pcm.kind = "samples" THEN Resample(pcm.n, f.rate) ELSE pcm

(* FFmpeg writes 16-bit samples of one channel at the target rate, or it is *)
(* not there, or it fails.                                                  *)
ConvertWithFFmpeg(f) ==
    IF f.ffmpeg.runs THEN DecodePCM(f.ffmpeg.bytes, 16, 1) ELSE Refused

ConvertToSamples(f) ==
    CASE DetectFormat(f) = "wav"   -> ConvertWAV(f)
      [] DetectFormat(f) = "other" -> ConvertWithFFmpeg(f)
      [] OTHER -> Refused
=============================================================================
