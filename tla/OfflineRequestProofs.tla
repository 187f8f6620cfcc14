------------------------ MODULE OfflineRequestProofs ------------------------
(***************************************************************************)
(* Theorems about OfflineRequest, for every request, configuration, rate   *)
(* and length, and whatever the native diarizer finds: the conversion      *)
(* reads inside of the file and keeps the duration, every sample reaches   *)
(* the recogniser once, no slice leaves the recording, and the segments of *)
(* a diarized one are explained by what was found.  RequestInv is the      *)
(* inductive invariant.                                                    *)
(***************************************************************************)
EXTENDS OfflineRequest, DiarizationProofs

-----------------------------------------------------------------------------
(* Arithmetic.                                                              *)

(* What the quotient of two integers is. *)
LEMMA Quotient ==
    ASSUME NEW a \in Int, NEW b \in Nat \ {0}
    PROVE  /\ a \div b \in Int
           /\ b * (a \div b) <= a
           /\ a < b * (a \div b) + b
           /\ a >= 0 => a \div b \in Nat
  OBVIOUS

(* A product grows with its factors. *)
LEMMA ProductGrows ==
    ASSUME NEW a \in Int, NEW b \in Int, a <= b, NEW c \in Nat
    PROVE  c * a \in Int /\ c * b \in Int /\ c * a <= c * b
  OBVIOUS

(* A product with a sum. *)
LEMMA ProductOfSum ==
    ASSUME NEW a \in Int, NEW b \in Int, NEW c \in Int
    PROVE  c * (a + b) = c * a + c * b /\ c * (a - b) = c * a - c * b
  OBVIOUS

(* A product in another order. *)
LEMMA ProductsAgree ==
    ASSUME NEW a \in Int, NEW b \in Int, NEW c \in Int
    PROVE  a * b = b * a /\ a * (b * c) = (a * b) * c /\ a * b \in Int /\ (a * b) * c \in Int
  OBVIOUS

(* Whole frames of c samples of b bytes in so many bytes. *)
LEMMA WholeFrames ==
    ASSUME NEW size \in Nat, NEW b \in Nat \ {0}, NEW c \in Nat \ {0}
    PROVE  LET m == (size \div b) \div c
           IN  /\ m \in Nat
               /\ (c * b) * m <= size
               /\ size < (c * b) * m + (c * b)
<1>1. PICK q \in Nat : q = size \div b /\ b * q <= size /\ size < b * q + b
  BY Quotient
<1>2. PICK m \in Nat : m = q \div c /\ c * m <= q /\ q < c * m + c
  <2>1. q \in Int /\ q >= 0
    OBVIOUS
  <2> QED
    BY <2>1, Quotient
<1>3. PICK p \in Int : p = c * m
  OBVIOUS
<1>4. p <= q /\ q <= p + (c - 1) /\ c - 1 \in Int
  BY <1>2, <1>3
<1>5. b * p <= b * q /\ b * q <= b * (p + (c - 1))
  BY <1>3, <1>4, ProductGrows
<1>6. b * (p + (c - 1)) = b * p + b * (c - 1) /\ b * (c - 1) = b * c - b * 1
  BY <1>3, <1>4, ProductOfSum
<1>7. b * p = (c * b) * m /\ b * c = c * b
  BY <1>3
<1>8. (c * b) * m <= size /\ size < (c * b) * m + (c * b)
  BY <1>1, <1>5, <1>6, <1>7
<1> QED
  BY <1>1, <1>2, <1>8

(* A frame before the last whole one ends inside of them, if it is no       *)
(* longer than a frame and a sample is no longer either.                    *)
LEMMA FrameInside ==
    ASSUME NEW size \in Nat, NEW frame \in Nat, NEW m \in Nat, frame * m <= size,
           NEW i \in 0 .. m - 1, NEW step \in Int, step <= frame, NEW b \in Int, b <= frame
    PROVE  i * step + b <= size
<1>1. i \in Nat /\ i + 1 \in Int /\ i + 1 <= m
  OBVIOUS
<1>2. i * step <= i * frame
  BY <1>1, ProductGrows
<1>3. frame * (i + 1) <= frame * m
  BY <1>1, ProductGrows
<1>4. frame * (i + 1) = i * frame + frame
  BY <1>1
<1>5. i * step \in Int /\ i * frame \in Int /\ frame * m \in Int
  BY <1>1
<1> QED
  BY <1>2, <1>3, <1>4, <1>5

(* The duration of m samples at rate r is that of len at rate t. *)
LEMMA DurationKept ==
    ASSUME NEW d \in Nat, NEW frame \in Nat \ {0}, NEW r \in Nat \ {0}, NEW t \in Nat \ {0},
           NEW m \in Nat, frame * m <= d, d < frame * m + frame,
           NEW len \in Nat, len = IF r = t THEN m ELSE (m * t) \div r
    PROVE  d * t - (len * frame) * r \in 0 .. frame * (r + t) - 1
<1>1. PICK p \in Int : p = frame * m
  OBVIOUS
<1>2. t * p <= t * d /\ t * d <= t * (p + (frame - 1))
  BY <1>1, ProductGrows
<1>3. t * (p + (frame - 1)) = t * p + (t * frame - t)
  BY <1>1
<1>4. r * len <= m * t /\ m * t <= r * len + (r - 1)
  <2>1. CASE r = t
    BY <2>1
  <2>2. CASE r # t
    <3>1. m * t \in Int
      OBVIOUS
    <3>2. r * len <= m * t /\ m * t < r * len + r
      BY <2>2, <3>1, Quotient
    <3> QED
      BY <3>1, <3>2
  <2> QED
    BY <2>1, <2>2
<1>5. PICK x \in Int : x = r * len
  OBVIOUS
<1>6. PICK y \in Int : y = m * t
  OBVIOUS
<1>7. frame * x <= frame * y /\ frame * y <= frame * (x + (r - 1))
  BY <1>4, <1>5, <1>6, ProductGrows
<1>8. frame * (x + (r - 1)) = frame * x + (frame * r - frame)
  BY <1>5
<1>9. frame * x = (len * frame) * r /\ frame * y = t * p /\ d * t = t * d
  BY <1>1, <1>5, <1>6
<1>10. frame * (r + t) = frame * r + t * frame
  OBVIOUS
<1>11. PICK A \in Int, B \in Int, C \in Int, D \in Int, E \in Int :
          A = frame * x /\ B = t * p /\ C = t * d /\ D = frame * r /\ E = t * frame
  BY <1>1, <1>5
<1>12. /\ B <= C /\ C <= B + (E - t) /\ A <= B /\ B <= A + (D - frame)
  BY <1>2, <1>3, <1>7, <1>8, <1>9, <1>11
<1>13. C - A \in 0 .. (D + E) - 1
  BY <1>11, <1>12
<1> QED
  BY <1>9, <1>10, <1>11, <1>13

(* The least of two numbers. *)
LEMMA MinOfTwo ==
    ASSUME NEW a \in Int, NEW b \in Int
    PROVE  Min({a, b}) = IF a <= b THEN a ELSE b
<1>1. CASE a <= b
  <2>1. a \in {a, b} /\ (\A y \in {a, b} : a <= y)
    BY <1>1
  <2>2. \A x \in {a, b} : (\A y \in {a, b} : x <= y) => x = a
    BY <1>1
  <2>3. Min({a, b}) = a
    BY <2>1, <2>2, Zenon DEF Min
  <2> QED
    BY <1>1, <2>3
<1>2. CASE ~(a <= b)
  <2>1. b \in {a, b} /\ (\A y \in {a, b} : b <= y)
    BY <1>2
  <2>2. \A x \in {a, b} : (\A y \in {a, b} : x <= y) => x = b
    BY <1>2
  <2>3. Min({a, b}) = b
    BY <2>1, <2>2, Zenon DEF Min
  <2> QED
    BY <1>2, <2>3
<1> QED
  BY <1>1, <1>2

(* The greatest of two numbers. *)
LEMMA MaxOfTwo ==
    ASSUME NEW a \in Int, NEW b \in Int
    PROVE  Max({a, b}) = IF a >= b THEN a ELSE b
<1>1. CASE a >= b
  <2>1. a \in {a, b} /\ (\A y \in {a, b} : a >= y)
    BY <1>1
  <2>2. \A x \in {a, b} : (\A y \in {a, b} : x >= y) => x = a
    BY <1>1
  <2>3. Max({a, b}) = a
    BY <2>1, <2>2, Zenon DEF Max
  <2> QED
    BY <1>1, <2>3
<1>2. CASE ~(a >= b)
  <2>1. b \in {a, b} /\ (\A y \in {a, b} : b >= y)
    BY <1>2
  <2>2. \A x \in {a, b} : (\A y \in {a, b} : x >= y) => x = b
    BY <1>2
  <2>3. Max({a, b}) = b
    BY <2>1, <2>2, Zenon DEF Max
  <2> QED
    BY <1>2, <2>3
<1> QED
  BY <1>1, <1>2

(* Linear interpolation: new sample i < len lies between old samples.  *)
LEMMA BetweenSamples ==
    ASSUME NEW m \in Nat, NEW r \in Nat \ {0}, NEW t \in Nat \ {0},
           NEW i \in 0 .. ((m * t) \div r) - 1
    PROVE  /\ (i * r) \div t \in Nat
           /\ m \in Nat \ {0}
<1>1. m * t \in Int /\ m * t >= 0
  OBVIOUS
<1>2. PICK len \in Nat : len = (m * t) \div r /\ r * len <= m * t
  BY <1>1, Quotient
<1>3. i \in Nat /\ len # 0
  BY <1>2
<1>4. i * r \in Int /\ i * r >= 0
  BY <1>3
<1>5. (i * r) \div t \in Nat
  BY <1>4, Quotient
<1>6. r * len > 0
  BY <1>2, <1>3
<1>7. m # 0
  BY <1>2, <1>6
<1> QED
  BY <1>5, <1>7

(* Cutting len into pieces of a size. *)
LEMMA Pieces ==
    ASSUME NEW len \in Nat \ {0}, NEW size \in Nat \ {0}
    PROVE  LET k == (len + size - 1) \div size
           IN  /\ k \in Nat \ {0}
               /\ len <= size * k
               /\ size * (k - 1) < len
<1>1. len + size - 1 \in Int /\ len + size - 1 >= 0
  OBVIOUS
<1>2. PICK k \in Nat : /\ k = (len + size - 1) \div size
                      /\ size * k <= len + size - 1 /\ len + size - 1 < size * k + size
  BY <1>1, Quotient
<1>3. size * (k - 1) = size * k - size /\ size * k \in Int
  OBVIOUS
<1>4. len <= size * k /\ size * (k - 1) < len
  BY <1>2, <1>3
<1>5. k # 0
  BY <1>4
<1> QED
  BY <1>2, <1>4, <1>5

-----------------------------------------------------------------------------
(* The conversion.                                                          *)

(* The three ways decodePCM ends.                                           *)
LEMMA PCMCases ==
    ASSUME NEW size, NEW bits, NEW channels
    PROVE  /\ bits \notin {8, 16, 32} => DecodePCM(size, bits, channels) = Refused
           /\ bits \in {8, 16, 32} /\ channels = 0 => DecodePCM(size, bits, channels) = Panic
           /\ bits \in {8, 16, 32} /\ channels # 0 =>
                  DecodePCM(size, bits, channels) = Samples((size \div Bytes(bits)) \div channels)
<1>1. CASE bits \notin {8, 16, 32}
  BY <1>1, Zenon DEF DecodePCM
<1>2. CASE bits \in {8, 16, 32} /\ channels = 0
  BY <1>2, Zenon DEF DecodePCM
<1>3. CASE bits \in {8, 16, 32} /\ channels # 0
  BY <1>3, Zenon DEF DecodePCM
<1> QED
  BY <1>1, <1>2, <1>3, Zenon

(* The three ways resample ends.                                            *)
LEMMA ResampleCases ==
    ASSUME NEW m, NEW hz
    PROVE  /\ hz = TargetRate => Resample(m, hz) = Samples(m)
           /\ hz # TargetRate /\ hz = 0 => Resample(m, hz) = Panic
           /\ hz # TargetRate /\ hz # 0 => Resample(m, hz) = Samples(ResampledLength(m, hz))
<1>1. CASE hz = TargetRate
  <2>1. hz # 0
    BY <1>1, TargetRateAssumption
  <2> QED
    BY <1>1, <2>1, Zenon DEF Resample
<1>2. CASE hz # TargetRate /\ hz = 0
  BY <1>2, Zenon DEF Resample
<1>3. CASE hz # TargetRate /\ hz # 0
  BY <1>3, Zenon DEF Resample
<1> QED
  BY <1>1, <1>2, <1>3, Zenon

(* The kinds of what a conversion ends with are different.                  *)
LEMMA Kinds ==
    /\ \A m : Samples(m).kind = "samples" /\ Samples(m).n = m
    /\ Refused.kind # "samples" /\ Panic.kind # "samples"
  BY DEF Samples, Refused, Panic

(* What comes after a place in a list is a place in it.                     *)
LEMMA LaterIsInside ==
    ASSUME NEW last \in Nat, NEW j \in 1 .. last, NEW k \in (j + 1) .. last
    PROVE  k \in 1 .. last
  OBVIOUS

(* What convertWAV finds as data chunk is a chunk of the file.              *)
LEMMA DataChunkIsThere ==
    ASSUME NEW f, f.chunks \in Seq([id : STRING, size : Nat]), NEW k \in DataChunk(f)
    PROVE  f.chunks[k].size \in Nat
<1> DEFINE last == Len(f.chunks)
<1>1. last \in Nat
  BY LenProperties
<1>2. PICK j \in Find(f, 1, "fmt ") : k \in Find(f, j + 1, "data")
  BY DEF DataChunk
<1>3. j \in 1 .. last /\ k \in (j + 1) .. last
  BY <1>2 DEF Find
<1> HIDE DEF last
<1>4. k \in 1 .. last
  BY <1>1, <1>3, LaterIsInside, Zenon
<1>5. f.chunks[k] \in [id : STRING, size : Nat]
  BY <1>4, ElementOfSeq DEF last
<1> QED
  BY <1>5

(* A WAV file that became samples has a data chunk, one of the three widths,*)
(* a channel and a rate; and this many samples.                             *)
LEMMA ConvertedWAV ==
    ASSUME NEW r \in Request, DetectFormat(r.file) = "wav",
           ConvertToSamples(r.file).kind = "samples"
    PROVE  LET f    == r.file
               size == f.chunks[CHOOSE k \in DataChunk(f) : TRUE].size
               m    == (size \div Bytes(f.bits)) \div f.channels
           IN  /\ size \in Nat /\ f.bits \in {8, 16, 32}
               /\ f.channels \in Nat \ {0} /\ f.rate \in Nat \ {0}
               /\ DecodePCM(size, f.bits, f.channels) = Samples(m)
               /\ ConvertToSamples(f).n =
                      IF f.rate = TargetRate THEN m ELSE (m * TargetRate) \div f.rate
<1> DEFINE f    == r.file
           k    == CHOOSE d \in DataChunk(f) : TRUE
           size == f.chunks[k].size
           m    == (size \div Bytes(f.bits)) \div f.channels
           pcm  == DecodePCM(size, f.bits, f.channels)
<1>1. /\ f.chunks \in Seq([id : STRING, size : Nat])
      /\ f.bits \in Nat /\ f.channels \in Nat /\ f.rate \in Nat
  BY RequestAssumption
<1>2. ConvertToSamples(f) = ConvertWAV(f)
  BY Zenon DEF ConvertToSamples
<1>3. DataChunk(f) # {} /\ ConvertWAV(f) = IF pcm.kind = "samples" THEN Resample(pcm.n, f.rate) ELSE pcm
  <2>1. ConvertWAV(f) # Refused
    BY <1>2, Kinds
  <2> QED
    BY <2>1, Zenon DEF ConvertWAV
<1>4. pcm.kind = "samples" /\ ConvertToSamples(f) = Resample(pcm.n, f.rate)
  BY <1>2, <1>3
<1>5. f.bits \in {8, 16, 32} /\ f.channels # 0 /\ pcm = Samples(m)
  <2> HIDE DEF f, size
  <2> QED
    BY <1>4, PCMCases, Kinds
<1>6. pcm.n = m
  BY <1>5, Kinds
<1>7. /\ f.rate # 0
      /\ ConvertToSamples(f).n = IF f.rate = TargetRate THEN m ELSE (m * TargetRate) \div f.rate
  <2>1. Resample(m, f.rate).kind = "samples" /\ ConvertToSamples(f) = Resample(m, f.rate)
    BY <1>4, <1>6
  <2> HIDE DEF f, m
  <2>2. f.rate = TargetRate \/ f.rate # 0
    BY <2>1, ResampleCases, Kinds
  <2>3. f.rate # 0
    BY <2>2, TargetRateAssumption
  <2>4. f.rate = TargetRate => Resample(m, f.rate).n = m
    BY ResampleCases, Kinds
  <2>5. f.rate # TargetRate => Resample(m, f.rate).n = (m * TargetRate) \div f.rate
    BY <2>3, ResampleCases, Kinds, Zenon DEF ResampledLength
  <2> QED
    BY <2>1, <2>3, <2>4, <2>5
<1>8. size \in Nat
  <2>1. k \in DataChunk(f)
    BY <1>3
  <2> HIDE DEF k, f
  <2> QED
    BY <1>1, <2>1, DataChunkIsThere
<1> QED
  BY <1>1, <1>5, <1>7, <1>8

(* The number of samples is a natural number.                               *)
LEMMA LengthIsNatural ==
    ASSUME NEW r \in Request, ConvertToSamples(r.file).kind = "samples"
    PROVE  ConvertToSamples(r.file).n \in Nat
<1> DEFINE f == r.file
<1>1. CASE DetectFormat(f) = "wav"
  <2> DEFINE size == f.chunks[CHOOSE k \in DataChunk(f) : TRUE].size
             m    == (size \div Bytes(f.bits)) \div f.channels
  <2>1. /\ size \in Nat /\ f.bits \in {8, 16, 32}
        /\ f.channels \in Nat \ {0} /\ f.rate \in Nat \ {0}
        /\ ConvertToSamples(f).n = IF f.rate = TargetRate THEN m ELSE (m * TargetRate) \div f.rate
    BY <1>1, ConvertedWAV
  <2> HIDE DEF f, size
  <2>2. Bytes(f.bits) \in Nat \ {0}
    BY <2>1 DEF Bytes
  <2>3. m \in Nat
    BY <2>1, <2>2, WholeFrames
  <2> HIDE DEF m
  <2>4. m * TargetRate \in Int /\ m * TargetRate >= 0
    BY <2>3, TargetRateAssumption
  <2>5. (m * TargetRate) \div f.rate \in Nat
    BY <2>1, <2>4, Quotient
  <2> QED
    BY <2>1, <2>3, <2>5 DEF f
<1>2. CASE DetectFormat(f) = "other"
  <2>1. ConvertToSamples(f) = ConvertWithFFmpeg(f)
    BY <1>2, Zenon DEF ConvertToSamples
  <2>2. ConvertToSamples(f) = DecodePCM(f.ffmpeg.bytes, 16, 1)
    BY <2>1, Kinds DEF ConvertWithFFmpeg
  <2>3. DecodePCM(f.ffmpeg.bytes, 16, 1) = Samples((f.ffmpeg.bytes \div Bytes(16)) \div 1)
    BY PCMCases
  <2>4. ConvertToSamples(f).n = (f.ffmpeg.bytes \div Bytes(16)) \div 1
    BY <2>2, <2>3, Kinds
  <2>5. f.ffmpeg.bytes \in Nat
    BY RequestAssumption
  <2> HIDE DEF f
  <2>6. Bytes(16) \in Nat \ {0} /\ 1 \in Nat \ {0}
    BY DEF Bytes
  <2>7. (f.ffmpeg.bytes \div Bytes(16)) \div 1 \in Nat
    BY <2>5, <2>6, WholeFrames
  <2> QED
    BY <2>4, <2>7 DEF f
<1>3. CASE DetectFormat(f) # "wav" /\ DetectFormat(f) # "other"
  <2>1. ConvertToSamples(f) = Refused
    BY <1>3, Zenon DEF ConvertToSamples
  <2> QED
    BY <2>1, Kinds
<1> QED
  BY <1>1, <1>2, <1>3

-----------------------------------------------------------------------------
(* The inductive invariant.                                                 *)

Audio == ConvertToSamples(request.file)

(* The control of the request and what its variables hold on the way.  A    *)
(* length is that of the converted file; only what has the diarizer's rate  *)
(* comes to its segments; an asynchronous request is answered before it is  *)
(* recognised.                                                              *)
Flow ==
    /\ request \in Request /\ config \in Config
    /\ rate \in Int /\ diarize \in BOOLEAN /\ n \in Nat
    /\ at \in {"receive", "convert", "dispatch", "process", "segments", "done", "crashed"}
    /\ runner \in {"handler", "worker"}
    /\ status \in {0, 200, 202, 400, 413, 500, 503}
    /\ result \in {"none", "ok", "error"}
    /\ at \in {"receive", "convert"} => n = 0
    /\ at \in {"dispatch", "process", "segments", "crashed"} \/ n # 0 =>
           Audio.kind = "samples" /\ Audio.n = n
    /\ at \in {"process", "segments"} /\ request.handler = "async" => status = 202
    /\ at \in {"segments", "crashed"} => diarize /\ rate = DiarRate
    /\ at = "crashed" => runner = "worker"
    /\ at = "done" => status # 0

StatsTypes == stats \in [total : Nat, success : Nat, failure : Nat]

(* The segments are in order and start where found ones do.                 *)
Speech ==
    /\ raw \in Seq(Segment) /\ segments \in Seq(Segment)
    /\ InOrder(segments)
    /\ Starts(segments) \subseteq Starts(raw)

(* What the recogniser was given lies in the recording; only segments make  *)
(* the process crash.                                                       *)
Slices ==
    /\ heard \in Seq([from : Nat, to : Nat])
    /\ at \in {"receive", "convert", "dispatch", "process"} => heard = <<>>
    /\ EverySampleOnce
    /\ SlicesStayInside

(* The segments answer what was found.                                      *)
Answered == raw # <<>> => segments \in Process(raw, config.maxSpeakers)

RequestInv == Flow /\ StatsTypes /\ Speech /\ Answered /\ Slices

(* What the assumption on Request says of one request.                      *)
LEMMA RequestFields ==
    ASSUME NEW r \in Request
    PROVE  /\ [handler |-> r.handler, manager |-> r.manager, queue |-> r.queue] \in Routes \cup Unrouted
           /\ r.handler \in {"async", "blocking", "diarization"}
           /\ r.manager \in BOOLEAN /\ r.queue \in BOOLEAN
           /\ r.rate \in Int /\ r.diarize \in BOOLEAN
<1>1. [handler |-> r.handler, manager |-> r.manager, queue |-> r.queue] \in Routes \cup Unrouted
  BY RequestAssumption
<1> DEFINE route == [handler |-> r.handler, manager |-> r.manager, queue |-> r.queue]
<1>2. route.handler = r.handler /\ route.manager = r.manager /\ route.queue = r.queue
  OBVIOUS
<1> HIDE DEF route
<1>3. ASSUME NEW x \in Routes \cup Unrouted
      PROVE  x.handler \in {"async", "blocking", "diarization"} /\ x.manager \in BOOLEAN /\ x.queue \in BOOLEAN
  <2>1. CASE x \in Routes
    <3>1. \/ x = [handler |-> "async",       manager |-> FALSE, queue |-> TRUE]
          \/ x = [handler |-> "async",       manager |-> TRUE,  queue |-> TRUE]
          \/ x = [handler |-> "diarization", manager |-> TRUE,  queue |-> TRUE]
      BY <2>1, Zenon DEF Routes
    <3>2. CASE x = [handler |-> "async",       manager |-> FALSE, queue |-> TRUE]
      BY <3>2
    <3>3. CASE x = [handler |-> "async",       manager |-> TRUE,  queue |-> TRUE]
      BY <3>3
    <3>4. CASE x = [handler |-> "diarization", manager |-> TRUE,  queue |-> TRUE]
      BY <3>4
    <3> QED
      BY <3>1, <3>2, <3>3, <3>4
  <2>2. CASE x \in [handler : {"blocking"}, manager : BOOLEAN, queue : BOOLEAN]
    BY <2>2
  <2>3. CASE x \in [handler : {"async"}, manager : {FALSE}, queue : {FALSE}]
    BY <2>3
  <2> QED
    BY <2>1, <2>2, <2>3 DEF Unrouted
<1>4. route \in Routes \cup Unrouted
  BY <1>1 DEF route
<1> QED
  BY <1>1, <1>2, <1>3, <1>4, RequestAssumption

(* The initial states satisfy the invariant.                                *)
LEMMA RequestStarts == Init => RequestInv
<1> SUFFICES ASSUME Init PROVE RequestInv
  OBVIOUS
<1>1. Flow
  <2>1. /\ request \in Request /\ config \in Config /\ rate = 0 /\ diarize = FALSE /\ n = 0
        /\ at = "receive" /\ runner = "handler" /\ status = 0 /\ result = "none"
    BY DEF Init
  <2>2. rate \in Int /\ n \in Nat /\ diarize \in BOOLEAN
    <3>1. rate = 0 /\ n = 0
      BY <2>1, Zenon
    <3>2. diarize \in BOOLEAN
      BY <2>1, Zenon
    <3> QED
      BY <3>1, <3>2
  <2>3. request \in Request /\ config \in Config /\ at = "receive" /\ runner = "handler"
        /\ status \in {0, 200, 202, 400, 413, 500, 503} /\ result = "none"
    BY <2>1
  <2>4. n = 0
    BY <2>1, Zenon
  <2>5. at \notin {"dispatch", "process", "segments", "crashed"} /\ at # "done"
    BY <2>3
  <2> QED
    BY <2>2, <2>3, <2>4, <2>5 DEF Flow
<1>2. StatsTypes
  BY DEF Init, StatsTypes
<1>3. Speech
  BY DEF Init, Speech, InOrder, Starts
<1>4. Slices
  BY DEF Init, Slices, EverySampleOnce, SlicesStayInside
<1>5. Answered
  BY DEF Init, Answered
<1> QED
  BY <1>1, <1>2, <1>3, <1>4, <1>5 DEF RequestInv

(* Every step keeps the control.                                            *)
LEMMA FlowStep == Flow /\ [Next]_vars => Flow'
<1> SUFFICES ASSUME Flow, [Next]_vars PROVE Flow'
  OBVIOUS
<1> USE DEF Respond, Refuse, inputs, job, speech, output
<1>1. CASE RefuseQueueless
  BY <1>1 DEF RefuseQueueless, Flow, Audio
<1>2. CASE RefuseTooLarge
  BY <1>2 DEF RefuseTooLarge, Flow, Audio
<1>3. CASE RefuseUnreadable
  BY <1>3 DEF RefuseUnreadable, Flow, Audio
<1>4. CASE Receive
  <2>1. request.rate \in Int /\ request.diarize \in BOOLEAN
    BY RequestFields DEF Flow
  <2>2. rate' \in Int /\ diarize' \in BOOLEAN
    BY <1>4, <2>1 DEF Receive
  <2> QED
    BY <1>4, <2>2 DEF Receive, Flow, Audio
<1>5. CASE RefuseAudio
  BY <1>5 DEF RefuseAudio, Flow, Audio
<1>6. CASE Convert
  <2>1. Audio.kind = "samples" /\ n' = Audio.n /\ n' \in Nat
    BY <1>6, LengthIsNatural DEF Convert, Flow, Audio
  <2>2. rate' \in Int
    BY <1>6, TargetRateAssumption DEF Convert, Flow
  <2> QED
    BY <1>6, <2>1, <2>2 DEF Convert, Flow, Audio
<1>7. CASE QueueFull
  BY <1>7 DEF QueueFull, Flow, Audio
<1>8. CASE SubmitAsync
  <2>1. request.manager \in BOOLEAN
    BY RequestFields DEF Flow
  <2> QED
    BY <1>8, <2>1 DEF SubmitAsync, ProcessIn, Flow, Audio
<1>9. CASE SubmitBlocking
  <2>1. request.manager \in BOOLEAN
    BY RequestFields DEF Flow
  <2> QED
    BY <1>9, <2>1 DEF SubmitBlocking, ProcessIn, Flow, Audio
<1>10. CASE ProcessDirectly
  <2>1. request.manager \in BOOLEAN
    BY RequestFields DEF Flow
  <2> QED
    BY <1>10, <2>1 DEF ProcessDirectly, ProcessIn, Flow, Audio
<1>11. CASE ProcessSegments
  BY <1>11 DEF ProcessSegments, ProcessIn, Flow, Audio
<1>12. CASE RateMismatch
  BY <1>12 DEF RateMismatch, Finish, Flow, Audio
<1>13. CASE Diarise
  BY <1>13 DEF Diarise, Finish, Flow, Audio
<1>14. CASE RecognizeSegment
  BY <1>14 DEF RecognizeSegment, Flow, Audio
<1>15. CASE ImpossibleSlice
  BY <1>15 DEF ImpossibleSlice, Panics, Flow, Audio
<1>16. CASE AllSegments
  BY <1>16 DEF AllSegments, Finish, Flow, Audio
<1>17. CASE RecognizeWhole
  <2>1. PICK works \in BOOLEAN : Finish(IF works THEN "ok" ELSE "error")
    BY <1>17 DEF RecognizeWhole
  <2> QED
    BY <1>17, <2>1 DEF RecognizeWhole, Finish, Flow, Audio
<1>18. CASE RecognizeChunked
  BY <1>18 DEF RecognizeChunked, Finish, Flow, Audio
<1>19. CASE Stop \/ UNCHANGED vars
  BY <1>19 DEF Stop, vars, Flow, Audio
<1> QED
  BY <1>1, <1>2, <1>3, <1>4, <1>5, <1>6, <1>7, <1>8, <1>9, <1>10, <1>11, <1>12, <1>13,
     <1>14, <1>15, <1>16, <1>17, <1>18, <1>19 DEF Next

(* Every step keeps the counters' types.                                    *)
LEMMA StatsStep == StatsTypes /\ [Next]_vars => StatsTypes'
<1> SUFFICES ASSUME StatsTypes, [Next]_vars PROVE StatsTypes'
  OBVIOUS
<1>1. ASSUME NEW works \in BOOLEAN, Count(works) PROVE StatsTypes'
  <2>1. stats.total \in Nat /\ stats.success \in Nat /\ stats.failure \in Nat
    BY DEF StatsTypes
  <2> DEFINE s == IF works THEN stats.success + 1 ELSE stats.success
             f == IF works THEN stats.failure ELSE stats.failure + 1
  <2>2. stats' = [stats EXCEPT !.total = stats.total + 1, !.success = s, !.failure = f]
    BY <1>1, Zenon DEF Count
  <2>3. s \in Nat /\ f \in Nat /\ stats.total + 1 \in Nat
    BY <2>1
  <2> HIDE DEF s, f
  <2>4. stats \in [total : Nat, success : Nat, failure : Nat]
    BY DEF StatsTypes
  <2>5. stats' = [total |-> stats.total + 1, success |-> s, failure |-> f]
    BY <2>2, <2>4
  <2> QED
    BY <2>3, <2>5 DEF StatsTypes
<1>2. CASE RecognizeSegment \/ RecognizeWhole
  BY <1>1, <1>2 DEF RecognizeSegment, RecognizeWhole
<1>3. CASE UNCHANGED stats
  BY <1>3 DEF StatsTypes
<1>4. Next /\ ~RecognizeSegment /\ ~RecognizeWhole => UNCHANGED stats
  BY DEF Next, RefuseQueueless, RefuseTooLarge, RefuseUnreadable, Receive, RefuseAudio, Convert,
         QueueFull, SubmitAsync, SubmitBlocking, ProcessDirectly, ProcessSegments, RateMismatch,
         Diarise, ImpossibleSlice, AllSegments, RecognizeChunked, Stop, Refuse, ProcessIn, vars
<1> QED
  BY <1>2, <1>3, <1>4 DEF vars

(* The limit of speakers is a number.                                       *)
LEMMA SpeakerLimit == Flow => config.maxSpeakers \in Int
<1> SUFFICES ASSUME Flow PROVE config.maxSpeakers \in Int
  OBVIOUS
<1>1. config \in [chunkSec : Int, maxSpeakers : Int, maxFileMB : Int]
  BY ConfigAssumption DEF Flow
<1> QED
  BY <1>1

(* Every step keeps what is known of the segments.                          *)
LEMMA SpeechStep == Flow /\ Speech /\ [Next]_vars => Speech'
<1> SUFFICES ASSUME Flow, Speech, [Next]_vars PROVE Speech'
  OBVIOUS
<1>1. CASE Diarise
  <2>1. request \in Request /\ Audio.kind = "samples" /\ Audio.n = n /\ raw' \in Found(n)
    BY <1>1 DEF Diarise, Flow
  <2>2. raw' \in Seq(Segment) /\ InOrder(raw')
    BY <2>1, FoundAssumption DEF Audio
  <2>3. config.maxSpeakers \in Int
    BY SpeakerLimit
  <2>4. segments' \in Process(raw', config.maxSpeakers)
    BY <1>1 DEF Diarise
  <2>5. segments' \in Seq(Segment) /\ InOrder(segments') /\ Starts(segments') \subseteq Starts(raw')
    BY <2>2, <2>3, <2>4, ProcessKeepsOrder
  <2>6. InOrder(segments)' /\ (Starts(segments) \subseteq Starts(raw))'
    BY <2>5 DEF Starts, InOrder
  <2> QED
    BY <2>2, <2>5, <2>6 DEF Speech
<1>2. CASE UNCHANGED speech
  BY <1>2 DEF Speech, speech, Starts, InOrder
<1>3. Next /\ ~Diarise => UNCHANGED speech
  BY DEF Next, RefuseQueueless, RefuseTooLarge, RefuseUnreadable, Receive, RefuseAudio, Convert,
         QueueFull, SubmitAsync, SubmitBlocking, ProcessDirectly, ProcessSegments, RateMismatch,
         RecognizeSegment, ImpossibleSlice, AllSegments, RecognizeWhole, RecognizeChunked,
         Stop, Refuse, ProcessIn, vars, speech
<1> QED
  BY <1>1, <1>2, <1>3 DEF vars, speech

(* Every step keeps that.                                                   *)
LEMMA AnsweredStep == Answered /\ [Next]_vars => Answered'
<1> SUFFICES ASSUME Answered, [Next]_vars PROVE Answered'
  OBVIOUS
<1>1. CASE Diarise
  BY <1>1, Zenon DEF Diarise, Answered, inputs
<1>2. CASE raw' = raw /\ segments' = segments /\ config' = config
  BY <1>2, Zenon DEF Answered
<1>3. Diarise \/ (raw' = raw /\ segments' = segments /\ config' = config)
  BY Zenon DEF Next, vars, inputs, job, speech, output, RefuseQueueless, RefuseTooLarge,
     RefuseUnreadable, Receive, RefuseAudio, Convert, QueueFull, SubmitAsync, SubmitBlocking,
     ProcessDirectly, ProcessSegments, ProcessIn, Refuse, Respond, RateMismatch,
     RecognizeSegment, ImpossibleSlice, AllSegments, RecognizeWhole, RecognizeChunked, Stop
<1> QED
  BY <1>1, <1>2, <1>3

(* The slice of a segment ends in the recording; it is impossible only if   *)
(* the segment starts after the recording.                                  *)
LEMMA SliceFacts ==
    ASSUME NEW seg \in Segment, seg.start <= seg.end, NEW len \in Nat, NEW hz \in Nat \ {0}
    PROVE  LET slice == Slice(seg, len, hz)
           IN  /\ slice \in [from : Nat, to : Nat] /\ slice.to <= len
               /\ slice.from > slice.to => seg.start * hz > len * TicksPerSecond
<1> DEFINE T == TicksPerSecond
           a == (seg.start * hz) \div T
           b == (seg.end * hz) \div T
           slice == Slice(seg, len, hz)
<1>1. seg.start \in Nat /\ seg.end \in Nat /\ T \in Nat \ {0}
  BY TickAssumption DEF Segment
<1>2. PICK s \in Nat, e \in Nat : s = seg.start /\ e = seg.end /\ s <= e
  BY <1>1
<1>3. PICK x \in Nat, y \in Nat : x = s * hz /\ y = e * hz
  OBVIOUS
<1>4. x <= y
  <2>1. hz * s <= hz * e
    BY <1>2, ProductGrows
  <2>2. hz * s = x /\ hz * e = y
    BY <1>3
  <2> QED
    BY <2>1, <2>2
<1>5. a = x \div T /\ b = y \div T
  BY <1>2, <1>3
<1> HIDE DEF T
<1>6. /\ x \div T \in Nat /\ T * (x \div T) <= x /\ x < T * (x \div T) + T
      /\ y \div T \in Nat /\ T * (y \div T) <= y /\ y < T * (y \div T) + T
  BY <1>1, Quotient
<1> HIDE DEF a, b
<1>7. a \in Nat /\ b \in Nat /\ T * a <= x /\ x < T * a + T /\ T * b <= y /\ y < T * b + T
  BY <1>5, <1>6
<1>8. a <= b
  <2> SUFFICES ASSUME b + 1 <= a PROVE FALSE
    BY <1>7
  <2>1. T * (b + 1) <= T * a
    BY <1>1, <1>7, ProductGrows
  <2>2. T * (b + 1) = T * b + T /\ T * a \in Int /\ T * b \in Int
    BY <1>1, <1>7
  <2>3. PICK p \in Int, q \in Int : p = T * b /\ q = T * a
    BY <2>2
  <2>4. p + T <= q /\ q <= x /\ y < p + T
    BY <1>7, <2>1, <2>2, <2>3
  <2> QED
    BY <1>1, <1>4, <2>4
<1>9. slice.from = a /\ slice.to = IF len <= b THEN len ELSE b
  <2>1. slice = [from |-> Max({0, a}), to |-> Min({len, b})]
    BY DEF Slice, a, b, T
  <2>2. Max({0, a}) = IF 0 >= a THEN 0 ELSE a
    BY <1>7, MaxOfTwo
  <2>3. Max({0, a}) = a
    BY <1>7, <2>2
  <2>4. Min({len, b}) = IF len <= b THEN len ELSE b
    BY <1>7, MinOfTwo
  <2> QED
    BY <2>1, <2>3, <2>4
<1>10. slice = [from |-> slice.from, to |-> slice.to]
  BY DEF Slice
<1> HIDE DEF slice
<1>11. slice \in [from : Nat, to : Nat] /\ slice.to <= len
  BY <1>7, <1>9, <1>10
<1>12. ASSUME slice.from > slice.to PROVE seg.start * hz > len * TicksPerSecond
  <2>1. len + 1 <= a
    BY <1>7, <1>8, <1>9, <1>12
  <2>2. T * (len + 1) <= T * a
    BY <1>1, <1>7, <2>1, ProductGrows
  <2>3. T * (len + 1) = len * T + T /\ T * a \in Int /\ len * T \in Int
    BY <1>1, <1>7
  <2>4. x > len * T
    <3>1. PICK p \in Int, q \in Int : p = len * T /\ q = T * a
      BY <2>3
    <3>2. p + T <= q /\ q <= x
      BY <1>7, <2>2, <2>3, <3>1
    <3>3. x > p
      BY <1>1, <3>2
    <3> QED
      BY <3>1, <3>3
  <2> QED
    BY <1>2, <1>3, <2>4 DEF T
<1> QED
  BY <1>11, <1>12 DEF slice

(* A list of slices in the recording that covers it from end to end.        *)
Covers(slices) ==
    /\ slices \in Seq([from : Nat, to : Nat]) /\ slices # <<>>
    /\ slices[1].from = 0 /\ Last(slices).to = n
    /\ \A i \in 1 .. Len(slices) - 1 : slices[i].to = slices[i + 1].from
    /\ n > 0 => \A i \in DOMAIN slices : slices[i].from < slices[i].to
    /\ \A i \in DOMAIN slices : slices[i].from <= slices[i].to /\ slices[i].to <= n

(* The chunks of RecognizeChunked cover the recording.                      *)
LEMMA ChunksCover ==
    ASSUME NEW size \in Nat \ {0}, n \in Nat \ {0}
    PROVE  Covers(Chunks(size))
<1> DEFINE count == (n + size - 1) \div size
           c == Chunks(size)
<1>1. count \in Nat \ {0} /\ n <= size * count /\ size * (count - 1) < n
  BY Pieces
<1>2. c = [i \in 1 .. count |-> [from |-> (i - 1) * size, to |-> Min({n, i * size})]]
  BY DEF Chunks
<1> HIDE DEF count, c
<1>3. ASSUME NEW i \in 1 .. count
      PROVE  /\ c[i] \in [from : Nat, to : Nat]
             /\ c[i].from = (i - 1) * size /\ c[i].from < c[i].to /\ c[i].to <= n
             /\ i < count => c[i].to = i * size
             /\ i = count => c[i].to = n
  <2>1. c[i] = [from |-> (i - 1) * size, to |-> Min({n, i * size})]
    BY <1>2
  <2>2. i \in Nat /\ i <= count /\ i - 1 \in Nat
    BY <1>1
  <2>3. PICK p \in Nat, q \in Nat : p = (i - 1) * size /\ q = i * size
    BY <2>2
  <2>4. q = p + size
    BY <2>2, <2>3
  <2>5. Min({n, q}) = IF n <= q THEN n ELSE q
    BY MinOfTwo
  <2>6. p < n
    <3>1. size * (i - 1) <= size * (count - 1)
      BY <1>1, <2>2, ProductGrows
    <3>2. size * (i - 1) = p
      BY <2>2, <2>3
    <3>3. size * (count - 1) \in Int
      BY <1>1
    <3> QED
      BY <1>1, <3>1, <3>2, <3>3
  <2>7. i < count => q <= n
    <3> SUFFICES ASSUME i < count PROVE q <= n
      OBVIOUS
    <3>1. size * i <= size * (count - 1)
      BY <1>1, <2>2, ProductGrows
    <3>2. size * i = q
      BY <2>2, <2>3
    <3>3. size * (count - 1) \in Int
      BY <1>1
    <3> QED
      BY <1>1, <3>1, <3>2, <3>3
  <2>8. i = count => n <= q
    BY <1>1, <2>2, <2>3
  <2>9. c[i].from = p /\ c[i].to = Min({n, q})
    BY <2>1, <2>3
  <2>10. PICK m \in Nat : m = Min({n, q}) /\ p < m /\ m <= n
                          /\ (i < count => m = q) /\ (i = count => m = n)
    BY <2>4, <2>5, <2>6, <2>7, <2>8
  <2> QED
    BY <2>1, <2>3, <2>9, <2>10
<1>4. c \in [1 .. count -> [from : Nat, to : Nat]] /\ DOMAIN c = 1 .. count
  BY <1>2, <1>3
<1>5. c \in Seq([from : Nat, to : Nat]) /\ Len(c) = count /\ c # <<>>
  <2> DEFINE S == [from : Nat, to : Nat]
  <2>1. c \in [1 .. count -> S] /\ count \in Nat /\ DOMAIN c = 1 .. count
    BY <1>1, <1>4
  <2> HIDE DEF S
  <2>2. c \in Seq(S)
    BY <2>1
  <2>3. Len(c) = count
    BY <2>1, <2>2, LenProperties
  <2>4. c # <<>>
    BY <1>1, <2>2, <2>3, EmptySeq
  <2> QED
    BY <2>2, <2>3, <2>4 DEF S
<1>6. 1 \in 1 .. count /\ count \in 1 .. count
  BY <1>1
<1>7. c[1].from = 0
  BY <1>3, <1>6
<1>8. Last(c).to = n
  BY <1>3, <1>5, <1>6 DEF Last
<1>9. ASSUME NEW i \in 1 .. Len(c) - 1 PROVE c[i].to = c[i + 1].from
  <2>1. i \in 1 .. count /\ i + 1 \in 1 .. count /\ i < count /\ (i + 1) - 1 = i
    BY <1>1, <1>5
  <2> QED
    BY <1>3, <2>1
<1>10. \A i \in DOMAIN c : c[i].from < c[i].to /\ c[i].from <= c[i].to /\ c[i].to <= n
  <2>1. \A i \in DOMAIN c : c[i].from \in Nat /\ c[i].to \in Nat /\ c[i].from < c[i].to /\ c[i].to <= n
    BY <1>3, <1>4
  <2> QED
    BY <2>1
<1> QED
  BY <1>5, <1>7, <1>8, <1>9, <1>10 DEF Covers, c

(* The whole recording as one slice covers it.                              *)
LEMMA WholeCovers ==
    ASSUME n \in Nat
    PROVE  Covers(<<[from |-> 0, to |-> n]>>)
<1> DEFINE c == <<[from |-> 0, to |-> n]>>
<1>1. /\ c \in Seq([from : Nat, to : Nat]) /\ Len(c) = 1 /\ DOMAIN c = {1} /\ c # <<>>
      /\ c[1].from = 0 /\ c[1].to = n
  OBVIOUS
<1>2. Last(c).to = n
  BY <1>1 DEF Last
<1> HIDE DEF c
<1>3. \A i \in DOMAIN c : c[i].from <= c[i].to /\ c[i].to <= n /\ (n > 0 => c[i].from < c[i].to)
  BY <1>1
<1>4. 1 .. Len(c) - 1 = {}
  BY <1>1
<1> QED
  BY <1>1, <1>2, <1>3, <1>4 DEF Covers, c

(* What covers the recording satisfies what is claimed of the slices.       *)
LEMMA CoverIsEnough ==
    ASSUME Covers(heard)', n' = n, n \in Nat, at' = "done"
    PROVE  Slices'
<1>1. Covers(heard')
  BY DEF Covers
<1>2. EverySampleOnce'
  BY <1>1 DEF Covers, EverySampleOnce
<1>3. SlicesStayInside'
  <2>1. \A i \in DOMAIN heard' : heard'[i] \in [from : Nat, to : Nat]
    BY <1>1, LenProperties, ElementOfSeq DEF Covers
  <2>2. \A i \in DOMAIN heard' : heard'[i].from \in 0 .. heard'[i].to /\ heard'[i].to <= n'
    BY <1>1, <2>1 DEF Covers
  <2> QED
    BY <2>2 DEF SlicesStayInside
<1> QED
  BY <1>1, <1>2, <1>3 DEF Slices, Covers

(* The slice of the next segment.                                           *)
LEMMA NextSliceFacts ==
    ASSUME Flow, Speech, Slices, at = "segments", Len(heard) < Len(segments)
    PROVE  /\ NextSlice \in [from : Nat, to : Nat] /\ NextSlice.to <= n
           /\ NextSlice.from > NextSlice.to =>
                  \E i \in DOMAIN raw : raw[i].start * DiarRate > n * TicksPerSecond
<1>1. segments \in Seq(Segment) /\ heard \in Seq([from : Nat, to : Nat]) /\ InOrder(segments)
  BY DEF Speech, Slices
<1>2. /\ Len(segments) \in Nat /\ DOMAIN segments = 1 .. Len(segments)
      /\ Len(heard) \in Nat
  BY <1>1, LenProperties
<1> DEFINE k == Len(heard) + 1
           seg == segments[k]
<1>3. k \in 1 .. Len(segments)
  BY <1>2
<1>4. seg \in Segment /\ seg.start <= seg.end
  BY <1>1, <1>2, <1>3, ElementOfSeq DEF InOrder
<1>5. rate = DiarRate /\ DiarRate \in Nat \ {0} /\ n \in Nat
  BY RateAssumption DEF Flow
<1>6. seg.start \in Starts(raw)
  BY <1>2, <1>3 DEF Speech, Starts
<1>7. NextSlice = Slice(seg, n, rate)
  BY DEF NextSlice
<1> HIDE DEF seg
<1>8. /\ NextSlice \in [from : Nat, to : Nat] /\ NextSlice.to <= n
      /\ NextSlice.from > NextSlice.to => seg.start * rate > n * TicksPerSecond
  BY <1>4, <1>5, <1>7, SliceFacts
<1> QED
  BY <1>5, <1>6, <1>8 DEF Starts

(* Every step keeps what is known of the slices.                            *)
LEMMA SlicesStep == Flow /\ Speech /\ Slices /\ [Next]_vars => Slices'
<1> SUFFICES ASSUME Flow, Speech, Slices, [Next]_vars PROVE Slices'
  OBVIOUS
<1> USE DEF Respond, Refuse, inputs, job, speech, output
<1> DEFINE Early == {"receive", "convert", "dispatch", "process"}
<1>1. ASSUME at \in Early, heard' = heard, at' # "crashed" PROVE Slices'
  <2>1. heard' = <<>>
    BY <1>1 DEF Slices
  <2> QED
    BY <1>1, <2>1 DEF Slices, EverySampleOnce, SlicesStayInside
<1>2. ASSUME UNCHANGED <<heard, n, diarize, raw>>, at' \in {"segments", "done"} PROVE Slices'
  BY <1>2 DEF Slices, EverySampleOnce, SlicesStayInside
<1>3. CASE RefuseQueueless \/ RefuseTooLarge \/ RefuseUnreadable \/ Receive
  BY <1>1, <1>3 DEF RefuseQueueless, RefuseTooLarge, RefuseUnreadable, Receive
<1>4. CASE RefuseAudio \/ Convert \/ QueueFull
  BY <1>1, <1>4 DEF RefuseAudio, Convert, QueueFull
<1>5. CASE SubmitAsync \/ SubmitBlocking \/ ProcessDirectly \/ ProcessSegments
  BY <1>1, <1>5 DEF SubmitAsync, SubmitBlocking, ProcessDirectly, ProcessSegments, ProcessIn
<1>6. CASE RateMismatch \/ Diarise
  BY <1>1, <1>6 DEF RateMismatch, Diarise, Finish
<1>7. CASE RecognizeSegment
  <2>1. /\ at = "segments" /\ Len(heard) < Len(segments) /\ NextSlice.from <= NextSlice.to
        /\ heard' = Append(heard, NextSlice) /\ UNCHANGED <<at, n, diarize, raw>>
    BY <1>7 DEF RecognizeSegment
  <2>2. NextSlice \in [from : Nat, to : Nat] /\ NextSlice.to <= n
    BY <2>1, NextSliceFacts
  <2>3. PICK slice \in [from : Nat, to : Nat] : slice = NextSlice
    BY <2>2
  <2>4. slice.from \in 0 .. slice.to /\ slice.to <= n
    BY <2>1, <2>2, <2>3
  <2>5. heard \in Seq([from : Nat, to : Nat])
    BY DEF Slices
  <2>6. /\ heard' \in Seq([from : Nat, to : Nat]) /\ Len(heard') = Len(heard) + 1
        /\ \A i \in 1 .. Len(heard) : heard'[i] = heard[i]
        /\ heard'[Len(heard) + 1] = slice
    BY <2>1, <2>3, <2>5, AppendProperties
  <2>7. /\ DOMAIN heard = 1 .. Len(heard) /\ Len(heard) \in Nat
        /\ DOMAIN heard' = 1 .. Len(heard) + 1
    BY <2>5, <2>6, LenProperties
  <2>8. diarize'
    BY <2>1 DEF Flow
  <2>9. ASSUME NEW i \in DOMAIN heard' PROVE heard'[i].from \in 0 .. heard'[i].to /\ heard'[i].to <= n
    <3>1. i \in 1 .. Len(heard) \/ i = Len(heard) + 1
      BY <2>7
    <3>2. CASE i \in 1 .. Len(heard)
      BY <2>6, <2>7, <3>2 DEF Slices, SlicesStayInside
    <3>3. CASE i = Len(heard) + 1
      BY <2>4, <2>6, <3>3
    <3> QED
      BY <3>1, <3>2, <3>3
  <2>10. SlicesStayInside'
    BY <2>1, <2>9 DEF SlicesStayInside
  <2> QED
    BY <2>1, <2>6, <2>8, <2>10 DEF Slices, EverySampleOnce
<1>8. CASE ImpossibleSlice
  <2>1. /\ at = "segments" /\ Len(heard) < Len(segments) /\ NextSlice.from > NextSlice.to
        /\ Panics /\ UNCHANGED <<n, diarize, raw, heard>>
    BY <1>8 DEF ImpossibleSlice
  <2>2. at' \in {"done", "crashed"}
    BY <2>1 DEF Panics
  <2>3. \E i \in DOMAIN raw : raw[i].start * DiarRate > n * TicksPerSecond
    BY <2>1, NextSliceFacts
  <2> QED
    BY <2>1, <2>2, <2>3 DEF Slices, EverySampleOnce, SlicesStayInside
<1>9. CASE AllSegments
  BY <1>2, <1>9 DEF AllSegments, Finish
<1>10. n \in Nat /\ rate \in Int
  BY DEF Flow
<1>11. CASE RecognizeWhole
  <2>1. heard' = <<[from |-> 0, to |-> n]>> /\ n' = n /\ at' = "done"
    BY <1>11 DEF RecognizeWhole, Finish
  <2>2. Covers(heard)'
    BY <1>10, <2>1, WholeCovers DEF Covers
  <2> QED
    BY <1>10, <2>1, <2>2, CoverIsEnough
<1>12. CASE RecognizeChunked
  <2>1. heard' = Chunks(ChunkSize) /\ n' = n /\ at' = "done" /\ Chunked
    BY <1>12 DEF RecognizeChunked, Finish
  <2>2. rate > 0 /\ n > ChunkSize
    BY <2>1 DEF Chunked, LongerThan
  <2> DEFINE sec == IF config.chunkSec > 0 THEN config.chunkSec ELSE PoolChunkSec
  <2>3. sec \in Nat \ {0}
    <3>1. config \in [chunkSec : Int, maxSpeakers : Int, maxFileMB : Int]
      BY ConfigAssumption DEF Flow
    <3>2. config.chunkSec \in Int
      BY <3>1
    <3> QED
      BY <3>2, RateAssumption
  <2>4. ChunkSize = rate * sec
    BY DEF ChunkSize
  <2> HIDE DEF sec
  <2>5. ChunkSize \in Nat \ {0}
    BY <1>10, <2>2, <2>3, <2>4
  <2>6. n \in Nat \ {0}
    BY <1>10, <2>2, <2>5
  <2>7. Covers(Chunks(ChunkSize))
    BY <2>5, <2>6, ChunksCover
  <2>8. Covers(heard)'
    BY <2>1, <2>7 DEF Covers
  <2> QED
    BY <1>10, <2>1, <2>8, CoverIsEnough
<1>13. CASE Stop \/ UNCHANGED vars
  BY <1>13 DEF Stop, vars, Slices, EverySampleOnce, SlicesStayInside
<1> QED
  BY <1>3, <1>4, <1>5, <1>6, <1>7, <1>8, <1>9, <1>11, <1>12, <1>13 DEF Next

(* The invariant holds in every reachable state.                            *)
THEOREM RequestInductive == RequestSpec => []RequestInv
<1>1. RequestInv /\ [Next]_vars => RequestInv'
  BY FlowStep, StatsStep, SpeechStep, AnsweredStep, SlicesStep DEF RequestInv
<1> QED
  BY <1>1, RequestStarts, PTL DEF RequestSpec

-----------------------------------------------------------------------------
(* The properties.                                                          *)

(* Every variable has its type, and the request that is over was answered.  *)
THEOREM RequestTypesCorrect == RequestSpec => []OfflineTypeOK
<1>1. RequestInv => OfflineTypeOK
  <2> SUFFICES ASSUME RequestInv PROVE OfflineTypeOK
    OBVIOUS
  <2>1. [handler |-> request.handler, manager |-> request.manager, queue |-> request.queue]
            \in Routes \cup Unrouted
    BY RequestFields DEF RequestInv, Flow
  <2> QED
    BY <2>1 DEF RequestInv, Flow, StatsTypes, Speech, Slices, OfflineTypeOK
<1> QED
  BY <1>1, RequestInductive, PTL

(* Without a diarizer the recogniser is given every sample exactly once, at *)
(* every rate a client may claim and every length of the chunks.            *)
THEOREM SamplesAreHeardOnce == RequestSpec => []EverySampleOnce
<1>1. RequestInv => EverySampleOnce
  BY DEF RequestInv, Slices
<1> QED
  BY <1>1, RequestInductive, PTL

(* No slice leaves the recording, and only a segment found after its end    *)
(* makes one impossible: merging, relabelling and the rate never do.        *)
THEOREM SlicesAreInside == RequestSpec => []SlicesStayInside
<1>1. RequestInv => SlicesStayInside
  BY DEF RequestInv, Slices
<1> QED
  BY <1>1, RequestInductive, PTL

(* The names that ReadsStayInside and LengthIsTrue use for a WAV file.      *)
LEMMA WAVState ==
    ASSUME Flow, FromWAV
    PROVE  LET f == request.file
               m == (DataSize \div Bytes(f.bits)) \div f.channels
           IN  /\ DataSize \in Nat /\ f.bits \in {8, 16, 32}
               /\ f.channels \in Nat \ {0} /\ f.rate \in Nat \ {0}
               /\ DecodePCM(DataSize, f.bits, f.channels).n = m
               /\ n \in Nat \ {0}
               /\ n = IF f.rate = TargetRate THEN m ELSE (m * TargetRate) \div f.rate
               /\ Bytes(f.bits) \in Nat \ {0} /\ m \in Nat
               /\ FrameSize \in Nat \ {0}
               /\ FrameSize * m <= DataSize /\ DataSize < FrameSize * m + FrameSize
<1> DEFINE f == request.file
           m == (DataSize \div Bytes(f.bits)) \div f.channels
<1>1. /\ request \in Request /\ DetectFormat(f) = "wav" /\ n \in Nat \ {0}
      /\ ConvertToSamples(f).kind = "samples" /\ ConvertToSamples(f).n = n
  BY DEF Flow, FromWAV, Audio
<1>2. /\ DataSize \in Nat /\ f.bits \in {8, 16, 32}
      /\ f.channels \in Nat \ {0} /\ f.rate \in Nat \ {0}
      /\ DecodePCM(DataSize, f.bits, f.channels) = Samples(m)
      /\ ConvertToSamples(f).n = IF f.rate = TargetRate THEN m ELSE (m * TargetRate) \div f.rate
  BY <1>1, ConvertedWAV DEF DataSize
<1>3. DecodePCM(DataSize, f.bits, f.channels).n = m
  BY <1>2, Kinds
<1> HIDE DEF f
<1>4. Bytes(f.bits) \in Nat \ {0}
  BY <1>2 DEF Bytes
<1>5. /\ m \in Nat /\ (f.channels * Bytes(f.bits)) * m <= DataSize
      /\ DataSize < (f.channels * Bytes(f.bits)) * m + (f.channels * Bytes(f.bits))
  BY <1>2, <1>4, WholeFrames
<1>6. FrameSize = f.channels * Bytes(f.bits)
  BY DEF FrameSize, f
<1>7. FrameSize \in Nat \ {0}
  BY <1>2, <1>4, <1>6
<1> QED
  BY <1>1, <1>2, <1>3, <1>4, <1>5, <1>6, <1>7 DEF f

(* The byte a sample starts at, for each of the three widths.               *)
LEMMA SampleByteCases ==
    ASSUME NEW i \in Int, NEW c \in Int
    PROVE  /\ SampleByte(i, 8, c) = i * c
           /\ SampleByte(i, 16, c) = i * c * 2
           /\ SampleByte(i, 32, c) = i * (4 + (((c - 1) * 4) % 65536))
  BY DEF SampleByte

(* For every header of a file, the decoder reads no byte outside of the     *)
(* data chunk and the interpolation takes no sample that is not there.      *)
THEOREM ReadsAreInside == RequestSpec => []ReadsStayInside
<1>1. Flow => ReadsStayInside
  <2> SUFFICES ASSUME Flow, FromWAV PROVE ReadsStayInside
    BY DEF ReadsStayInside
  <2> DEFINE f == request.file
             m == (DataSize \div Bytes(f.bits)) \div f.channels
             pcm == DecodePCM(DataSize, f.bits, f.channels).n
             b == Bytes(f.bits)
  <2>1. /\ DataSize \in Nat /\ f.bits \in {8, 16, 32} /\ f.channels \in Nat \ {0}
        /\ f.rate \in Nat \ {0} /\ pcm = m /\ n \in Nat \ {0}
        /\ n = IF f.rate = TargetRate THEN m ELSE (m * TargetRate) \div f.rate
        /\ b \in Nat \ {0} /\ m \in Nat /\ FrameSize \in Nat \ {0}
        /\ FrameSize * m <= DataSize
    BY WAVState
  <2>2. FrameSize = f.channels * b
    BY DEF FrameSize
  <2> HIDE DEF f, m, pcm
  <2>3. ASSUME NEW i \in 0 .. pcm - 1 PROVE SampleByte(i, f.bits, f.channels) + b <= DataSize
    <3>1. PICK c \in Nat \ {0} : c = f.channels
      BY <2>1
    <3>6. i \in Int /\ c \in Int
      OBVIOUS
    <3>2. i \in 0 .. m - 1
      BY <2>1
    <3>3. b <= FrameSize /\ b \in Int
      BY <2>1, <2>2
    <3>4. PICK step \in Int : step <= FrameSize /\ SampleByte(i, f.bits, f.channels) = i * step
      <4>1. CASE f.bits = 8
        <5>1. SampleByte(i, f.bits, f.channels) = i * c
          <6>1. SampleByte(i, 8, c) = i * c
            BY <3>6, SampleByteCases
          <6> QED
            BY <3>1, <4>1, <6>1
        <5>2. c <= FrameSize
          BY <2>1, <2>2, <3>1
        <5> QED
          BY <5>1, <5>2
      <4>2. CASE f.bits = 16
        <5>1. SampleByte(i, f.bits, f.channels) = i * c * 2
          <6>1. SampleByte(i, 16, c) = i * c * 2
            BY <3>6, SampleByteCases
          <6> QED
            BY <3>1, <4>2, <6>1
        <5>2. b = 2
          BY <4>2 DEF Bytes
        <5>3. FrameSize = c * 2 /\ i * c * 2 = i * (c * 2)
          BY <2>2, <3>1, <5>2
        <5> QED
          BY <5>1, <5>3
      <4>3. CASE f.bits = 32
        <5>1. SampleByte(i, f.bits, f.channels) = i * (4 + (((c - 1) * 4) % 65536))
          <6>1. SampleByte(i, 32, c) = i * (4 + (((c - 1) * 4) % 65536))
            BY <3>6, SampleByteCases
          <6> QED
            BY <3>1, <4>3, <6>1
        <5>2. b = 4
          BY <4>3 DEF Bytes
        <5>3. PICK x \in Nat : x = (c - 1) * 4 /\ FrameSize = x + 4
          BY <2>2, <3>1, <5>2
        <5>4. x % 65536 \in Nat /\ x % 65536 <= x
          OBVIOUS
        <5>5. 4 + (x % 65536) <= FrameSize /\ 4 + (x % 65536) \in Int
          BY <5>3, <5>4
        <5> QED
          BY <5>1, <5>3, <5>5
      <4> QED
        BY <2>1, <4>1, <4>2, <4>3
    <3>5. i * step + b <= DataSize
      BY <2>1, <3>2, <3>3, <3>4, FrameInside
    <3> QED
      BY <3>4, <3>5
  <2>4. ASSUME f.rate # TargetRate, NEW i \in 0 .. n - 1
        PROVE  Sources(i, pcm, f.rate) \subseteq 0 .. pcm - 1
    <3>1. PICK r \in Nat \ {0} : r = f.rate
      BY <2>1
    <3>2. n = (m * TargetRate) \div r
      BY <2>1, <2>4, <3>1
    <3>3. TargetRate \in Nat \ {0} /\ i \in 0 .. ((m * TargetRate) \div r) - 1
      BY <3>2, TargetRateAssumption
    <3>4. (i * r) \div TargetRate \in Nat /\ m \in Nat \ {0}
      BY <2>1, <3>1, <3>3, BetweenSamples
    <3>5. PICK s \in Nat : s = (i * r) \div TargetRate
      BY <3>4
    <3>6. Sources(i, pcm, f.rate) = IF s >= m - 1 THEN {m - 1} ELSE {s, s + 1}
      BY <2>1, <3>1, <3>5, Zenon DEF Sources
    <3>7. CASE s >= m - 1
      BY <2>1, <3>4, <3>6, <3>7
    <3>8. CASE ~(s >= m - 1)
      BY <2>1, <3>4, <3>5, <3>6, <3>8
    <3> QED
      BY <3>7, <3>8
  <2> QED
    BY <2>3, <2>4 DEF ReadsStayInside, f, pcm
<1>2. RequestInv => Flow
  BY DEF RequestInv
<1> QED
  BY <1>1, <1>2, RequestInductive, PTL

(* For every header of a file, its recording keeps its duration up to a     *)
(* sample of the old and of the new rate.                                   *)
THEOREM LengthIsKept == RequestSpec => []LengthIsTrue
<1>1. Flow => LengthIsTrue
  <2> SUFFICES ASSUME Flow, FromWAV PROVE LengthIsTrue
    BY DEF LengthIsTrue
  <2> DEFINE f == request.file
             m == (DataSize \div Bytes(f.bits)) \div f.channels
  <2>1. /\ DataSize \in Nat /\ f.rate \in Nat \ {0} /\ n \in Nat
        /\ n = IF f.rate = TargetRate THEN m ELSE (m * TargetRate) \div f.rate
        /\ m \in Nat /\ FrameSize \in Nat \ {0}
        /\ FrameSize * m <= DataSize /\ DataSize < FrameSize * m + FrameSize
    BY WAVState
  <2> HIDE DEF f, m
  <2>2. DataSize * TargetRate - (n * FrameSize) * f.rate \in 0 .. FrameSize * (f.rate + TargetRate) - 1
    BY <2>1, TargetRateAssumption, DurationKept
  <2> QED
    BY <2>2 DEF LengthIsTrue, f
<1>2. RequestInv => Flow
  BY DEF RequestInv
<1> QED
  BY <1>1, <1>2, RequestInductive, PTL

(* What the labellings of an answer are.                                    *)
LEMMA LabelsOfAnswer ==
    ASSUME raw \in Seq(Segment), raw # <<>>, config.maxSpeakers \in Int, Answered
    PROVE  /\ ~TooMany => [s \in Speakers(raw) |-> s] \in Labellings
           /\ TooMany => \E r \in Rankings(MergeAdjacent(raw)) :
                             Mapping(r, config.maxSpeakers) \in Labellings
<1> DEFINE max == config.maxSpeakers
<1>1. segments \in Process(raw, max)
  BY DEF Answered
<1>2. PICK count \in Nat : count = Cardinality(Speakers(raw))
  BY SpeakersAreFinite
<1>3. TooMany <=> max > 0 /\ ~(Cardinality(Speakers(raw)) <= max)
  BY <1>2 DEF TooMany
<1>4. /\ ~TooMany => Explains([s \in Speakers(raw) |-> s], raw, segments)
      /\ TooMany => \E r \in Rankings(MergeAdjacent(raw)) : Explains(Mapping(r, max), raw, segments)
  BY <1>1, <1>3, AnswerExplained
<1>5. ASSUME ~TooMany PROVE [s \in Speakers(raw) |-> s] \in Labellings
  BY <1>4, <1>5 DEF Labellings
<1>6. ASSUME TooMany PROVE \E r \in Rankings(MergeAdjacent(raw)) : Mapping(r, max) \in Labellings
  <2>1. PICK merged \in Seq(Segment) : merged = MergeAdjacent(raw) /\ Speakers(merged) = Speakers(raw)
    BY MergedAreSegments, SpeakersStay
  <2>2. PICK r \in Rankings(merged) : Explains(Mapping(r, max), raw, segments)
    BY <1>4, <1>6, <2>1
  <2>3. Mapping(r, max) \in [Speakers(raw) -> 0 .. max - 1]
    <3>1. max \in Nat \ {0}
      BY <1>3, <1>6
    <3>2. Mapping(r, max) \in [Speakers(merged) -> 0 .. max - 1]
      BY <3>1, MappingFacts
    <3> QED
      BY <2>1, <3>2
  <2>4. Mapping(r, max) \in Labellings
    BY <1>6, <2>2, <2>3, Zenon DEF Labellings
  <2> QED
    BY <2>1, <2>4
<1> QED
  BY <1>5, <1>6

(* The rest of a small number.                                              *)
LEMMA SmallRest ==
    ASSUME NEW max \in Nat \ {0}, NEW l \in 0 .. max - 1
    PROVE  l % max = l
<1>1. l \in Int /\ 0 <= l /\ l < max /\ max \in Int
  OBVIOUS
<1> QED
  BY <1>1

(* If there are too many, the ranking that Process chose names the main ones. *)
LEMMA MainSpeakers ==
    ASSUME raw \in Seq(Segment), raw # <<>>, config.maxSpeakers \in Int, Answered
    PROVE  LongestSpeakersStay
<1> SUFFICES ASSUME TooMany PROVE LongestSpeakersStay
  BY DEF LongestSpeakersStay
<1> DEFINE last == config.maxSpeakers - 1
<1>1. PICK max \in Nat \ {0} : max = config.maxSpeakers /\ last = max - 1
  BY DEF TooMany
<1>2. PICK merged \in Seq(Segment) : merged = MergeAdjacent(raw) /\ Speakers(merged) = Speakers(raw)
  BY MergedAreSegments, SpeakersStay
<1>3. PICK count \in Nat : count = Cardinality(Speakers(raw)) /\ max < count
  BY <1>1, SpeakersAreFinite DEF TooMany
<1>4. PICK total : total = Durations(MergeAdjacent(raw))
  OBVIOUS
<1>5. PICK r \in Rankings(merged) : Mapping(r, max) \in Labellings
  BY <1>1, <1>2, LabelsOfAnswer
<1>6. /\ r \in [1 .. count -> Speakers(raw)]
      /\ \A s \in Speakers(raw) : \E k \in 1 .. count : r[k] = s
      /\ \A i, j \in 1 .. count : i < j => total[r[j]] <= total[r[i]]
  BY <1>2, <1>3, <1>4, LongestFirst
<1>7. PICK label \in Labellings : \A k \in 1 .. count : label[r[k]] = (k - 1) % max
  <2>1. \A k \in 1 .. count : Mapping(r, max)[r[k]] = (k - 1) % max
    BY <1>2, <1>3, NumbersGoAround
  <2> QED
    BY <1>5, <2>1
<1> HIDE DEF last
<1>8. PICK main \in [0 .. last -> Speakers(raw)] : \A l \in 0 .. last : main[l] = r[l + 1]
  <2> DEFINE main == [l \in 0 .. last |-> r[l + 1]]
  <2>1. \A l \in 0 .. last : l + 1 \in 1 .. count
    BY <1>1, <1>3
  <2>2. main \in [0 .. last -> Speakers(raw)]
    BY <1>6, <2>1
  <2> QED
    BY <2>2
<1>9. \A l \in 0 .. last : label[main[l]] = l
  <2> SUFFICES ASSUME NEW l \in 0 .. last PROVE label[main[l]] = l
    OBVIOUS
  <2>1. l + 1 \in 1 .. count /\ (l + 1) - 1 = l
    BY <1>1, <1>3
  <2>2. l % max = l
    BY <1>1, SmallRest
  <2> QED
    BY <1>7, <1>8, <2>1, <2>2
<1>10. \A l \in 1 .. last : total[main[l - 1]] >= total[main[l]]
  <2> SUFFICES ASSUME NEW l \in 1 .. last PROVE total[main[l - 1]] >= total[main[l]]
    OBVIOUS
  <2>1. /\ l - 1 \in 0 .. last /\ l \in 0 .. last /\ (l - 1) + 1 = l
        /\ l \in 1 .. count /\ l + 1 \in 1 .. count /\ l < l + 1
    BY <1>1, <1>3
  <2>2. main[l - 1] = r[l] /\ main[l] = r[l + 1]
    BY <1>8, <2>1
  <2>3. total[r[l + 1]] <= total[r[l]]
    BY <1>6, <2>1
  <2> QED
    BY <2>2, <2>3
<1>11. ASSUME NEW s \in Speakers(raw), \A l \in 0 .. last : s # main[l]
       PROVE  total[s] <= total[main[last]]
  <2>1. PICK k \in 1 .. count : r[k] = s
    BY <1>6
  <2>2. k - 1 \notin 0 .. last
    <3>1. (k - 1) + 1 = k
      OBVIOUS
    <3> QED
      BY <1>8, <1>11, <2>1, <3>1
  <2>3. max \in 1 .. count /\ max < k /\ last \in 0 .. last /\ last + 1 = max
    BY <1>1, <1>3, <2>2
  <2>4. total[r[k]] <= total[r[max]]
    BY <1>6, <2>3
  <2>5. main[last] = r[max]
    BY <1>8, <2>3
  <2> QED
    BY <2>1, <2>4, <2>5
<1>12. \E lab \in Labellings, m \in [0 .. last -> Speakers(raw)] :
                /\ \A l \in 0 .. last : lab[m[l]] = l
                /\ \A l \in 1 .. last : total[m[l - 1]] >= total[m[l]]
                /\ \A s \in Speakers(raw) :
                       (\A l \in 0 .. last : s # m[l]) => total[s] <= total[m[last]]
  BY <1>9, <1>10, <1>11
<1> QED
  BY <1>4, <1>12, Zenon DEF LongestSpeakersStay, last

(* Whatever the native diarizer found, the segments that ProcessWithASR      *)
(* goes over are those of one pass with one label for each speaker: merging,*)
(* relabelling and merging again split no speaker, close no wide gap, move   *)
(* nothing, and keep a run whole if its ends are in order.                  *)
THEOREM AnswersAreExplained == RequestSpec => []SegmentsExplained
<1>1. RequestInv => SegmentsExplained
  <2> SUFFICES ASSUME RequestInv, JustProcessed PROVE Labellings # {}
    BY DEF SegmentsExplained
  <2>1. raw \in Seq(Segment) /\ raw # <<>> /\ Answered
    BY DEF RequestInv, Speech, JustProcessed
  <2>2. config.maxSpeakers \in Int
    BY SpeakerLimit DEF RequestInv
  <2> QED
    BY <2>1, <2>2, LabelsOfAnswer
<1> QED
  BY <1>1, RequestInductive, PTL

(* If mergeSpeakersIfNeeded has to join speakers, those who keep a label of  *)
(* their own are the ones who speak longest.                                *)
THEOREM MainSpeakersStay == RequestSpec => []LongestSpeakersStay
<1>1. RequestInv => LongestSpeakersStay
  <2> SUFFICES ASSUME RequestInv PROVE LongestSpeakersStay
    OBVIOUS
  <2>1. raw \in Seq(Segment) /\ Answered
    BY DEF RequestInv, Speech
  <2>2. config.maxSpeakers \in Int
    BY SpeakerLimit DEF RequestInv
  <2>3. CASE raw = <<>>
    BY <2>3 DEF LongestSpeakersStay, JustProcessed
  <2>4. CASE raw # <<>>
    BY <2>1, <2>2, <2>4, MainSpeakers
  <2> QED
    BY <2>3, <2>4
<1> QED
  BY <1>1, RequestInductive, PTL
=============================================================================
