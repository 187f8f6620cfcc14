--------------------------- MODULE OfflineRequest ---------------------------
(***************************************************************************)
(* One offline request from its arrival to its answer: the handlers        *)
(* HandleOfflineASRAsync, HandleOfflineASRWithQueue and HandleDiarization  *)
(* (src/internal/handler/asr.go), and the recognition itself, in the       *)
(* handler or in the worker that took the task (processTask in             *)
(* src/internal/asr/task_queue.go), down to the slices of the recording    *)
(* that reach the native recogniser.                                       *)
(*                                                                         *)
(* The converter and the algorithms on segments are the operators of       *)
(* AudioConversion and Diarization.  The queue is only accepting or full   *)
(* here, and a chunked recognition gives all its chunks in one step:       *)
(* TaskQueue and ChunkedRecognition say how.  Texts are left out; times    *)
(* are seconds, a file's size is in megabytes rounded up.                  *)
(*                                                                         *)
(* gin's router recovers from a panic of a handler and answers 500; a      *)
(* panic of a worker ends the process.  External: what the native          *)
(* diarizer finds (Found), whether a native recognition succeeds.          *)
(***************************************************************************)
EXTENDS AudioConversion, Diarization

CONSTANTS Request,        \* the requests that may arrive
          Config,         \* the configurations: chunkSec, maxSpeakers, maxFileMB
          Found(_),       \* what the native diarizer may find in that many samples
          DiarRate,       \* the rate the native diarizer wants
          QueueSec,       \* 120 s: longer blocking requests go to the queue
          HandlerChunkSec,\* 30 s: GetChunkDurationSec's default
          PoolChunkSec    \* 60 s: RecognizeChunked's default

ASSUME RateAssumption == {DiarRate, QueueSec, HandlerChunkSec, PoolChunkSec} \subseteq Nat \ {0}

(* What setupRoutes gives to the handlers, for clients and, under another   *)
(* path, for the administration page.                                       *)
Routes == {[handler |-> "async",       manager |-> FALSE, queue |-> TRUE],
           [handler |-> "async",       manager |-> TRUE,  queue |-> TRUE],
           [handler |-> "diarization", manager |-> TRUE,  queue |-> TRUE]}

(* What else the exported handlers can be given; tests call some of these.  *)
Unrouted == [handler : {"blocking"}, manager : BOOLEAN, queue : BOOLEAN]
            \cup [handler : {"async"}, manager : {FALSE}, queue : {FALSE}]

(* What JSON, the form, the decoder of the file's header and the            *)
(* configuration can hold.                                                  *)
ASSUME RequestAssumption ==
    \A r \in Request :
        /\ [handler |-> r.handler, manager |-> r.manager, queue |-> r.queue] \in Routes \cup Unrouted
        /\ r.rate \in Int /\ r.diarize \in BOOLEAN
        /\ r.file.chunks \in Seq([id : STRING, size : Nat])
        /\ {r.file.bits, r.file.channels, r.file.rate, r.file.ffmpeg.bytes} \subseteq Nat

ASSUME ConfigAssumption == Config \subseteq [chunkSec : Int, maxSpeakers : Int, maxFileMB : Int]

ASSUME FoundAssumption ==
    \A file \in {r.file : r \in Request} :
        LET audio == ConvertToSamples(file)
        IN  audio.kind = "samples" =>
                \A found \in Found(audio.n) : found \in Seq(Segment) /\ InOrder(found)

VARIABLES
    request,  \* handler, manager, queue (see Routes), body, readable, mb, rate, diarize, file
    config,
    (* the handler's variables, then the task's fields *)
    rate,     \* req.SampleRate
    diarize,  \* req.EnableDiarization, later whether the recording is diarized
    n,        \* len(samples)
    (* the recognition *)
    at,       \* the next step
    runner,   \* who executes it: the handler or a worker
    raw,      \* what the native diarizer found
    segments, \* what Process returned
    heard,    \* the slices given to the recogniser, in order
    (* the outcome *)
    status,   \* the HTTP status, 0 before the answer
    result,   \* of the recognition: "none", "ok", "error"
    stats     \* OfflineASRManager.stats

vars == <<request, config, rate, diarize, n, at, runner, raw, segments, heard,
          status, result, stats>>

inputs == <<request, config>>
job    == <<rate, diarize, n>>
speech == <<raw, segments>>
output == <<status, result>>

Init ==
    /\ request \in Request /\ config \in Config
    /\ rate = 0 /\ diarize = FALSE /\ n = 0
    /\ at = "receive" /\ runner = "handler"
    /\ raw = <<>> /\ segments = <<>> /\ heard = <<>>
    /\ status = 0 /\ result = "none"
    /\ stats = [total |-> 0, success |-> 0, failure |-> 0]

-----------------------------------------------------------------------------
(* Receiving and converting, in the handler.                                *)

Respond(code) == at' = "done" /\ status' = code /\ UNCHANGED result

Refuse(code) == Respond(code) /\ UNCHANGED <<inputs, job, runner, speech, heard, stats>>

GetMaxFileSizeMB == IF config.maxFileMB > 0 THEN config.maxFileMB ELSE 50

Queueless == request.handler = "async" /\ ~request.queue

(* Only uploads to the two recognition handlers have a limit. *)
TooLarge ==
    /\ request.body = "upload" /\ request.handler # "diarization"
    /\ request.mb > GetMaxFileSizeMB

RefuseQueueless == at = "receive" /\ Queueless /\ Refuse(503)

RefuseTooLarge == at = "receive" /\ ~Queueless /\ TooLarge /\ Refuse(413)

(* The fields do not bind, the text is no base64, or the file cannot be read. *)
RefuseUnreadable ==
    at = "receive" /\ ~Queueless /\ ~TooLarge /\ ~request.readable /\ Refuse(400)

(* The form fields beside an uploaded file are not read. *)
Receive ==
    /\ at = "receive" /\ ~Queueless /\ ~TooLarge /\ request.readable
    /\ at' = "convert"
    /\ rate' = IF request.body = "upload" THEN 0 ELSE request.rate
    /\ diarize' = (request.body # "upload" /\ request.diarize)
    /\ UNCHANGED <<inputs, n, runner, speech, heard, output, stats>>

RefuseAudio ==
    /\ at = "convert"
    /\ \/ ConvertToSamples(request.file) = Refused /\ Refuse(400)
       \/ ConvertToSamples(request.file) = Panic   /\ Refuse(500)

Convert ==
    LET audio == ConvertToSamples(request.file)
    IN  /\ at = "convert" /\ audio.kind = "samples"
        /\ at' = "dispatch"
        /\ n' = audio.n
        /\ rate' = IF rate = 0 THEN TargetRate ELSE rate
        /\ UNCHANGED <<inputs, diarize, runner, speech, heard, output, stats>>

-----------------------------------------------------------------------------
(* Who recognises it: HandleOfflineASRAsync gives it to the queue and       *)
(* answers at once; HandleOfflineASRWithQueue waits for the queue if the    *)
(* recording is long and there is one, and else recognises it itself;       *)
(* HandleDiarization only wants the segments.                               *)

(* float32(len(samples)) / float32(rate) > sec *)
LongerThan(sec) == rate > 0 /\ n > sec * rate

QueueFull ==
    /\ at = "dispatch"
    /\ \/ request.handler = "async"
       \/ request.handler = "blocking" /\ request.queue /\ LongerThan(QueueSec)
    /\ Refuse(503)

ProcessIn(by, withDiarizer) ==
    /\ at = "dispatch"
    /\ at' = "process" /\ runner' = by /\ diarize' = withDiarizer
    /\ UNCHANGED <<inputs, rate, n, speech, heard, result, stats>>

SubmitAsync ==
    /\ request.handler = "async"
    /\ ProcessIn("worker", request.manager /\ diarize)
    /\ status' = 202

SubmitBlocking ==
    /\ request.handler = "blocking" /\ request.queue /\ LongerThan(QueueSec)
    /\ ProcessIn("worker", request.manager)
    /\ UNCHANGED status

ProcessDirectly ==
    /\ request.handler = "blocking" /\ ~(request.queue /\ LongerThan(QueueSec))
    /\ ProcessIn("handler", request.manager)
    /\ UNCHANGED status

ProcessSegments ==
    /\ request.handler = "diarization"
    /\ ProcessIn("handler", TRUE)
    /\ UNCHANGED status

-----------------------------------------------------------------------------
(* The recognition.                                                         *)

(* Mutant: the one who waits for the worker is left without an answer. *)
MutFinish(outcome) ==
    /\ at' = "done" /\ result' = outcome
    /\ status' = IF runner = "worker" THEN status
                 ELSE IF outcome = "ok" THEN 200 ELSE 500

(* The handler, or the one who waits for the worker, answers now.           *)
Finish(outcome) ==
    /\ at' = "done" /\ result' = outcome
    /\ status' = IF request.handler = "async" THEN status
                 ELSE IF outcome = "ok" THEN 200 ELSE 500

Panics ==
    IF runner = "worker"
      THEN at' = "crashed" /\ UNCHANGED output
      ELSE Respond(500)

RateMismatch ==
    /\ at = "process" /\ diarize /\ rate # DiarRate
    /\ Finish("error")
    /\ UNCHANGED <<inputs, job, runner, speech, heard, stats>>

Diarise ==
    /\ at = "process" /\ diarize /\ rate = DiarRate
    /\ raw' \in Found(n)
    /\ segments' \in Process(raw', config.maxSpeakers)
    /\ IF request.handler = "diarization"
         THEN Finish("ok")
         ELSE at' = "segments" /\ UNCHANGED output
    /\ UNCHANGED <<inputs, job, runner, heard, stats>>

(* Recognize counts itself; a chunk of RecognizeChunked does not count.     *)
Count(works) ==
    stats' = [stats EXCEPT !.total = @ + 1,
                           !.success = IF works THEN @ + 1 ELSE @,
                           !.failure = IF works THEN @ ELSE @ + 1]

NextSlice == Slice(segments[Len(heard) + 1], n, rate)

(* A segment that cannot be recognised gets the empty text. *)
RecognizeSegment ==
    /\ at = "segments" /\ Len(heard) < Len(segments)
    /\ NextSlice.from <= NextSlice.to
    /\ heard' = Append(heard, NextSlice)
    /\ \E works \in BOOLEAN : Count(works)
    /\ UNCHANGED <<inputs, job, at, runner, speech, output>>

ImpossibleSlice ==
    /\ at = "segments" /\ Len(heard) < Len(segments)
    /\ NextSlice.from > NextSlice.to
    /\ Panics
    /\ UNCHANGED <<inputs, job, runner, speech, heard, stats>>

AllSegments ==
    /\ at = "segments" /\ Len(heard) = Len(segments)
    /\ Finish("ok")
    /\ UNCHANGED <<inputs, job, runner, speech, heard, stats>>

GetChunkDurationSec == IF config.chunkSec > 0 THEN config.chunkSec ELSE HandlerChunkSec

ChunkSize == rate * (IF config.chunkSec > 0 THEN config.chunkSec ELSE PoolChunkSec)

(* RecognizeChunked has a default of its own and may find one chunk enough. *)
Chunked == LongerThan(GetChunkDurationSec) /\ n > ChunkSize

(* Mutant: the last, shorter chunk is forgotten. *)
MutChunks(size) ==
    [i \in 1 .. n \div size |-> [from |-> (i - 1) * size, to |-> Min({n, i * size})]]

Chunks(size) ==
    [i \in 1 .. (n + size - 1) \div size |->
        [from |-> (i - 1) * size, to |-> Min({n, i * size})]]

RecognizeWhole ==
    /\ at = "process" /\ ~diarize /\ ~Chunked
    /\ heard' = <<[from |-> 0, to |-> n]>>
    /\ \E works \in BOOLEAN : Count(works) /\ Finish(IF works THEN "ok" ELSE "error")
    /\ UNCHANGED <<inputs, job, runner, speech>>

RecognizeChunked ==
    /\ at = "process" /\ ~diarize /\ Chunked
    /\ heard' = Chunks(ChunkSize)
    /\ \E outcome \in {"ok", "error"} : Finish(outcome)
    /\ UNCHANGED <<inputs, job, runner, speech, stats>>

(* The request is over. *)
Stop == at \in {"done", "crashed"} /\ UNCHANGED vars

-----------------------------------------------------------------------------
Next ==
    \/ RefuseQueueless \/ RefuseTooLarge \/ RefuseUnreadable \/ Receive
    \/ RefuseAudio \/ Convert
    \/ QueueFull \/ SubmitAsync \/ SubmitBlocking \/ ProcessDirectly \/ ProcessSegments
    \/ RateMismatch \/ Diarise \/ RecognizeSegment \/ ImpossibleSlice \/ AllSegments
    \/ RecognizeWhole \/ RecognizeChunked
    \/ Stop

RequestSpec == Init /\ [][Next]_vars

-----------------------------------------------------------------------------
(* Every variable keeps its type; a request that is done has an answer, and *)
(* only a worker's panic ends the process.                                  *)
OfflineTypeOK ==
    /\ [handler |-> request.handler, manager |-> request.manager, queue |-> request.queue]
           \in Routes \cup Unrouted
    /\ config \in Config
    /\ rate \in Int /\ diarize \in BOOLEAN /\ n \in Nat
    /\ at \in {"receive", "convert", "dispatch", "process", "segments", "done", "crashed"}
    /\ runner \in {"handler", "worker"}
    /\ \A s \in {raw, segments} : s \in Seq(Segment)
    /\ heard \in Seq([from : Nat, to : Nat])
    /\ status \in {0, 200, 202, 400, 413, 500, 503}
    /\ result \in {"none", "ok", "error"}
    /\ stats \in [total : Nat, success : Nat, failure : Nat]
    /\ at = "crashed" => runner = "worker"
    /\ at = "done" => status # 0

(* The WAV file this recording was made of, after a conversion that worked. *)
FromWAV == at \notin {"receive", "convert"} /\ n > 0 /\ DetectFormat(request.file) = "wav"
FrameSize == request.file.channels * Bytes(request.file.bits)
DataSize == request.file.chunks[CHOOSE k \in DataChunk(request.file) : TRUE].size

(* The conversion reads no byte outside of the data chunk and interpolates  *)
(* between no samples but those it decoded, at any size, width, number of   *)
(* channels and rate that a header may give (decodePCM, resample).          *)
ReadsStayInside ==
    FromWAV =>
        LET f   == request.file
            pcm == DecodePCM(DataSize, f.bits, f.channels).n
        IN  /\ \A i \in 0 .. pcm - 1 :
                   SampleByte(i, f.bits, f.channels) + Bytes(f.bits) <= DataSize
            /\ f.rate # TargetRate =>
                   \A i \in 0 .. n - 1 : Sources(i, pcm, f.rate) \subseteq 0 .. pcm - 1

(* Through decoding and resampling the recording keeps its duration, up to  *)
(* one sample of the old and one of the new rate; so times found in it are  *)
(* times in the file (convertWAV, resample).                                *)
LengthIsTrue ==
    FromWAV =>
        LET f == request.file
        IN  DataSize * TargetRate - n * FrameSize * f.rate
                \in 0 .. FrameSize * (f.rate + TargetRate) - 1

(* Without a diarizer every sample is given to the recogniser exactly once  *)
(* and in order, whatever rate the client claimed and whichever of the two  *)
(* default chunk lengths applies (RecognizeChunked, processTask).           *)
EverySampleOnce ==
    heard # <<>> /\ ~diarize =>
        /\ heard[1].from = 0 /\ Last(heard).to = n
        /\ \A i \in 1 .. Len(heard) - 1 : heard[i].to = heard[i + 1].from
        /\ n > 0 => \A i \in DOMAIN heard : heard[i].from < heard[i].to

(* A slice never reaches outside of the recording, and a panic over an      *)
(* impossible one ends the process only if the native diarizer itself found *)
(* a segment that starts after the end of the samples it was given: neither *)
(* merging nor the rate makes one (ProcessWithASR, mergeAdjacentSegments).  *)
SlicesStayInside ==
    /\ \A i \in DOMAIN heard :
           heard[i].from \in 0 .. heard[i].to /\ heard[i].to <= n
    /\ at = "crashed" => \E i \in DOMAIN raw : raw[i].start * DiarRate > n * TicksPerSecond

-----------------------------------------------------------------------------
TooMany == config.maxSpeakers > 0 /\ Cardinality(Speakers(raw)) > config.maxSpeakers

(* The labels of the speakers that explain the answer. *)
Labellings ==
    {label \in IF TooMany THEN [Speakers(raw) -> 0 .. config.maxSpeakers - 1]
                          ELSE {[s \in Speakers(raw) |-> s]} :
        Explains(label, raw, segments)}

JustProcessed == raw # <<>> /\ heard = <<>>

(* Merging, relabelling and merging again (mergeAdjacentSegments,           *)
(* mergeSpeakersIfNeeded) is one pass with one label for each speaker: no   *)
(* speaker is split, no gap of half a second or more is closed, no segment  *)
(* starts or ends where none was found, and where the ends of a run are in  *)
(* order it is kept whole.  SpeechIsKept says what it would take otherwise. *)
SegmentsExplained == JustProcessed => Labellings # {}

(* If there are too many speakers, each label 0, 1, ... belongs to a main    *)
(* speaker; these come from the longest down and nobody else is longer than *)
(* the last of them, however equals are sorted and although the durations   *)
(* are those of segments already merged (mergeSpeakersIfNeeded).            *)
LongestSpeakersStay ==
    JustProcessed /\ TooMany =>
        LET total == Durations(MergeAdjacent(raw))
            last  == config.maxSpeakers - 1
        IN  \E label \in Labellings, main \in [0 .. last -> Speakers(raw)] :
                /\ \A l \in 0 .. last : label[main[l]] = l
                /\ \A l \in 1 .. last : total[main[l - 1]] >= total[main[l]]
                /\ \A s \in Speakers(raw) :
                       (\A l \in 0 .. last : s # main[l]) => total[s] <= total[main[last]]

-----------------------------------------------------------------------------
(* Who asks the diarization route for a diarization gets one: the pages     *)
(* send enable_diarization = 'true' with the file (static/index.html:803).  *)
DiarizationIsHonoured ==
    at = "process" /\ request.manager /\ request.diarize => diarize

(* Merging the neighbours of one speaker keeps what they say, as its name   *)
(* and comment promise (diarization.go:103): each segment found lies within *)
(* a segment of the answer.                                                 *)
SpeechIsKept ==
    JustProcessed =>
        \A i \in DOMAIN raw : \E k \in DOMAIN segments :
            segments[k].start <= raw[i].start /\ raw[i].end <= segments[k].end

(* Neighbouring chunks share samples, so that nothing is lost at a border   *)
(* (docs/PERFORMANCE_FIX.md:47).                                            *)
ChunksOverlap ==
    ~diarize => \A i \in 2 .. Len(heard) : heard[i].from < heard[i - 1].to
=============================================================================
