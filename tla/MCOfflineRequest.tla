-------------------------- MODULE MCOfflineRequest --------------------------
(* Small instances of OfflineRequest for TLC.  A second has four samples at *)
(* the target rate and four ticks.                                          *)
EXTENDS OfflineRequest

-----------------------------------------------------------------------------
(* Audio files.                                                             *)
Chunk(id, size) == [id |-> id, size |-> size]
NoFFmpeg == [runs |-> FALSE, bytes |-> 0]

WAV(chunks, bits, channels, hz) ==
    [magic |-> "RIFF", chunks |-> chunks, padded |-> FALSE, missing |-> 0,
     bits |-> bits, channels |-> channels, rate |-> hz, ffmpeg |-> NoFFmpeg]

Simple(size, bits, channels, hz) ==
    WAV(<<Chunk("fmt ", 16), Chunk("data", size)>>, bits, channels, hz)

(* n samples that need no resampling. *)
Recording(length) == Simple(2 * length, 16, 1, TargetRate)

Encoded(magic, runs, size) ==
    [Recording(0) EXCEPT !.magic = magic, !.ffmpeg = [runs |-> runs, bytes |-> size]]

(* Every width, number of channels and rate, with complete and incomplete   *)
(* frames and seconds.                                                      *)
Headers == {Simple(size, bits, channels, hz) :
               size \in {0, 1, 7, 24, 41}, bits \in {8, 16, 24, 32},
               channels \in 0 .. 3, hz \in {0, 2, 3, 4, 6, 12}}

(* Chunks before and after, odd ones with and without padding, a short or   *)
(* long fmt chunk, a missing chunk, a file that was cut.                    *)
Layouts ==
    {[WAV(chunks, 16, 1, TargetRate) EXCEPT !.padded = padded, !.missing = missing] :
        padded \in BOOLEAN, missing \in {0, 4, 50},
        chunks \in {before \o <<Chunk("fmt ", fmt)>> \o between \o data :
                       before  \in {<<>>, <<Chunk("LIST", 3)>>, <<Chunk("data", 4)>>},
                       fmt     \in {14, 16, 18},
                       between \in {<<>>, <<Chunk("LIST", 3)>>, <<Chunk("LIST", 4)>>},
                       data    \in {<<>>, <<Chunk("data", 24)>>, <<Chunk("data", 7), Chunk("LIST", 4)>>}}}

Others == {Encoded(magic, runs, size) :
              magic \in {"fLaC", "???"}, runs \in BOOLEAN, size \in {0, 1, 12}}

-----------------------------------------------------------------------------
(* Requests.                                                                *)
Ask(handler, manager, queue, hz, asked, file) ==
    [handler |-> handler, manager |-> manager, queue |-> queue, body |-> "json",
     readable |-> TRUE, mb |-> 1, rate |-> hz, diarize |-> asked, file |-> file]

(* Every way to ask, with a short recording. *)
AnyRequest ==
    {[handler |-> route.handler, manager |-> route.manager, queue |-> route.queue,
      body |-> body, readable |-> readable, mb |-> mb, rate |-> hz, diarize |-> asked,
      file |-> Recording(3)] :
        route \in Routes \cup Unrouted, body \in {"json", "form", "upload"},
        readable \in BOOLEAN, mb \in {1, 2, 51}, hz \in {-4, 0, 2, 4}, asked \in BOOLEAN}

(* Every file. *)
AnyFile == {Ask("async", FALSE, TRUE, 0, FALSE, f) : f \in Headers \cup Layouts \cup Others}

(* Every length around the limits, at every rate. *)
AnyLength == {Ask(handler, FALSE, queue, hz, FALSE, Recording(length)) :
                 handler \in {"async", "blocking"}, queue \in BOOLEAN,
                 hz \in {-4, 0, 1, 2, 4, 8}, length \in {0, 1, 4, 5, 8, 9, 12, 13, 16, 17, 25}}

(* Every diarization of six samples, in the worker and in the handlers, and *)
(* of seven, where more segments are found, without recognition.            *)
AnySpeech == {Ask(handler, TRUE, handler # "blocking", 0, TRUE, Recording(6)) :
                 handler \in {"async", "blocking", "diarization"}}
             \cup {Ask("diarization", TRUE, TRUE, 0, FALSE, Recording(7))}

(* What the pages send. *)
PageUploads ==
    {[Ask("async", TRUE, TRUE, 0, TRUE, Recording(length)) EXCEPT !.body = "upload"] : length \in {3, 6}}

AllRequests == AnyRequest \cup AnyFile \cup AnyLength \cup AnySpeech

AllConfigs == {[chunkSec |-> 0, maxSpeakers |-> 2, maxFileMB |-> 0],
               [chunkSec |-> 3, maxSpeakers |-> 0, maxFileMB |-> 1]}

-----------------------------------------------------------------------------
(* What the native diarizer finds: segments of three speakers, sorted by    *)
(* their start, that overlap, nest, touch, leave a gap of just half a       *)
(* second or less, end after the recording or even start there.             *)
SegmentsFound(ends, speakers) ==
    {s \in [start : {0, 2, 3, 7}, end : ends, speaker : speakers] : s.start <= s.end}

Sorted(k, found) ==
    {s \in [1 .. k -> found] : \A i \in 1 .. k - 1 : s[i].start <= s[i + 1].start}

MCFound(length) ==
    CASE length = 6 -> UNION {Sorted(k, SegmentsFound({1, 4, 5, 8}, 0 .. 2)) : k \in 0 .. 3}
      [] length = 7 -> Sorted(4, SegmentsFound({1, 4}, 0 .. 2))
      [] OTHER      -> UNION {Sorted(k, SegmentsFound({4}, {3})) : k \in 0 .. 2}

(* Nobody speaks twice at a time; only different speakers overlap.          *)
OwnVoices(length) ==
    {found \in MCFound(length) :
        \A i, j \in DOMAIN found :
            i < j /\ found[i].speaker = found[j].speaker => found[i].end <= found[j].start}
=============================================================================
