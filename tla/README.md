# TLA+ models of kws-server-server

kws-server-server is a Go service around the sherpa-onnx speech recogniser. It offers
streaming recognition over WebSocket, offline recognition over HTTP (long audio goes through a
bounded task queue), speaker diarization, and an administration page that lists tasks, workers
and sessions and can cancel tasks or close sessions. This directory holds TLA+ specifications
of its concurrent core, TLC configurations that check them, and TLAPS proofs.

## 1. The system

| Component | Source (`src/internal/…`) | State | Operations | Who uses it |
|---|---|---|---|---|
| Task queue | `asr/task_queue.go` | buffered channel, workers, task fields (status, error, result, times, context, result channel), task store, counters | NewASRTask, StoreTask, Submit, Wait, Complete, Cancel, CancelTask, SetStatus, cleanupLoop, Close, ListTasks, GetStats | offline handlers, admin handlers, server |
| Offline handlers | `handler/asr.go` | none (one goroutine per request) | HandleOfflineASRAsync, HandleASRTaskQuery, HandleOfflineASRWithQueue, HandleDiarization, HandleStats | HTTP clients |
| Offline recogniser | `asr/offline.go` | native recogniser behind one mutex, request counters | Recognize, RecognizeChunked, recognizeChunkWithCleanup, Close | workers, diarization |
| Streaming recogniser | `asr/streaming.go`, `handler/asr.go` | session table, active and total counters, one native stream per session | CreateSession, ProcessAudio, Reset, CloseSession, CloseSessionByAdmin, ListSessions, Close | WebSocket handlers, admin handlers |
| Diarization | `asr/diarization.go` | native diarizer behind a mutex, counters | Process, mergeAdjacentSegments, mergeSpeakersIfNeeded, ProcessWithASR, Close | workers |
| Punctuation | `asr/punctuation.go` | native model behind a mutex | AddPunctuation, Close | both recognisers |
| Administration | `handler/admin.go` | none | login, stats, list and cancel tasks, list and close sessions, workers | admin page |
| Audio conversion | `audio/converter.go` | none | ConvertToSamples, WAV decoding, resample, ffmpeg | offline handlers |
| Server | `server/server.go`, `main.go` | router, components, shutdown channel | NewServer, setupRoutes, Start, Stop | main |
| Request signature | `handler/signature.go` | none | signature middleware, timestamp window | router |
| Configuration, version, health | `config/config.go`, `version/version.go`, `handler/health.go` | none | LoadConfig, SetVersion, HandleHealth | everything |
| Pages and scripts | `static/*`, `scripts/*`, `Makefile` | browser state | polling, capability tests | people |

### How the parts interact

A request for offline recognition is one goroutine. It decodes the request, converts the audio to
16 kHz samples, builds a task (`NewASRTask`, with a context of 30 minutes) and hands it to the
queue over a buffered Go channel. A fixed number of workers receive from that channel; each runs
`RecognizeChunked` or, for diarization, `ProcessWithASR`, and calls `Complete`. The polled
interface (`HandleOfflineASRAsync`) stores the task first and answers with its ID; the caller then
polls `HandleASRTaskQuery`. The blocking interface (`HandleOfflineASRWithQueue`) calls `Wait`. It
is exported but no route uses it at this commit; it is modelled because it is what `Wait`, the
result channel and the context exist for. A collector goroutine empties the store of old tasks.
Administrators cancel tasks by ID through the store.

`RecognizeChunked` starts a pool of goroutines of its own for each call. All of them, and all other
calls on the recogniser, share one mutex.

A streaming client is one WebSocket connection and one goroutine, which creates a session, feeds
it audio, and closes it with a deferred call. The session table belongs to the manager and is
protected by the manager's mutex; decoding is protected by a mutex of the session that nobody but
the handler takes. An administrator can close a session by ID under the manager's mutex.

`Server.Stop` closes the queue and then the managers. `Start` calls it after waiting for a channel
that no code closes, so at this commit the process ends by a signal and the Close methods are only
reached from tests. They are modelled, behind the constant `AllowClose`, because they are the
components' own promise.

### What is hard

- Tasks: cancellation, the worker, the collector and the caller touch the same fields at different
  times; the caller of `Wait` selects between two channels that become ready one after the other.
- The channel: a send with a timeout at capacity, and closing it under parked senders.
- Counters that are updated apart from the state they count.
- Streaming: two mutexes that protect the same native object, and three parties who may close it.
- Chunks: a deadline that goroutines notice one by one, and failures that are mixed with silence.
- Queries: a response, or a row of a listing, is put together from several unlocked looks at a task
  that goes on meanwhile.
- From bytes to slices: sizes in headers, rates of the file, of the converter and of the client, two
  default chunk lengths, times found by a native library; all of it arithmetic at boundaries, whose
  panics end the process when they happen in a worker.

`PROJECT.json` lists these as hazards, each at its line, with the properties that cover it or the
reason why none does yet.

### What makes each part correct

- Task queue: an accepted task is run exactly once and its result never changes; a refused one is
  never run; a caller gets the task's result or a true timeout; the counters match; the collector
  removes only what is over; Close returns.
- Chunked recognition: chunks are neither lost nor doubled on their way; a chunk is missing from
  the text only for a stated reason; the call returns after its last goroutine.
- Streaming: table, native streams and counter agree; a stream is deleted once and not used after;
  slots come back; the client can rely on segment numbers and final texts.
- Diarization: no speaker is split and no speech moved by merging; the longest speakers keep labels
  of their own; slices stay inside the recording.
- Audio conversion: no reads outside of the data; the recording keeps its duration.
- Offline requests: every sample is recognised once; the client gets the recognition it asked for.
- Query: a response that says "completed" is whole, and responses never go backwards.

## 2. Modules

| Module | Models | Status |
|---|---|---|
| `TaskQueue` | queue, workers, handlers, administrator, collector, Close | done |
| `TaskService` | abstract line of service that `TaskQueue` implements | done |
| `SequenceFacts` | lemmas about sequences: no repetition, cutting and joining, induction by appending | done |
| `TaskQueueProofs` | theorems about `TaskQueue` | done |
| `TaskServiceProofs` | the refinement of `TaskService` by `TaskQueue`, and its counters | done |
| `StreamingASR` | session table, WebSocket handlers, administrator, Close | done |
| `StreamingASRProofs` | theorems about `StreamingASR` | done |
| `ChunkedRecognition` | one call of `RecognizeChunked` with its pool and deadline | done |
| `ChunkedRecognitionProofs` | theorems about `ChunkedRecognition` | done |
| `MCTaskQueue`, `MCStreamingASR`, `MCChunkedRecognition` | small instances for TLC | done |
| `TaskQuery` | `HandleASRTaskQuery`, `ListTasks` and the progress callback, read by read, around `TaskQueue` (EXTENDS it) | done |
| `TaskQueryProofs` | theorems about `TaskQuery` | done |
| `AudioConversion` | the converter as operators on lengths, offsets and rates | done |
| `Diarization` | the merging algorithms and the slicing as operators | done |
| `DiarizationProofs` | what these algorithms compute for every list of segments | done |
| `OfflineRequest` | one request through the three offline handlers to the slices the recogniser hears (EXTENDS `AudioConversion` and `Diarization`) | done |
| `OfflineRequestProofs` | theorems about `OfflineRequest` and the conversion | done |
| `MCTaskQuery`, `MCOfflineRequest` | small instances for TLC | done |

The order followed the risk: the queue first, since every offline request goes through it, then the
two components with goroutines of their own, then composition (`TaskQuery` on top of `TaskQueue`),
then the sequential algorithms and the request that joins them. The proofs followed the same order:
every safety invariant, every action property and the refinement of the passing runs is proved
(section 4). What remains to do is listed at the end of that section.

### TaskQueue

| Variables | Code |
|---|---|
| `status`, `error`, `result`, `completeTime`, `ctx`, `resultChan` | fields of `ASRTask` |
| `queue`, `sendq` | buffer of the channel `TaskQueue.queue` and the senders parked on it |
| `taskStore`, `stats` | the store and the atomic counters |
| `closer` | progress of `Close` |
| `handler`, `reply` | where a request's goroutine is in `Submit` or `Wait`, and what `Wait` returned |
| `wpc`, `wtask`, `wres` | where a worker is in `run` and `processTask`, its task and result |
| `cancelling` | tasks found by `CancelTask` and not yet passed to `Cancel` |
| `cleaner`, `todo`, `candidate` | the collector's pass |

`CountSubmission`, `Send`, `Park`, `GiveUp` and `SendOnClosed` are the steps and outcomes of
`Submit`; `WaitTakesResult`, `WaitTakesDone`, `WaitParks` and `Expire` those of `Wait`; `Take` to
`Retire` are a worker's pass through `run` and `processTask`, among them `Record`, `Deliver` and
`Release`, the record, the send and the `cancel()` of `Complete`; `FindToCancel` and `Cancel` are the
two halves of `CancelTask`; `StartPass` to `EndPass` the collector; `CloseShutdown`, `CloseQueue`
and `CloseReturn` the three statements of `Close`.

The channel has the semantics of the Go runtime: parked senders are served in order, a receive
moves the first of them into the buffer, closing makes them panic (gin recovers the handler's
panic, so the request ends and the counter keeps it). A `select` takes any ready case. A critical
section of a task's mutex is one step, except that of `Complete`: `Wait` takes no mutex, and can look
at its two channels, or expire, between any two of its three steps. Who wants the mutex meanwhile
(`SetStatus`, `Cancel`, the collector, a query) is held up by `Locked`. The collector reads
`CompleteTime` without the mutex: it sees the old value or the new one.

### StreamingASR

`sessions`, `activeSessions`, `totalSessions` and `managerOpen` are the manager; `stream[c]` is
the native stream of connection `c`, and `deletions[c]` counts the calls that deleted it, whoever made
them; `pc`, `result`, `segmentIdx` and `lastText` are the handler's local state; `log` is what it
wrote to the client: partial results, final results, and the notices ("Connected", "Session reset",
"Session stopped"), which are of type `result` as well but have neither endpoint nor number.
`ProcessAudio` and `Reset` begin and end in different steps because they do not hold the manager's
mutex, so that deletions fall in between; a `Reset` that follows an endpoint (`resetting`) or a
client's wish (`restarting`). A native call on a deleted object may crash the process (`Crash`, after
which nothing happens) or return like any other: both are in the model. `gone` says that a
connection has no more messages to read.

### ChunkedRecognition

`workChan`, `resultChan` and the two flags are the channels; `pc`, `chunk` and `outcome` the pool;
`mutex` the manager's mutex, which `Other`, any other call on the manager, also takes; `results`,
`completed`, `failed` and `answer` the caller. `decoded` is a history variable: what the recogniser
said of each chunk. The properties compare it with the answer.

### TaskQuery

`chunks[t]` are `TotalChunks` and `DoneChunks`, which the callback in `processTask` stores one after
the other (`StoreTotal`, `StoreDone`). `poll[t]` is a query under way with the response it has so
far, `seen[t]` the last response the client got, `list` the administrator's listing with its current
row. `FindTask` is `GetTask`; `ReportStatus`, `ReportProgress`, `ReportText`, `CheckFailed` and
`ReportError` are the looks at the task in the order of the handler, `GetProgress` one look at the
status and two atomic reads. `StartListing` to `EndListing` are `ListTasks`, which holds the store's
read lock from beginning to end, so that nothing is stored or collected meanwhile. `QueueStep` is
`TaskQueue!Next`; recognition does not return in the middle of a callback, but it may return before
all chunks are reported.
One bound is on behaviour: a listing does not begin while a query is under way and the other way
round. Readers change nothing that another reader looks at, so nothing is lost by it.

### AudioConversion, Diarization, OfflineRequest

A file in `AudioConversion` is a list of RIFF chunks with their sizes, the fields of the `fmt`
chunk, whether odd chunks are padded, how many bytes the file is short, or what FFmpeg would make of
it. `ConvertToSamples` answers with a number of samples, an error or a panic; `SampleByte` and
`Sources` say which byte and which old samples a sample comes from. Divisions of floats are exact.

`Diarization` has one operator for each algorithm of `diarization.go`. The speakers to keep are
listed in the order of a Go map before they are sorted, so that `Rankings`, and therefore `Process`,
is a set of possible answers. Times are whole ticks. `InOrder` is what the native result promises.
`Explains` is not code but the promise of merging: each segment of the answer is a run of neighbours
with one label, begins where the run does, ends where one of the run's segments does, and holds the
whole run if the ends are in order. If they are not, the code ends the run with its last segment, also
where an earlier one goes on; that is finding 5, and `Explains` does not call it right.

`OfflineRequest` has one request. `request` is what the client sent and which handler, manager and
queue its route has (`Routes`); `rate`, `diarize` and `n` are `req.SampleRate`,
`req.EnableDiarization` and `len(samples)`, later the task's fields; `at` and `runner` are the next
step and who takes it; `raw` and `segments` what the native diarizer found and what `Process` made of
it; `heard` the slices given to the recogniser; `status` and `result` the outcome; `stats` the
recogniser's counters. `Refuse...`, `Receive` and `RefuseAudio`, `Convert` are the first half of each
handler, `QueueFull`, `SubmitAsync`, `SubmitBlocking`, `ProcessDirectly` and `ProcessSegments` the
decision who recognises; `Diarise`, `RecognizeSegment`, `ImpossibleSlice` and `AllSegments` are
`ProcessWithASR`; `RecognizeWhole` and `RecognizeChunked` the plain recognition. A panic in a handler
is answered with 500 by gin's recovery; in a worker it ends the process (`crashed`). How long a task
waits and how the pool works on chunks is the matter of `TaskQueue` and `ChunkedRecognition`.

## 3. Runs

| Run | Instance | What it shows |
|---|---|---|
| `task_queue_core` | 3 blocking requests, 2 workers, capacity 1, Close at any moment | types, one place per task, agreement of places, nothing refused is run, true answers, parked waits are answered, exact counters, `TaskService` is implemented, also when the channel is closed under parked senders |
| `task_queue_live` | 1 polled and 1 blocking request, 1 worker, capacity 1, administrator, collector, Close | nothing accepted is lost, final results, careful collection; accepted tasks are run, requests answered, Close returns, finished tasks collected |
| `task_queue_cancelled` | 2 requests, 1 worker | finding: a cancelled task is put back to processing |
| `task_query` | 1 polled task of 2 chunks, 1 worker, its client, the administrator's listing and cancellation, the collector; deadlock checked | whole responses, no way back, polling ends |
| `streaming_sessions` | 2 connections, 1 slot, 3 messages on one and none on the other, 2 texts, administrator, Close | the session ledger, single deletion, nothing left behind, slots come back, segment numbers and final texts |
| `streaming_deleted` | 1 connection, administrator | finding: a deleted stream is used |
| `chunked_core` | 3 chunks, 2 goroutines, another user of the mutex, a deadline at any moment | chunk ledger, missing chunks explained, nobody left, the call returns |
| `chunked_all_failed` | 2 chunks, 2 goroutines | finding: "all chunks failed" when one did |
| `offline_requests` | some 2,500 requests: every route, body and refusal; 1,000 WAV headers, layouts and other files; 11 lengths around the limits at 6 rates; 3 ways to diarize 6 samples with any of about 10,000 segment lists, and 7 samples with four segments; 2 configurations; deadlock checked | reads inside the data, durations kept, every sample once, slices inside, merging explained, the longest speakers stay |
| `diarization_upload` | uploads as the pages send them | finding: the wish for diarization is lost |
| `speech_is_kept` | the diarizations of `offline_requests`, without segments of one speaker that overlap each other | finding: merging drops speech |
| `chunks_overlap` | the lengths and rates of `offline_requests` | finding: chunks do not overlap |

**Why the bounds are enough.** In the queue, three requests with one place in the channel give a
buffered task, a parked one and one behind it, which is every relation two tasks in the channel can
have; two workers let two tasks run while a third waits. Only polled tasks are in the table, so
the administrator and the collector meet only these: `task_queue_live` lets handler, worker,
administrator and collector meet on one polled task beside a blocking one that takes its place in
the channel. A task is never at more than one worker, so one worker is enough there; safety is
proved for any number of tasks, workers and places. Every task is created once, so there is no
counter to bound. In streaming, two connections and one slot give a refusal, a handover of the slot, and a
deletion by each party; the ledger is proved for any number. Three messages, audio or reset, on one
connection give every order of a partial result, an endpoint with or without text, and a reset the
client asks for, with a second segment or the same text after it. The other connection sends no
message: it competes for the slot, is refused, deleted and closed beside the one that talks. `MaxMessages` is the only bound on
behaviour; the numbering is proved for any. Three chunks and two goroutines leave a chunk in
`workChan` when both goroutines quit, and let reports arrive out of order. Two chunks give a response
every pairing of an old and a new number.

In `offline_requests` time is scaled: a second has four samples and four ticks, half a second two,
and the limits of 30, 60 and 120 seconds are 1, 2 and 4, in the same proportion. The lengths lie
below, at and above each limit; sizes leave incomplete frames and seconds; rates divide the target
rate, are multiples of it or neither, zero and, for the client's claim, negative. The segment lists
overlap, nest, touch, leave a gap of just half a second, end after the recording or start there; three
speakers with a limit of two are the least for which somebody has to share a label, and four segments
the least for which a relabelled list merges a second time on both sides of a kept segment.

**Deadlock** is checked in `task_query` and in `task_queue_cancelled`, where the collector's ticker can
always run, and in `offline_requests`, where only a finished request or an ended process stops. It is
not checked where the system really stops: after Close, and when every client of the streaming server
has left. In `chunked_core` other users of the mutex can always step, so it is `CallReturns` that excludes a pool that waits for itself.

**Fairness.** Each goroutine that can run does run (weak fairness per handler, worker, collector
and closer); a native call returns; a timer fires (`Expire`, `GiveUp` within `SubmitStep`). Weak
fairness is what the Go scheduler gives, and a `select` with several ready cases needs no more
because each case makes progress. Three places have strong fairness. `Age`, an hour passing, is
disabled during a collector's pass in the model while time goes on in the code. `Lock` in
`ChunkedRecognition` competes with other users of the mutex, and Go's mutex is handed to a
goroutine that has waited for a millisecond. In `TaskQuery`, finding a task and the collector's pass
compete for the store's lock, which Go also hands to whoever waits; and the client polls again and
again, which is what `PollingEnds` is about. Elsewhere clients, administrators and the caller of Close are
not fair: nobody has to submit, to disconnect, to cancel or to close.

**Mutants.** Modules define `Mut...` operators next to the originals: a plausible slip in that
piece of code, such as a missing decrement, a wrong order or a forgotten guard. Each property of a
passing run has one that makes TLC find it violated.

### Findings

1. *Cancelled tasks run and come back* (`task_queue_cancelled`). `SetStatus` and `Complete`
   overwrite what `Cancel` wrote; the task may end as completed with the error of its
   cancellation.
2. *A closed session keeps using its stream* (`streaming_deleted`). `CloseSessionByAdmin` takes
   the manager's mutex, `ProcessAudio` the session's.
3. *"All chunks failed" when one did* (`chunked_all_failed`). The error is chosen when the joined
   text is empty and at least one chunk failed.
4. *An upload loses its wish for diarization* (`diarization_upload`). `HandleOfflineASRAsync` reads
   the form fields only when there is no file; both pages send `enable_diarization` with the file to
   the diarization route, which API_DOCS.md describes as telling speakers apart.
5. *Merging drops speech* (`speech_is_kept`). `mergeAdjacentSegments` takes the end of the later
   segment also when it is smaller. When two speakers were given one label, the second merge lets the
   interjection of one end the long segment of the other; what is said after it lies in no segment
   of the answer and is never recognised.
6. *Chunks do not overlap* (`chunks_overlap`). docs/PERFORMANCE_FIX.md:47 and 62 say that neighbouring
   chunks share a second so that nothing is lost at a border; `RecognizeChunked` cuts without overlap.
   `EverySampleOnce` states what it does: each sample is heard exactly once.

Observations that no run states as a violation. Most contradict no document; where a comment says
otherwise it is quoted:

- the collector can remove a cancelled task that a worker has since started (it takes a task that
  waited over an hour), which is why `CollectedIsSettled` allows for cancelled tasks;
- `CancelTask` returns nil, and the administrator reads success, also when the task completed first;
- a `Wait` that starts after `Complete` finds result and context ready and may report a timeout;
- a response can carry an error although the status it reports is not yet "failed", and a cancelled
  task may be "failed" without one; `CompletedIsWhole` is about completed tasks only;
- a partial text after the deadline of `RecognizeChunked` comes without an error, which
  `OnlyFailuresAreMissing` states as it is;
- samples are always converted to 16 kHz, but a `sample_rate` in the request stays in force for
  durations, chunk sizes, the diarizer (which refuses it) and the recogniser; the comment at asr.go:278
  says that the actual rate after conversion is used;
- the comment at offline.go:221 says that each worker has a lock of its own to reduce contention;
  all goroutines, and all other calls on the manager, share `m.mu` (offline.go:287), whose own comment
  says so. One chunk is recognised at a time, and the pool of `RecognizeChunked` gains nothing by its size;
- a task that `Submit` refused stays in the store, and in the administrator's list, as pending for good;
- `Close` may leave accepted tasks in the buffer, since a worker may see shutdown first; nobody runs
  them, and whoever waits for one gets a timeout after 30 minutes;
- the WebSocket notices are messages of type `result`, which API_DOCS.md describes as final texts; a
  client tells them apart by `is_endpoint` or the missing segment number;
- the padding byte of an odd RIFF chunk is not skipped, so such a file is refused; a data chunk's
  declared size is believed, so a truncated file ends in silence; AAC and WMA are listed as
  supported, but no magic bytes lead to WMA;
- the size limit holds for uploads to the recognition handlers only;
- the recogniser's counters count a diarized recording once per segment and a chunked one not at all.

## 4. Proofs

The theorems hold for any set of tasks and of requests, any finite sets of workers, goroutines and
connections, any capacity of at least one, any session limit, any number of chunks from two, any
configuration and whatever the native library returns. They use the named assumptions of the modules
and nothing else; TLC evaluates those assumptions in every run. Most say what a constant is (a number,
a finite set). Three say more, all in `OfflineRequest`: `RequestAssumption`, that a request is what
JSON, a form and a decoded header can hold and comes by one of the server's routes or by a handler
that is exported but not routed; `ConfigAssumption`, that the limits are integers, also senseless ones;
`FoundAssumption`, that the native diarizer's segments are sorted by their starts and do not end
before they start. Nothing in the code checks the last; the bounds of the slices rest on it.

| Property | Theorem | Module |
|---|---|---|
| `TaskQueue`: `TypeOK`, `OnePlace`, `Placement` | `TypeCorrect`, `TasksInOnePlace`, `PlacesAgree` | `TaskQueueProofs` |
| `RefusedNeverRuns`, `AcceptedNotLost` | `RefusedTasksNeverRun`, `AcceptedTasksAreNotLost` | `TaskQueueProofs` |
| `WaiterIsTold` (steps), `ReplyIsTrue` | `ParkedWaitIsAnswered`, `RepliesAreTrue` | `TaskQueueProofs` |
| `SettledIsFinal`, `CollectedIsSettled` (steps) | `ResultsAreFinal`, `CollectsOnlySettled` | `TaskQueueProofs` |
| `StatsLedger` | `CountersAreRight` | `TaskServiceProofs` |
| `ImplementsService` (refinement) | `QueueImplementsService` | `TaskServiceProofs` |
| `QueryTypeOK`, `CompletedIsWhole` | `QueryTypesCorrect`, `CompletedAnswersAreWhole` | `TaskQueryProofs` |
| `PollsMoveForward` (steps) | `ClientsSeeProgress` | `TaskQueryProofs` |
| `StreamingASR`: `TypeOK`, `SlotLedger`, `LeftIsClosed` | `TypeCorrect`, `SlotsAreCounted`, `ReturnedHoldsNothing` | `StreamingASRProofs` |
| `DeletedOnce` | `StreamsAreDeletedOnce` | `StreamingASRProofs` |
| `SegmentsAreNumbered`, `FinalWasShown` | `SegmentNumbersAreRight`, `FinalsAreAnnounced` | `StreamingASRProofs` |
| `ChunkedRecognition`: `TypeOK`, `ChunkLedger` | `TypeCorrect`, `ChunksAddUp` | `ChunkedRecognitionProofs` |
| `OnlyFailuresAreMissing`, `SilenceIsReal` | `TextsAreInPlace`, `SilenceIsTrue` | `ChunkedRecognitionProofs` |
| `NobodyIsLeft` | `AnswerComesLast` | `ChunkedRecognitionProofs` |
| `OfflineTypeOK`, `EverySampleOnce` | `RequestTypesCorrect`, `SamplesAreHeardOnce` | `OfflineRequestProofs` |
| `ReadsStayInside`, `LengthIsTrue` | `ReadsAreInside`, `LengthIsKept` | `OfflineRequestProofs` |
| `SlicesStayInside` | `SlicesAreInside` | `OfflineRequestProofs` |
| `SegmentsExplained`, `LongestSpeakersStay` | `AnswersAreExplained`, `MainSpeakersStay` | `OfflineRequestProofs` |

One more theorem, `StreamsAreSafeUnforced`, has no passing run of its own: `NoUseAfterDelete`, which
`streaming_deleted` violates, holds if no administrator closes a session and the manager is not
closed. It tells where the cause of finding 2 is, and where a correction has to be made.

**TaskQueue** (`TaskQueueProofs`). `IInv` is `TypeOK /\ OnePlace /\ Placement`. `OnePlace` alone is
not inductive: that `Send` puts a task into the channel only once follows from what the channel
says about its handler (`ChannelPlacement`), and that a worker does not receive what another holds
follows from `OnePlace` of the channel and the workers together. `TypeStep`, `OnePlaceStep` and
`PlacementStep` have one step per action. `AcceptedNotLost` is inductive relative to `IInv`, and so is
`ReplyIsTrue` together with what the result channel holds: the result of the task's one run, also
between its record and its delivery. `WaiterIsTold` rests on `WaitersAreEarly`: while a caller is
parked its context is live and its channel empty. `Deliver` wakes it, so that `Release`, which makes
the context done, finds nobody parked (`NobodyToWake`). For the collector the
invariant is `OnlySettledChosen`: what it chose some steps ago is settled and nothing can unsettle it.

**What the queue is to its users** (`TaskServiceProofs`). The line of `TaskService` is the buffer
followed by the parked senders, and what it serves are the tasks of the workers before `Complete`. That the
safe part of the line is served in order needs `SafePlaces`: senders are parked only beside a full
buffer, so that what moves up when a worker receives is the head of the parked ones. `ServiceStep` maps
each step of the queue to one of the service or to none. The counters are `Books`, the ledger with the
finiteness it needs: `Task` may be infinite, and only because finitely many requests were ever made do
the sets have a size that a step can change by one.

**TaskQuery** (`TaskQueryProofs`). The queue's own invariant, `IInv`, is carried over to the composed
specification: a reader's step leaves the queue alone, and a step of the queue is one of `TaskQueue`.
`ReadersInv` says that what a response says already is still true (`PollIsTrue`), that the last
response the client saw has not been overtaken backwards by the task or by the query under way
(`SeenIsTrue`), and the same of a row. It rests on what a task never takes back (`TasksMoveOn`): the
status "completed", its result, its place outside of the store, its number of chunks done.

**StreamingASR** (`StreamingASRProofs`). `SlotLedger` is not inductive: Close empties the table
and leaves the counter, so that the limit afterwards rests on `CounterBounds` (the table is never
larger than the counter, the counter never above the limit); and a new session adds one to the
table only because a handler that has not created its session has no stream (`NewIsFresh`).
`IInv` is the conjunction of these with `TypeOK` and `LeftIsClosed`. That a stream is deleted once
follows from `DeletionsCounted`: a stream has been deleted once if it is "deleted" and never otherwise,
and whoever deletes finds it in the table, where only live ones are. What a client reads is `LogInv`:
the log is good, the handler's number is that of the final results in it, and its last text, outside
of a reset, is the last message. `OneMessageMore` appends one message; `SentInOrder` the two of an
endpoint. Without forced closing `Owned` is inductive: a handler in its loop owns a stream that lives.

**ChunkedRecognition** (`ChunkedRecognitionProofs`). `IInv` has six parts. `Typing` leaves out the
bounds that only counting gives; `Places` says that no chunk is at two places, `Ledger` that
the places add up, so that a counter cannot exceed the number of chunks; `History` follows one
chunk from its place to what the recogniser said of it; `Ending` ties the end of the
goroutines, the closing of the channels and the answer to each other. A chunk can be missing without
having been looked at only if the deadline made a goroutine report it as failed or leave it, which is
why `Ending` has `LateSeen`: goroutines that quit have left a failure behind, so that an empty answer
without error cannot come of a deadline. The joined text is a recursive function; `JoinedTexts` is
induction over the number of chunks.

**Merging segments** (`DiarizationProofs`). `MergeAdjacent` is a loop, written as a recursive
function, and everything about it is induction over a list that grows by one segment (`MergeAppend`).
`TwoTurns` is the heart: two turns of the loop on segments that belong together do the same as one turn
on the two joined. From it, `MergeOnce`: merging, relabelling and merging again is relabelling
and merging once, although the first merge worked on the speakers found and the second on their new
numbers. `OnePass` shows that one merge is explained by one pass; together they give
`AnswerExplained`, whatever order the map had and however durations tie. The induction needs to know
where exactly a run ends in the code (`RunsExplain`); `RunsAreEnough` leaves of it what `Explains` promises. Merging also
keeps the order and invents no start (`MergingKeepsOrder`), which is why a slice that cannot be cut
is the native diarizer's doing alone.

**OfflineRequest** (`OfflineRequestProofs`). `RequestInv` follows the request: `Flow` (control, and
that a length is that of the converted file until the end), `StatsTypes`, `Speech` (the segments are
in order and start where found ones do), `Answered` (they are an answer of `Process`) and `Slices`. The arithmetic
is in lemmas of its own: whole frames, the length after resampling, source positions, the cover of a
recording by its chunks (`ChunksCover`), products and quotients with unknown factors. `MainSpeakersStay`
is about numbers going around: among the first `maxSpeakers` of a ranking no two share a label, and
the rest do not speak longer (`LongestFirst`).

**What the attempts showed.** Decoding by sample width was written with a CASE whose guards overlap,
for which TLA+ does not say which arm is taken, although the code's switch does; `DecodePCM`, and
`Finish` likewise, are IF and ELSE now. TLC takes the first arm that is true and could not notice.

**Induction.** The library's induction theorems take an operator as a parameter, which the installed
provers cannot instantiate. `SequenceFacts` states the two this project needs about sets instead:
`SetInduction`, a set of numbers with 0 and all successors is `Nat`, and `AppendInduction`, a set of
sequences with the empty one and all extensions is everything. With recursion written as recursive
functions on numbers that is enough for the loops of this code.

**Model-checked only.** The seven liveness properties: `AcceptedIsServed`, `RequestIsAnswered`,
`CloseReturns`, `SettledIsCollected`, `PollingEnds`, `SlotIsFreed`, `CallReturns`. Liveness under fairness rests on
`ENABLED`, which is out of the prover's reach. The six findings are counterexamples of TLC and need no proof.

**Left to do.** Theorems for the corrections that the findings suggest (a cancelled task that stays
failed, a text that says how many chunks failed), once the code has them.

## 5. Not modelled

Decoding of JSON, forms and base64 is one question, whether a request is readable, and the layout of
responses is left out; so are sample values and texts. Login and the request signature look at one
request and keep no state. Punctuation is one native call behind a mutex under which nothing else is
taken; it would be a step without effect. Configuration, version and health have no behaviour over
time. `Server.Start` and `Stop` are not modelled since Stop is not reached from main; of the server
only the routing of the offline handlers is. Statistics and listings other than `ListTasks` are single
reads. What the native library finds and returns is arbitrary in all models; what it does with an
empty slice, which nothing prevents, cannot be seen here. The pages are only quoted.
