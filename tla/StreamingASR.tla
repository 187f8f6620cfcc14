---------------------------- MODULE StreamingASR ----------------------------
(***************************************************************************)
(* Streaming recognition: the session table of StreamingASRManager         *)
(* (src/internal/asr/streaming.go), the WebSocket handlers that own the    *)
(* sessions (HandleStreamingASR, src/internal/handler/asr.go), the         *)
(* administrator who closes a session by ID, and the manager's Close.      *)
(*                                                                         *)
(* CreateSession, CloseSession, CloseSessionByAdmin and Close hold the     *)
(* manager's mutex and are one step each.  ProcessAudio and Reset hold     *)
(* only the session's mutex, which nobody else takes: they begin and end   *)
(* in different steps, and the table may change in between.                *)
(*                                                                         *)
(* A connection is also the name of its session (the code draws a UUID).   *)
(* The recogniser is outside src/: decoding returns any text and may       *)
(* report an endpoint.  Using a native stream or recogniser that was       *)
(* deleted is undefined: the process may crash, or the call returns like   *)
(* any other.                                                              *)
(***************************************************************************)
EXTENDS Integers, FiniteSets, Sequences

CONSTANTS Conn,          \* the WebSocket connections
          Text,          \* the non-empty texts the recogniser may return
          NoText,        \* the empty text
          MaxSessions,   \* max_streaming_sessions
          MaxMessages,   \* bound: audio and reset messages of each connection
          AllowAdmin,    \* whether the administrator closes sessions
          AllowClose     \* whether the manager is closed

ASSUME ConnAssumption == IsFiniteSet(Conn)
ASSUME TextAssumption == NoText \notin Text
ASSUME BoundAssumption == MaxSessions \in Nat /\ MaxMessages \in [Conn -> Nat]
ASSUME AllowAssumption == AllowAdmin \in BOOLEAN /\ AllowClose \in BOOLEAN

VARIABLES
    (* StreamingASRManager *)
    sessions,       \* the session table: connections whose session is in it
    activeSessions, \* the counter CreateSession compares with the limit
    totalSessions,  \* the counter of all sessions
    managerOpen,    \* FALSE once Close deleted the recogniser
    stream,         \* stream[c]: the native stream: "none", "live" or "deleted"
    deletions,      \* deletions[c]: calls of DeleteOnlineStream for it
    (* HandleStreamingASR *)
    pc,             \* pc[c]: where the handler is
    result,         \* result[c]: text and endpoint of the last ProcessAudio
    segmentIdx,     \* segmentIdx[c]
    lastText,       \* lastText[c]: the partial result sent last
    log,            \* log[c]: the messages of type partial and result sent
    (* the client and the process *)
    messages,       \* messages[c]: audio and reset messages read so far
    gone,           \* the connections whose messages have come to an end
    crashed         \* whether a deleted native object crashed the process

tableVars   == <<sessions, activeSessions, totalSessions, managerOpen, stream,
                 deletions>>
handlerVars == <<pc, result, segmentIdx, lastText, log>>
vars == <<sessions, activeSessions, totalSessions, managerOpen, stream, deletions,
          pc, result, segmentIdx, lastText, log, messages, gone, crashed>>

(* A handler resets its stream after an endpoint ("resetting") and when the *)
(* client asks for it ("restarting").                                       *)
HandlerPC == {"new", "refused", "reading", "decoding", "decoded",
              "resetting", "restarting", "leaving", "left"}

(* The handler is inside a call on its native stream. *)
UsingStream == {"decoding", "resetting", "restarting"}

(* "Connected ...", "Session reset" and "Session stopped" are of type       *)
(* result, but without endpoint and segment; their wording is left out.     *)
Notice == [type |-> "result", text |-> NoText, endpoint |-> FALSE, segment |-> 0]

(* A response of type partial or result. *)
Message == {Notice} \cup [type : {"partial", "result"}, text : Text,
                          endpoint : BOOLEAN, segment : Nat]

Result == [text : Text \cup {NoText}, endpoint : BOOLEAN]

NoResult == [text |-> NoText, endpoint |-> FALSE]

Init ==
    /\ sessions = {}
    /\ activeSessions = 0
    /\ totalSessions = 0
    /\ managerOpen = TRUE
    /\ stream     = [c \in Conn |-> "none"]
    /\ deletions  = [c \in Conn |-> 0]
    /\ pc         = [c \in Conn |-> "new"]
    /\ result     = [c \in Conn |-> NoResult]
    /\ segmentIdx = [c \in Conn |-> 0]
    /\ lastText   = [c \in Conn |-> NoText]
    /\ log        = [c \in Conn |-> <<>>]
    /\ messages   = [c \in Conn |-> 0]
    /\ gone = {}
    /\ crashed = FALSE

(* A crashed process takes no step. *)
At(c, place) == ~crashed /\ pc[c] = place

HandlerTo(c, place) == pc' = [pc EXCEPT ![c] = place]

Notify(c) == log' = [log EXCEPT ![c] = Append(@, Notice)]

-----------------------------------------------------------------------------
(* The session table *)

(* Mutant: the limit is compared with the next free number. *)
MutAtLimit == activeSessions > MaxSessions

AtLimit == activeSessions >= MaxSessions

(* CreateSession adds a session while the counter is below the limit; the   *)
(* handler welcomes the client.                                             *)
CreateSession(c) ==
    /\ At(c, "new")
    /\ ~AtLimit
    /\ sessions' = sessions \cup {c}
    /\ activeSessions' = activeSessions + 1
    /\ totalSessions' = totalSessions + 1
    /\ stream' = [stream EXCEPT ![c] = "live"]
    /\ HandlerTo(c, "reading")
    /\ Notify(c)
    /\ UNCHANGED <<managerOpen, deletions, result, segmentIdx, lastText, messages,
                   gone, crashed>>

(* CreateSession fails, at the limit or because there is no native stream;  *)
(* the handler reports it and returns.                                      *)
RefuseSession(c) ==
    /\ At(c, "new")
    /\ HandlerTo(c, "refused")
    /\ UNCHANGED <<tableVars, result, segmentIdx, lastText, log, messages, gone, crashed>>

(* DeleteOnlineStream for the streams of S. *)
Delete(S) ==
    /\ stream' = [c \in Conn |-> IF c \in S THEN "deleted" ELSE stream[c]]
    /\ deletions' = [c \in Conn |-> IF c \in S THEN deletions[c] + 1 ELSE deletions[c]]

(* Mutant: the deferred CloseSession is forgotten. *)
MutForgetSession(c) ==
    /\ At(c, "leaving")
    /\ HandlerTo(c, "left")
    /\ UNCHANGED <<tableVars, result, segmentIdx, lastText, log, messages, gone,
                   crashed>>

(* CloseSession, deferred by the handler: nothing when somebody else has    *)
(* removed the session from the table.                                      *)
CloseSession(c) ==
    /\ At(c, "leaving")
    /\ HandlerTo(c, "left")
    /\ IF c \in sessions
         THEN /\ Delete({c})
              /\ sessions' = sessions \ {c}
              /\ activeSessions' = activeSessions - 1
         ELSE UNCHANGED <<stream, deletions, sessions, activeSessions>>
    /\ UNCHANGED <<totalSessions, managerOpen, result, segmentIdx, lastText, log,
                   messages, gone, crashed>>

(* Mutant: the administrator leaves the session in the table. *)
MutCloseSessionByAdmin(c) ==
    /\ AllowAdmin
    /\ ~crashed
    /\ c \in sessions
    /\ Delete({c})
    /\ activeSessions' = activeSessions - 1
    /\ UNCHANGED <<sessions, totalSessions, managerOpen, handlerVars, messages, gone,
                   crashed>>

(* CloseSessionByAdmin deletes the stream under the handler's feet. *)
CloseSessionByAdmin(c) ==
    /\ AllowAdmin
    /\ ~crashed
    /\ c \in sessions
    /\ Delete({c})
    /\ sessions' = sessions \ {c}
    /\ activeSessions' = activeSessions - 1
    /\ UNCHANGED <<totalSessions, managerOpen, handlerVars, messages, gone, crashed>>

(* Close deletes every stream and the recogniser; the counter stays. *)
Close ==
    /\ AllowClose
    /\ ~crashed
    /\ managerOpen
    /\ managerOpen' = FALSE
    /\ Delete(sessions)
    /\ sessions' = {}
    /\ UNCHANGED <<activeSessions, totalSessions, handlerVars, messages, gone, crashed>>

-----------------------------------------------------------------------------
(* The handler's message loop *)

Count(c) ==
    /\ messages[c] < MaxMessages[c]
    /\ messages' = [messages EXCEPT ![c] = @ + 1]

(* An audio message: ProcessAudio begins. *)
ReadAudio(c) ==
    /\ At(c, "reading")
    /\ c \notin gone
    /\ Count(c)
    /\ HandlerTo(c, "decoding")
    /\ UNCHANGED <<tableVars, result, segmentIdx, lastText, log, gone, crashed>>

(* ProcessAudio returns a text, and whether it found an endpoint. *)
EndProcessAudio(c) ==
    /\ At(c, "decoding")
    /\ \E r \in Result : result' = [result EXCEPT ![c] = r]
    /\ HandlerTo(c, "decoded")
    /\ UNCHANGED <<tableVars, segmentIdx, lastText, log, messages, gone, crashed>>

(* The partial result for what ProcessAudio returned, if it says something  *)
(* new.                                                                     *)
Partials(c) ==
    IF result[c].text \notin {NoText, lastText[c]}
      THEN <<[type |-> "partial", text |-> result[c].text,
             endpoint |-> result[c].endpoint, segment |-> segmentIdx[c]]>>
      ELSE <<>>

(* Mutant: an endpoint without a text sends an empty final result. *)
MutFinals(c) ==
    IF result[c].endpoint
      THEN <<[type |-> "result", text |-> result[c].text,
             endpoint |-> TRUE, segment |-> segmentIdx[c] + 1]>>
      ELSE <<>>

(* The final result, when there is a text at an endpoint. *)
Finals(c) ==
    IF result[c].endpoint /\ result[c].text # NoText
      THEN <<[type |-> "result", text |-> result[c].text,
             endpoint |-> TRUE, segment |-> segmentIdx[c] + 1]>>
      ELSE <<>>

(* Mutant: every endpoint counts, with a text or without. *)
MutNextSegment(c) == segmentIdx[c] + (IF result[c].endpoint THEN 1 ELSE 0)

NextSegment(c) == segmentIdx[c] + Len(Finals(c))

(* The handler sends what is new; an endpoint makes it reset the stream. *)
SendResults(c) ==
    /\ At(c, "decoded")
    /\ log' = [log EXCEPT ![c] = @ \o Partials(c) \o Finals(c)]
    /\ segmentIdx' = [segmentIdx EXCEPT ![c] = NextSegment(c)]
    /\ lastText' = [lastText EXCEPT ![c] = IF result[c].text = NoText THEN @ ELSE result[c].text]
    /\ result' = [result EXCEPT ![c] = NoResult]
    /\ HandlerTo(c, IF result[c].endpoint THEN "resetting" ELSE "reading")
    /\ UNCHANGED <<tableVars, messages, gone, crashed>>

(* The control message "reset": the session's Reset begins. *)
ReadReset(c) ==
    /\ At(c, "reading")
    /\ c \notin gone
    /\ Count(c)
    /\ HandlerTo(c, "restarting")
    /\ UNCHANGED <<tableVars, result, segmentIdx, lastText, log, gone, crashed>>

(* Mutant: a reset asked for by the client keeps the last text. *)
MutStartOver(c) ==
    IF pc[c] = "resetting" THEN lastText' = [lastText EXCEPT ![c] = NoText]
                           ELSE UNCHANGED lastText

StartOver(c) == lastText' = [lastText EXCEPT ![c] = NoText]

(* Reset returns and the handler starts a new utterance, which it tells a   *)
(* client who asked for it.                                                 *)
EndReset(c) ==
    /\ At(c, "resetting") \/ At(c, "restarting")
    /\ StartOver(c)
    /\ IF pc[c] = "restarting" THEN Notify(c) ELSE UNCHANGED log
    /\ HandlerTo(c, "reading")
    /\ UNCHANGED <<tableVars, result, segmentIdx, messages, gone, crashed>>

(* The control message "stop": the handler says so and returns. *)
ReadStop(c) ==
    /\ At(c, "reading")
    /\ c \notin gone
    /\ Notify(c)
    /\ HandlerTo(c, "leaving")
    /\ UNCHANGED <<tableVars, result, segmentIdx, lastText, messages, gone, crashed>>

(* A message that does not parse ends the loop like a failed read. *)
ReadGarbage(c) ==
    /\ At(c, "reading")
    /\ c \notin gone
    /\ HandlerTo(c, "leaving")
    /\ UNCHANGED <<tableVars, result, segmentIdx, lastText, log, messages, gone, crashed>>

(* The read fails because the client went away: the loop ends. *)
ReadError(c) ==
    /\ At(c, "reading")
    /\ c \in gone
    /\ HandlerTo(c, "leaving")
    /\ UNCHANGED <<tableVars, result, segmentIdx, lastText, log, messages, gone, crashed>>

Disconnect(c) ==
    /\ ~crashed
    /\ c \notin gone
    /\ gone' = gone \cup {c}
    /\ UNCHANGED <<tableVars, handlerVars, messages, crashed>>

(* A native call on something deleted, from a handler inside ProcessAudio   *)
(* or Reset or from a CreateSession that comes after Close.                 *)
UsesDeleted(c) ==
    \/ pc[c] \in UsingStream /\ (stream[c] # "live" \/ ~managerOpen)
    \/ pc[c] = "new" /\ ~AtLimit /\ ~managerOpen

Crash ==
    /\ ~crashed
    /\ \E c \in Conn : UsesDeleted(c)
    /\ crashed' = TRUE
    /\ UNCHANGED <<tableVars, handlerVars, messages, gone>>

-----------------------------------------------------------------------------
HandlerStep(c) == \/ CreateSession(c) \/ RefuseSession(c) \/ CloseSession(c)
                  \/ EndProcessAudio(c) \/ SendResults(c) \/ EndReset(c)
                  \/ ReadError(c)

ClientStep(c) == \/ ReadAudio(c) \/ ReadReset(c) \/ ReadStop(c) \/ ReadGarbage(c)
                 \/ Disconnect(c)

Next == \/ \E c \in Conn : HandlerStep(c) \/ ClientStep(c) \/ CloseSessionByAdmin(c)
        \/ Close
        \/ Crash

Spec == Init /\ [][Next]_vars

(* A handler that is not waiting for its client runs on; native calls       *)
(* return.  Clients, the administrator and Close do as they please.         *)
FairSpec == Spec /\ \A c \in Conn : WF_vars(HandlerStep(c))

-----------------------------------------------------------------------------
(* Properties *)

(* Every variable keeps its type. *)
TypeOK ==
    /\ sessions \subseteq Conn
    /\ activeSessions \in Int
    /\ totalSessions \in Nat
    /\ managerOpen \in BOOLEAN
    /\ stream \in [Conn -> {"none", "live", "deleted"}]
    /\ deletions \in [Conn -> Nat]
    /\ pc \in [Conn -> HandlerPC]
    /\ result \in [Conn -> Result]
    /\ segmentIdx \in [Conn -> Nat]
    /\ lastText \in [Conn -> Text \cup {NoText}]
    /\ log \in [Conn -> Seq(Message)]
    /\ messages \in [Conn -> Nat]
    /\ gone \subseteq Conn
    /\ crashed \in BOOLEAN

(* The table, the native streams and the counter agree, whoever closes a    *)
(* session first: every stream that lives is in the table, and as long as   *)
(* the manager is open the counter is the size of the table and within the  *)
(* limit.                                                                   *)
SlotLedger ==
    /\ sessions = {c \in Conn : stream[c] = "live"}
    /\ managerOpen => activeSessions = Cardinality(sessions)
    /\ Cardinality(sessions) <= MaxSessions

(* No native stream is deleted twice, although its handler, the             *)
(* administrator, repeatedly, and Close may all try, in any order.          *)
DeletedOnce == \A c \in Conn : deletions[c] <= 1

(* A handler that returned has left nothing in the table. *)
LeftIsClosed ==
    \A c \in Conn : pc[c] \in {"new", "refused", "left"} => c \notin sessions

(* A client tells a final result from a notice by the endpoint. *)
IsFinal(m) == m.type = "result" /\ m.endpoint

(* The messages of l before position i that announce a final result. *)
FinalsBefore(l, i) == {j \in 1 .. i - 1 : IsFinal(l[j])}

(* The client can count on the segment numbers: final results are numbered  *)
(* 1, 2, ... without a gap, and a partial result carries the number of      *)
(* final results before it, whatever the client resets in between.          *)
SegmentsAreNumbered ==
    \A c \in Conn : \A i \in 1 .. Len(log[c]) : log[c][i] # Notice =>
        log[c][i].segment = Cardinality(FinalsBefore(log[c], i))
                              + (IF IsFinal(log[c][i]) THEN 1 ELSE 0)

(* A final result never surprises the client: the message before it, with   *)
(* no reset in between, is a partial result with the same text.             *)
FinalWasShown ==
    \A c \in Conn : \A i \in 1 .. Len(log[c]) :
        IsFinal(log[c][i]) =>
            /\ i > 1
            /\ log[c][i - 1].type = "partial"
            /\ log[c][i - 1].text = log[c][i].text

(* The session of a client that went away leaves the table. *)
SlotIsFreed ==
    \A c \in Conn : c \in gone /\ c \in sessions ~> c \notin sessions \/ crashed

(* "Force-close the given session" (streaming.go): a closed session's       *)
(* native stream is not used any more.                                      *)
NoUseAfterDelete ==
    \A c \in Conn : pc[c] \in UsingStream => stream[c] = "live"
=============================================================================
