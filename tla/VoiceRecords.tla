---------------------------- MODULE VoiceRecords ----------------------------
(***************************************************************************)
(* What stays of a phone call: the voice_sessions row, its transcript, its *)
(* summary and the Slack notification.                                     *)
(*   routers/voice.py          initiate_outbound_call, media_stream,       *)
(*                             _persist_session                            *)
(*   services/call_summary.py  summarize_and_notify                        *)
(*                                                                         *)
(* The endpoint that places an outbound call and the websocket that serves *)
(* it are two handlers, on any two pods, that meet in one row: call_sid is *)
(* unique.  A step is a transaction or a call to an outside service.       *)
(***************************************************************************)
EXTENDS Naturals, FiniteSets

CONSTANTS
  Outbound,         \* calls the API is asked to place
  Inbound,          \* calls that come in
  UnknownIncident,  \* calls whose incident_id names no incident
  Faults            \* whether the database, the model and the pods may fail

Calls == Outbound \cup Inbound

ASSUME RecordsAssumption ==
  /\ Outbound \cap Inbound = {}
  /\ UnknownIncident \subseteq Calls
  /\ Faults \in BOOLEAN

VARIABLES
  request,   \* request[c]: the POST /voice/outbound that places c
  stream,    \* stream[c]: the websocket handler of c
  spoken,    \* spoken[c]: the transcript of c has an entry
  found,     \* found[c]: whether _persist_session saw a row for c
  row,       \* row[c]: the voice_sessions row, NoRow before there is one
  notices    \* notices[c]: Slack messages about c

vars == <<request, stream, spoken, found, row, notices>>

NoRow == [direction |-> "none", status |-> "none", transcript |-> FALSE, summary |-> FALSE]

Row == [direction : {"none", "inbound", "outbound"}, status : {"none", "queued", "completed"},
        transcript : BOOLEAN, summary : BOOLEAN]

RequestState == {"new", "refused", "placed", "answered", "error_500"}
StreamState  == {"none", "open", "ended", "looked", "persisted", "summarized",
                 "closed", "lost", "dead"}

TypeOK ==
  /\ request \in [Calls -> RequestState]
  /\ stream  \in [Calls -> StreamState]
  /\ spoken  \in [Calls -> BOOLEAN]
  /\ found   \in [Calls -> BOOLEAN]
  /\ row     \in [Calls -> Row]
  /\ notices \in [Calls -> Nat]

Exists(c)       == row[c] # NoRow
Requested(c, s) == request' = [request EXCEPT ![c] = s]
Streams(c, s)   == stream' = [stream EXCEPT ![c] = s]

----------------------------------------------------------------------------
(* POST /voice/outbound. *)

\* client.calls.create, and only then the row.
PlaceCall(c) ==
  /\ request[c] = "new"
  /\ Requested(c, "placed") \/ Requested(c, "refused")
  /\ UNCHANGED <<stream, spoken, found, row, notices>>

\* Mutation: the row is written over whatever has the call_sid.
UpsertRow(c) ==
  /\ request[c] = "placed"
  /\ row' = [row EXCEPT ![c] = [NoRow EXCEPT !.direction = "outbound", !.status = "queued"]]
  /\ Requested(c, "answered")
  /\ UNCHANGED <<stream, spoken, found, notices>>

\* The unique call_sid and the reference to the incident are what the
\* database checks; a violation is an uncaught IntegrityError.
InsertOutboundRow(c) ==
  /\ request[c] = "placed"
  /\ ~Exists(c) /\ c \notin UnknownIncident
  /\ row' = [row EXCEPT ![c] = [NoRow EXCEPT !.direction = "outbound", !.status = "queued"]]
  /\ Requested(c, "answered")
  /\ UNCHANGED <<stream, spoken, found, notices>>

OutboundRowFails(c) ==
  /\ request[c] = "placed"
  /\ Exists(c) \/ c \in UnknownIncident \/ Faults
  /\ Requested(c, "error_500")
  /\ UNCHANGED <<stream, spoken, found, row, notices>>

----------------------------------------------------------------------------
(* The media stream. *)

\* Twilio dials as soon as the call is created, whatever becomes of the row.
MediaStream(c) ==
  /\ stream[c] = "none"
  /\ c \in Inbound \/ request[c] \in {"placed", "answered", "error_500"}
  /\ Streams(c, "open")
  /\ UNCHANGED <<request, spoken, found, row, notices>>

\* pipeline.run returns or raises; the transcript may be empty.
PipelineReturns(c) ==
  /\ stream[c] = "open"
  /\ Streams(c, "ended")
  /\ spoken' \in {spoken, [spoken EXCEPT ![c] = TRUE]}
  /\ UNCHANGED <<request, found, row, notices>>

\* _persist_session looks for a row with the call's sid.
FindSession(c) ==
  /\ stream[c] = "ended"
  /\ found' = [found EXCEPT ![c] = Exists(c)]
  /\ Streams(c, "looked")
  /\ UNCHANGED <<request, spoken, row, notices>>

UpdateSession(c) ==
  /\ stream[c] = "looked"
  /\ found[c]
  /\ row' = [row EXCEPT ![c].status = "completed", ![c].transcript = spoken[c]]
  /\ Streams(c, "persisted")
  /\ UNCHANGED <<request, spoken, found, notices>>

\* Mutation: call_sid is not unique, and the last row inserted is read.
InsertAnother(c) ==
  /\ stream[c] = "looked"
  /\ ~found[c] /\ c \notin UnknownIncident
  /\ row' = [row EXCEPT ![c] = [NoRow EXCEPT !.direction = "inbound", !.status = "completed",
                                             !.transcript = spoken[c]]]
  /\ Streams(c, "persisted")
  /\ UNCHANGED <<request, spoken, found, notices>>

InsertInboundRow(c) ==
  /\ stream[c] = "looked"
  /\ ~found[c] /\ ~Exists(c) /\ c \notin UnknownIncident
  /\ row' = [row EXCEPT ![c] = [NoRow EXCEPT !.direction = "inbound", !.status = "completed",
                                             !.transcript = spoken[c]]]
  /\ Streams(c, "persisted")
  /\ UNCHANGED <<request, spoken, found, notices>>

\* "Failed to persist voice session": the transaction is rolled back.
PersistFails(c) ==
  /\ stream[c] = "looked"
  /\ \/ Faults
     \/ ~found[c] /\ (Exists(c) \/ c \in UnknownIncident)
  /\ Streams(c, "lost")
  /\ UNCHANGED <<request, spoken, found, row, notices>>

----------------------------------------------------------------------------
(* summarize_and_notify, whose failures are not fatal. *)

\* No transcript, no text in it, no API key, or a failed commit.
NoSummary(c) ==
  /\ stream[c] = "persisted"
  /\ ~spoken[c] \/ Faults
  /\ Streams(c, "closed")
  /\ UNCHANGED <<request, spoken, found, row, notices>>

\* Mutation: Slack hears of the summary before it is stored.
NotifyFirst(c) ==
  /\ stream[c] = "persisted"
  /\ spoken[c]
  /\ notices' = [notices EXCEPT ![c] = @ + 1]
  /\ Streams(c, "summarized")
  /\ UNCHANGED <<request, spoken, found, row>>

\* The summary, or the default one if the model failed, is committed.
StoreSummary(c) ==
  /\ stream[c] = "persisted"
  /\ spoken[c]
  /\ row' = [row EXCEPT ![c].summary = TRUE]
  /\ Streams(c, "summarized")
  /\ UNCHANGED <<request, spoken, found, notices>>

SendSummaryNotification(c) ==
  /\ stream[c] = "summarized"
  /\ notices' \in {notices, [notices EXCEPT ![c] = @ + 1]}
  /\ Streams(c, "closed")
  /\ UNCHANGED <<request, spoken, found, row>>

\* The pod dies during the call or while it is being recorded.
PodDies(c) ==
  /\ Faults
  /\ stream[c] \in {"open", "ended", "looked", "persisted", "summarized"}
  /\ Streams(c, "dead")
  /\ UNCHANGED <<request, spoken, found, row, notices>>

----------------------------------------------------------------------------
Init ==
  /\ request = [c \in Calls |-> "new"]
  /\ stream = [c \in Calls |-> "none"]
  /\ spoken = [c \in Calls |-> FALSE]
  /\ found = [c \in Calls |-> FALSE]
  /\ row = [c \in Calls |-> NoRow]
  /\ notices = [c \in Calls |-> 0]

Place(c) == PlaceCall(c) \/ InsertOutboundRow(c) \/ OutboundRowFails(c)

PersistSession(c) ==
  \/ FindSession(c)
  \/ UpdateSession(c) \/ InsertInboundRow(c) \/ PersistFails(c)
  \/ NoSummary(c) \/ StoreSummary(c) \/ SendSummaryNotification(c)

Next ==
  \/ \E c \in Outbound : Place(c)
  \/ \E c \in Calls : MediaStream(c) \/ PipelineReturns(c) \/ PersistSession(c) \/ PodDies(c)

Spec == Init /\ [][Next]_vars

----------------------------------------------------------------------------
(* Properties. *)

Recorded(c) == stream[c] \in {"persisted", "summarized", "closed"}

\* What was said survives whatever happens to the summary and to Slack, and
\* nobody is told of a summary that is not stored.
TranscriptOutlivesSummary ==
  \A c \in Calls :
    /\ Recorded(c) => row[c].status = "completed" /\ row[c].transcript = spoken[c]
    /\ notices[c] > 0 => row[c].summary /\ row[c].transcript

\* An outbound call the API has answered for stays on record as that, though
\* the websocket of the call may have looked for its row before it was there.
AnsweredIsOutbound ==
  \A c \in Outbound : request[c] = "answered" => row[c].direction = "outbound"

\* The two handlers that write a row never undo each other: once recorded, a
\* call keeps its direction, its transcript and its completion.
RecordedForGood ==
  [][\A c \in Calls : row[c].status = "completed" =>
        /\ row'[c].status = "completed"
        /\ row'[c].direction = row[c].direction
        /\ row'[c].transcript = row[c].transcript]_vars

=============================================================================
