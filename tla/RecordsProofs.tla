---------------------------- MODULE RecordsProofs ----------------------------
(***************************************************************************)
(* What stays of a phone call, for any set of calls, whichever handler     *)
(* comes first to the row of a call and whatever fails or dies on the way. *)
(***************************************************************************)
EXTENDS VoiceRecords, TLAPS

\* How far the websocket's handler has come says what the row must hold: it is
\* completed only by that handler, once, and then with what was said.
StreamShape ==
  \A c \in Calls :
    /\ stream[c] \in {"none", "open", "ended", "looked"} => row[c].status # "completed"
    /\ Recorded(c) => row[c].status = "completed" /\ row[c].transcript = spoken[c]
    /\ stream[c] = "summarized" => spoken[c] /\ row[c].summary
    /\ notices[c] > 0 =>
         row[c].status = "completed" /\ row[c].summary /\ row[c].transcript

RInv == TypeOK /\ StreamShape /\ AnsweredIsOutbound

LEMMA InitRInv == Init => RInv
BY RecordsAssumption DEF Init, RInv, TypeOK, StreamShape, AnsweredIsOutbound, Recorded, NoRow, Row,
   RequestState, StreamState, Calls

\* What a step may do to the row of a call that is on record.
KeepsRecord(c) ==
  row[c].status = "completed" =>
    /\ row'[c].status = "completed"
    /\ row'[c].direction = row[c].direction
    /\ row'[c].transcript = row[c].transcript

\* The endpoint that places the call writes a row only where there is none.
LEMMA PlaceRInv ==
  ASSUME RInv, NEW c \in Outbound, Place(c)
  PROVE  RInv' /\ \A d \in Calls : KeepsRecord(d)
<1> USE RecordsAssumption DEF RInv, TypeOK, StreamShape, AnsweredIsOutbound, Recorded,
        RequestState, Row, Calls, Requested, KeepsRecord
<1>1. CASE PlaceCall(c)
  BY <1>1 DEF PlaceCall
<1>2. CASE InsertOutboundRow(c)
  <2>1. row[c].status = "none" /\ ~row[c].summary
    BY <1>2 DEF InsertOutboundRow, Exists, NoRow
  <2> DEFINE new == [NoRow EXCEPT !.direction = "outbound", !.status = "queued"]
  <2>2. /\ new \in Row
        /\ new.direction = "outbound" /\ new.status = "queued"
        /\ new.transcript = FALSE /\ new.summary = FALSE
    <3>1. NoRow \in Row
      BY DEF NoRow
    <3>2. /\ DOMAIN NoRow = {"direction", "status", "transcript", "summary"}
          /\ NoRow.transcript = FALSE /\ NoRow.summary = FALSE
      BY DEF NoRow
    <3> QED BY <3>1, <3>2
  <2>3. /\ row' \in [Calls -> Row]
        /\ row'[c] = new
        /\ \A d \in Calls \ {c} : row'[d] = row[d]
    <3>1. row' = [row EXCEPT ![c] = new]
      BY <1>2 DEF InsertOutboundRow
    <3> HIDE DEF new, Row
    <3> QED BY <2>2, <3>1
  <2>4. UNCHANGED <<stream, spoken, found, notices>> /\ request' = [request EXCEPT ![c] = "answered"]
    BY <1>2 DEF InsertOutboundRow
  <2> HIDE DEF new
  <2>5. TypeOK'
    BY <2>3, <2>4
  <2>6. StreamShape'
    BY <2>1, <2>2, <2>3, <2>4
  <2>7. AnsweredIsOutbound' /\ \A d \in Calls : KeepsRecord(d)
    BY <2>1, <2>2, <2>3, <2>4
  <2> QED BY <2>5, <2>6, <2>7
<1>3. CASE OutboundRowFails(c)
  BY <1>3 DEF OutboundRowFails
<1> QED BY <1>1, <1>2, <1>3 DEF Place

\* The websocket's handler up to the end of the call.
LEMMA StreamRInv ==
  ASSUME RInv, NEW c \in Calls, MediaStream(c) \/ PipelineReturns(c) \/ PodDies(c)
  PROVE  RInv' /\ \A d \in Calls : KeepsRecord(d)
<1> USE RecordsAssumption DEF RInv, TypeOK, StreamShape, AnsweredIsOutbound, Recorded,
        StreamState, Calls, Streams, KeepsRecord
<1>1. CASE MediaStream(c)
  BY <1>1 DEF MediaStream
<1>2. CASE PipelineReturns(c)
  BY <1>2 DEF PipelineReturns
<1>3. CASE PodDies(c)
  BY <1>3 DEF PodDies
<1> QED BY <1>1, <1>2, <1>3

\* The record of the call, then its summary, then the notice.
LEMMA PersistRInv ==
  ASSUME RInv, NEW c \in Calls, PersistSession(c)
  PROVE  RInv' /\ \A d \in Calls : KeepsRecord(d)
<1> USE RecordsAssumption DEF RInv, TypeOK, StreamShape, AnsweredIsOutbound, Recorded,
        StreamState, Row, Calls, Streams, KeepsRecord
<1>1. CASE FindSession(c)
  BY <1>1 DEF FindSession, Exists
<1>2. CASE UpdateSession(c)
  <2>1. /\ stream[c] = "looked" /\ stream' = [stream EXCEPT ![c] = "persisted"]
        /\ UNCHANGED <<request, spoken, found, notices>>
        /\ row' = [row EXCEPT ![c].status = "completed", ![c].transcript = spoken[c]]
    BY <1>2 DEF UpdateSession
  <2>2. /\ row'[c].status = "completed" /\ row'[c].transcript = spoken[c]
        /\ row'[c].direction = row[c].direction /\ row'[c].summary = row[c].summary
        /\ row'[c] \in Row
        /\ \A d \in Calls \ {c} : row'[d] = row[d]
    BY <2>1
  <2>3. TypeOK'
    BY <2>1, <2>2
  <2>4. StreamShape'
    BY <2>1, <2>2
  <2>5. AnsweredIsOutbound' /\ \A d \in Calls : KeepsRecord(d)
    BY <2>1, <2>2
  <2> QED BY <2>3, <2>4, <2>5
<1>3. CASE InsertInboundRow(c)
  <2>1. row[c].status = "none" /\ ~row[c].summary /\ row[c].direction = "none"
    BY <1>3 DEF InsertInboundRow, Exists, NoRow
  <2> DEFINE new == [NoRow EXCEPT !.direction = "inbound", !.status = "completed",
                              !.transcript = spoken[c]]
  <2>2. /\ new \in Row
        /\ new.direction = "inbound" /\ new.status = "completed"
        /\ new.transcript = spoken[c] /\ new.summary = FALSE
    <3>1. NoRow \in Row
      BY DEF NoRow
    <3>2. /\ DOMAIN NoRow = {"direction", "status", "transcript", "summary"}
          /\ NoRow.transcript = FALSE /\ NoRow.summary = FALSE
      BY DEF NoRow
    <3> QED BY <3>1, <3>2
  <2>3. /\ row' \in [Calls -> Row]
        /\ row'[c] = new
        /\ \A d \in Calls \ {c} : row'[d] = row[d]
    <3>1. row' = [row EXCEPT ![c] = new]
      BY <1>3 DEF InsertInboundRow
    <3> HIDE DEF new, Row
    <3> QED BY <2>2, <3>1
  <2>4. /\ UNCHANGED <<request, spoken, found, notices>>
        /\ stream[c] = "looked" /\ stream' = [stream EXCEPT ![c] = "persisted"]
    BY <1>3 DEF InsertInboundRow
  <2> HIDE DEF new
  <2>5. TypeOK'
    BY <2>3, <2>4
  <2>6. StreamShape'
    BY <2>1, <2>2, <2>3, <2>4
  <2>7. AnsweredIsOutbound' /\ \A d \in Calls : KeepsRecord(d)
    BY <2>1, <2>2, <2>3, <2>4
  <2> QED BY <2>5, <2>6, <2>7
<1>4. CASE PersistFails(c)
  BY <1>4 DEF PersistFails
<1>5. CASE NoSummary(c)
  BY <1>5 DEF NoSummary
<1>6. CASE StoreSummary(c)
  <2>1. /\ stream[c] = "persisted" /\ stream' = [stream EXCEPT ![c] = "summarized"]
        /\ spoken[c]
        /\ UNCHANGED <<request, spoken, found, notices>>
        /\ row' = [row EXCEPT ![c].summary = TRUE]
    BY <1>6 DEF StoreSummary
  <2>2. /\ row'[c].summary = TRUE
        /\ row'[c].status = row[c].status /\ row'[c].transcript = row[c].transcript
        /\ row'[c].direction = row[c].direction
        /\ row'[c] \in Row
        /\ \A d \in Calls \ {c} : row'[d] = row[d]
    BY <2>1
  <2>3. TypeOK'
    BY <2>1, <2>2
  <2>4. StreamShape'
    BY <2>1, <2>2
  <2>5. AnsweredIsOutbound' /\ \A d \in Calls : KeepsRecord(d)
    BY <2>1, <2>2
  <2> QED BY <2>3, <2>4, <2>5
<1>7. CASE SendSummaryNotification(c)
  BY <1>7 DEF SendSummaryNotification
<1> QED BY <1>1, <1>2, <1>3, <1>4, <1>5, <1>6, <1>7 DEF PersistSession

LEMMA StepRInv ==
  ASSUME RInv, [Next]_vars
  PROVE  RInv' /\ \A d \in Calls : KeepsRecord(d)
<1>1. CASE Next
  BY <1>1, PlaceRInv, StreamRInv, PersistRInv DEF Next
<1>2. CASE UNCHANGED vars
  BY <1>2 DEF vars, RInv, TypeOK, StreamShape, AnsweredIsOutbound, Recorded, KeepsRecord
<1> QED BY <1>1, <1>2

\* The inductive invariant of a call's record.
THEOREM RecordsInvariant == Spec => []RInv
BY InitRInv, StepRInv, PTL DEF Spec

\* What was said is in the row from the commit on, and a notice goes out only
\* for a summary stored beside its transcript.
THEOREM TranscriptIsKept == Spec => []TranscriptOutlivesSummary
<1>1. RInv => TranscriptOutlivesSummary
  BY DEF RInv, StreamShape, TranscriptOutlivesSummary
<1> QED BY <1>1, RecordsInvariant, PTL

\* Whichever handler comes first, an outbound call answered for is on record as
\* outbound.
THEOREM OutboundIsRecorded == Spec => []AnsweredIsOutbound
<1>1. RInv => AnsweredIsOutbound
  BY DEF RInv
<1> QED BY <1>1, RecordsInvariant, PTL

\* Neither handler undoes a record the other has completed.
THEOREM RecordIsFinal == Spec => RecordedForGood
<1>1. RInv /\ [Next]_vars =>
        [\A c \in Calls : row[c].status = "completed" =>
           /\ row'[c].status = "completed"
           /\ row'[c].direction = row[c].direction
           /\ row'[c].transcript = row[c].transcript]_vars
  BY StepRInv DEF KeepsRecord
<1> QED BY <1>1, RecordsInvariant, PTL DEF Spec, RecordedForGood
=============================================================================
