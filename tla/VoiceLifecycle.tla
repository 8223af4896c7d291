--------------------------- MODULE VoiceLifecycle ---------------------------
(***************************************************************************)
(* One phone call on the pod that owns it: services/voice_pipeline.py.     *)
(*                                                                         *)
(* Everything runs in one asyncio event loop, so the steps are what the    *)
(* code does between two awaits.  The coroutines are VoicePipelineSession. *)
(* run, the session's heartbeat loop, and any number of handlers: tool     *)
(* calls of the model, HTTP commands, callbacks of the pipeline.           *)
(***************************************************************************)
EXTENDS Naturals, FiniteSets

CONSTANTS
  Handlers,     \* coroutines other than run and the heartbeat loop
  Objectives,   \* the flags of CallLifecycleManager._progress
  StoreFaults   \* whether calls to Redis may fail

Heartbeat  == "heartbeat"
Coroutines == Handlers \cup {Heartbeat}

ASSUME VoiceAssumption ==
  /\ Heartbeat \notin Handlers
  /\ IsFiniteSet(Objectives)
  /\ StoreFaults \in BOOLEAN

VARIABLES
  run,            \* where VoicePipelineSession.run stands
  registered,     \* the session is in _active_sessions
  lifecycle,      \* self._lifecycle has been assigned
  pc,             \* pc[c]: the await coroutine c stands at
  progress,       \* objectives confirmed so far
  readyToClose,   \* CallLifecycleManager._ready_to_close
  closing,        \* CallLifecycleManager._closing
  closed,         \* CallLifecycleManager._closed
  backstop,       \* CallLifecycleManager._close_timeout_task
  pipeline,       \* the bound PipelineTask, "none" before bind_task
  endFrames,      \* EndTaskFrames queued (history)
  stored          \* the call's checkpoint in Redis

manager == <<progress, readyToClose, closing, closed, backstop>>
call    == <<run, registered, lifecycle, pc, manager, pipeline, endFrames, stored>>

RunState == {"waiting", "starting", "running", "deleting", "over", "failed"}
Await    == {"absent", "idle", "end_call", "closing", "progress", "checkpoint"}

CallTypeOK ==
  /\ run          \in RunState
  /\ registered   \in BOOLEAN
  /\ lifecycle    \in BOOLEAN
  /\ pc           \in [Coroutines -> Await]
  /\ progress     \subseteq Objectives
  /\ readyToClose \in BOOLEAN
  /\ closing      \in BOOLEAN
  /\ closed       \in BOOLEAN
  /\ backstop     \in {"none", "armed", "done"}
  /\ pipeline     \in {"none", "running", "ending", "ended"}
  /\ endFrames    \in Nat
  /\ stored       \in {"none", "fresh", "stale"}

Move(c, await) == pc' = [pc EXCEPT ![c] = await]

----------------------------------------------------------------------------
(* VoicePipelineSession.run up to the pipeline. *)

\* The caller hangs up, or 100 messages pass, before Twilio's start event.
StreamNeverStarts ==
  /\ run = "waiting"
  /\ run' = "over"
  /\ UNCHANGED <<registered, lifecycle, pc, manager, pipeline, endFrames, stored>>

\* The session is registered and its heartbeat started; loading the incident
\* for the prompt raises when the database does.
StreamStart ==
  /\ run = "waiting"
  /\ registered' = TRUE
  /\ Move(Heartbeat, "idle")
  /\ \/ run' = "starting" /\ lifecycle' = TRUE
     \/ run' = "failed"   /\ lifecycle' = FALSE
  /\ UNCHANGED <<manager, pipeline, endFrames, stored>>

\* A snapshot reaches Redis, or the failure is logged and forgotten.
WriteCheckpoint == stored' \in IF StoreFaults THEN {"fresh", stored} ELSE {"fresh"}

\* The checkpoint "session_started" is written, then the transport, the model
\* and the pipeline are built, which may raise, and the task is bound.
StartPipeline ==
  /\ run = "starting"
  /\ WriteCheckpoint
  /\ \/ run' = "running" /\ pipeline' = "running"
     \/ run' = "failed"  /\ UNCHANGED pipeline
  /\ UNCHANGED <<registered, lifecycle, pc, manager, endFrames>>

----------------------------------------------------------------------------
(* CallLifecycleManager. *)

MarkClosed ==
  /\ closed' = TRUE
  /\ backstop' = IF backstop = "armed" THEN "done" ELSE backstop

\* Mutation: the close is noted only once the frame is queued.
CloseNotedLate(c) ==
  /\ ~closed /\ ~closing
  /\ pipeline # "none"
  /\ endFrames' = endFrames + 1
  /\ pipeline' = IF pipeline = "running" THEN "ending" ELSE pipeline
  /\ Move(c, "closing")
  /\ UNCHANGED <<closing, backstop>>

\* begin_graceful_close, up to the await of queue_frames.
QueueEndTaskFrame(c) ==
  /\ ~closed /\ ~closing
  /\ pipeline # "none"
  /\ closing' = TRUE
  /\ endFrames' = endFrames + 1
  /\ pipeline' = IF pipeline = "running" THEN "ending" ELSE pipeline
  /\ Move(c, "closing")
  /\ UNCHANGED backstop

\* No task is bound yet: there is nobody to queue the frame for.
CloseWithoutTask(c) ==
  /\ ~closed /\ ~closing
  /\ pipeline = "none"
  /\ closing' = TRUE
  /\ backstop' = "armed"
  /\ Move(c, "idle")
  /\ UNCHANGED <<endFrames, pipeline>>

AlreadyClosing(c) ==
  /\ closed \/ closing
  /\ Move(c, "idle")
  /\ UNCHANGED <<closing, endFrames, pipeline, backstop>>

BeginGracefulClose(c) ==
  \/ QueueEndTaskFrame(c)
  \/ CloseWithoutTask(c)
  \/ AlreadyClosing(c)

\* Mutation: the safety timeout is not started.
ArmNothing(c) ==
  /\ pc[c] = "closing"
  /\ closing' = TRUE
  /\ Move(c, "idle")
  /\ UNCHANGED <<run, registered, lifecycle, progress, readyToClose, closed,
                 backstop, pipeline, endFrames, stored>>

\* begin_graceful_close, after queue_frames.
ArmBackstop(c) ==
  /\ pc[c] = "closing"
  /\ closing' = TRUE
  /\ backstop' = "armed"
  /\ Move(c, "idle")
  /\ UNCHANGED <<run, registered, lifecycle, progress, readyToClose, closed,
                 pipeline, endFrames, stored>>

\* _close_safety_timeout after its sleep, longer than the start of a session
\* unless Redis keeps that waiting.
CloseSafetyTimeout ==
  /\ backstop = "armed"
  /\ run = "starting" => StoreFaults
  /\ backstop' = "done"
  /\ pipeline' = IF ~closed /\ pipeline # "none" THEN "ended" ELSE pipeline
  /\ UNCHANGED <<run, registered, lifecycle, pc, progress, readyToClose, closing,
                 closed, endFrames, stored>>

----------------------------------------------------------------------------
(* Handlers. *)

\* The tool end_call, and the command end_call on the owner pod, up to the
\* await of their checkpoint.
EndCallTool(h) ==
  /\ pipeline \in {"running", "ending"}
  /\ pc[h] = "idle"
  /\ Move(h, "end_call")
  /\ UNCHANGED <<run, registered, lifecycle, manager, pipeline, endFrames, stored>>

DispatchControlCommand(c) ==
  /\ lifecycle
  /\ pc[c] = "idle"
  /\ Move(c, "end_call")
  /\ UNCHANGED <<run, registered, lifecycle, manager, pipeline, endFrames, stored>>

LocalCommand(h) == registered /\ DispatchControlCommand(h)

EndCall(c) ==
  /\ pc[c] = "end_call"
  /\ WriteCheckpoint
  /\ BeginGracefulClose(c)
  /\ UNCHANGED <<run, registered, lifecycle, progress, readyToClose, closed>>

\* Mutation: any of the flags will do.
AnyObjective(flags) == flags # {}

\* is_ready_to_close.
AllObjectives(flags) == flags = Objectives

\* The tool update_call_progress, up to the await of its checkpoint.
UpdateCallProgress(h, flags, ready) ==
  /\ pipeline \in {"running", "ending"}
  /\ pc[h] = "idle"
  /\ progress' = progress \cup flags
  /\ readyToClose' = (readyToClose \/ (ready /\ AllObjectives(progress')))
  /\ Move(h, "progress")
  /\ UNCHANGED <<run, registered, lifecycle, closing, closed, backstop, pipeline,
                 endFrames, stored>>

\* on_bot_stopped_speaking, in a task of its own.
BotStoppedSpeaking(h) ==
  /\ pipeline # "none"
  /\ pc[h] = "idle"
  /\ ~closed
  /\ \/ readyToClose /\ ~closing /\ BeginGracefulClose(h) /\ UNCHANGED closed
     \/ closing /\ MarkClosed /\ UNCHANGED <<pc, closing, endFrames, pipeline>>
  /\ UNCHANGED <<run, registered, lifecycle, progress, readyToClose, stored>>

\* The await of a progress or periodic checkpoint ends.
CheckpointState(c) ==
  /\ pc[c] \in {"progress", "checkpoint"}
  /\ WriteCheckpoint
  /\ Move(c, "idle")
  /\ UNCHANGED <<run, registered, lifecycle, manager, pipeline, endFrames>>

\* The heartbeat loop finds the checkpoint interval over.
PeriodicCheckpoint ==
  /\ lifecycle
  /\ pc[Heartbeat] = "idle"
  /\ Move(Heartbeat, "checkpoint")
  /\ UNCHANGED <<run, registered, lifecycle, manager, pipeline, endFrames, stored>>

----------------------------------------------------------------------------
(* The end of the pipeline, and of the session. *)

\* EndFrame has travelled the pipeline: drained, transport closed, hung up.
EndFrameDrained ==
  /\ pipeline = "ending"
  /\ pipeline' = "ended"
  /\ UNCHANGED <<run, registered, lifecycle, pc, manager, endFrames, stored>>

\* The model or the transport fails, or the pipeline idles out.
PipelineFails ==
  /\ pipeline = "running"
  /\ pipeline' = "ended"
  /\ UNCHANGED <<run, registered, lifecycle, pc, manager, endFrames, stored>>

\* on_client_disconnected: the other party hangs up.
ClientDisconnected ==
  /\ pipeline \in {"running", "ending"}
  /\ MarkClosed
  /\ pipeline' = "ended"
  /\ UNCHANGED <<run, registered, lifecycle, pc, progress, readyToClose, closing,
                 endFrames, stored>>

\* The pod is being stopped: shutdown_event marks the registered sessions
\* closed and leaves the rest.  A step of the pod, not of CallNext.
ShutdownEvent ==
  /\ registered /\ lifecycle /\ ~closed
  /\ MarkClosed
  /\ UNCHANGED <<run, registered, lifecycle, pc, progress, readyToClose, closing,
                 pipeline, endFrames, stored>>

\* Mutation: the heartbeat loop is left running.
LeaveHeartbeat ==
  /\ run = "running"
  /\ pipeline = "ended"
  /\ MarkClosed
  /\ run' = "deleting"
  /\ UNCHANGED <<registered, lifecycle, pc, progress, readyToClose, closing,
                 pipeline, endFrames, stored>>

\* run's finally, up to the await of the checkpoint's deletion; the heartbeat
\* loop takes its cancellation at whatever await it stands.
RunnerReturns ==
  /\ run = "running"
  /\ pipeline = "ended"
  /\ MarkClosed
  /\ Move(Heartbeat, "absent")
  /\ run' = "deleting"
  /\ UNCHANGED <<registered, lifecycle, progress, readyToClose, closing,
                 pipeline, endFrames, stored>>

DeleteStateCheckpoint ==
  /\ run = "deleting"
  /\ stored' \in IF StoreFaults THEN {"none", stored} ELSE {"none"}
  /\ registered' = FALSE
  /\ run' = "over"
  /\ UNCHANGED <<lifecycle, pc, manager, pipeline, endFrames>>

----------------------------------------------------------------------------
CallInit ==
  /\ run = "waiting"
  /\ registered = FALSE
  /\ lifecycle = FALSE
  /\ pc = [c \in Coroutines |-> IF c = Heartbeat THEN "absent" ELSE "idle"]
  /\ progress = {}
  /\ readyToClose = FALSE
  /\ closing = FALSE
  /\ closed = FALSE
  /\ backstop = "none"
  /\ pipeline = "none"
  /\ endFrames = 0
  /\ stored = "none"

Session ==
  \/ StreamNeverStarts \/ StreamStart \/ StartPipeline
  \/ RunnerReturns \/ DeleteStateCheckpoint

Handle(h) ==
  \/ EndCallTool(h) \/ LocalCommand(h)
  \/ BotStoppedSpeaking(h)
  \/ \E flags \in SUBSET Objectives, ready \in BOOLEAN : UpdateCallProgress(h, flags, ready)

Resume(c) == EndCall(c) \/ ArmBackstop(c) \/ CheckpointState(c)

PipelineEnds == EndFrameDrained \/ PipelineFails \/ ClientDisconnected

CallNext ==
  \/ Session
  \/ \E h \in Handlers : Handle(h)
  \/ \E c \in Coroutines : Resume(c)
  \/ PeriodicCheckpoint
  \/ CloseSafetyTimeout
  \/ PipelineEnds

CallSpec == CallInit /\ [][CallNext]_call

----------------------------------------------------------------------------
(* Properties. *)

\* Two tools, a command and the end of the bot's last sentence may all ask
\* for the end of the call at once: the EndTaskFrame is queued only once.
CloseOnce == endFrames <= 1

\* While a close begun on the pipeline has not reached its end, the safety
\* timeout is pending (or about to be started), whoever began it and whatever
\* ran meanwhile.
BackstopStands ==
  (/\ endFrames > 0
   /\ ~closed
   /\ pipeline # "ended"
   /\ \A c \in Coroutines : pc[c] # "closing") => backstop = "armed"

\* The call ends by itself after a sentence of the bot only once every
\* objective has been confirmed, in whatever order and by however many
\* concurrent tool calls the model reported them.
AutoCloseNeedsAll == readyToClose => progress = Objectives

\* "Safety backstop: if pipeline doesn't shut down in time, force cancel"
\* (begin_graceful_close): until the pipeline of a close has shut down, closed
\* or not, the safety timeout is pending (or about to be started).
BackstopUntilShutdown ==
  (/\ endFrames > 0
   /\ pipeline # "ended"
   /\ \A c \in Coroutines : pc[c] # "closing") => backstop = "armed"

\* When the pipeline ends, the session cleans up after itself completely and
\* for good: a handler's checkpoint that lands after the deletion is gone with
\* its key's TTL, and nobody refreshes it.
CleanupCompletes ==
  pipeline = "ended" ~>
    [](run = "over" /\ ~registered /\ pc[Heartbeat] = "absent" /\ stored = "none")

=============================================================================
