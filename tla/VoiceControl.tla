---------------------------- MODULE VoiceControl ----------------------------
(***************************************************************************)
(* Control commands for a call that another pod may own:                   *)
(*   routers/voice.py               POST /voice/commands/{call_sid}        *)
(*   services/voice_command_bus.py  a Redis list per call                  *)
(*   services/voice_state_store.py  a Redis checkpoint per call            *)
(* composed with the owner's VoiceLifecycle, whose heartbeat loop polls    *)
(* the list.  The owner's pod may be killed, and its event loop stands     *)
(* still while another call of the pod is persisted and summarized.        *)
(***************************************************************************)
EXTENDS VoiceLifecycle, Sequences, SequencesExt

CONSTANTS
  Requests,   \* commands sent to pods that do not own the call
  PodFaults   \* whether the owner's pod may be killed or held up

ASSUME ControlAssumption == IsFiniteSet(Requests) /\ PodFaults \in BOOLEAN

VARIABLES
  answer,     \* answer[r]: how far r has come, or what it was answered
  queue,      \* the Redis list voice-command:<call_sid>
  executed,   \* executed[r]: times the owner has dispatched r (history)
  fresh,      \* the registry's last_heartbeat_at is not stale
  pod         \* the owner's pod

control == <<answer, queue, executed, fresh, pod>>
vars    == <<call, control>>

Answer == {"new", "checked", "pushed", "accepted",
           "missing_404", "stale_409", "error_500"}

ControlTypeOK ==
  /\ CallTypeOK
  /\ answer   \in [Requests -> Answer]
  /\ queue    \in Seq(Requests)
  /\ executed \in [Requests -> Nat]
  /\ fresh    \in BOOLEAN
  /\ pod      \in {"up", "held", "stopping", "dead"}

Running == pod \in {"up", "stopping"}

\* The heartbeat loop is between two turns.
LoopTurns == Running /\ pc[Heartbeat] = "idle"

\* It comes round in time: only a failing Redis makes it wait any longer.
InTime == Running /\ pc[Heartbeat] # "absent" /\ (StoreFaults => LoopTurns)

----------------------------------------------------------------------------
(* send_voice_command on a pod that does not have the session. *)

Answered(r, a) == answer' = [answer EXCEPT ![r] = a]

\* An exception of redis-py is caught nowhere in the endpoint.
RedisError(r) ==
  /\ StoreFaults
  /\ answer[r] \in {"new", "checked", "pushed"}
  /\ Answered(r, "error_500")
  /\ UNCHANGED <<call, queue, executed, fresh, pod>>

\* Mutation: the command is published before the age is looked at.
PublishBeforeAge(r) ==
  /\ answer[r] = "new"
  /\ stored # "none"
  /\ queue' = Append(queue, r)
  /\ Answered(r, IF stored = "fresh" THEN "accepted" ELSE "stale_409")
  /\ UNCHANGED <<call, executed, fresh, pod>>

\* The checkpoint is read and its age compared; without a connection at all
\* the store answers as if there were none.
ReadCheckpoint(r) ==
  /\ answer[r] = "new"
  /\ \/ /\ stored = "none" \/ StoreFaults
        /\ Answered(r, "missing_404")
     \/ stored = "stale" /\ Answered(r, "stale_409")
     \/ stored = "fresh" /\ Answered(r, "checked")
  /\ UNCHANGED <<call, queue, executed, fresh, pod>>

\* VoiceCommandBus.publish: RPUSH, then EXPIRE.
Push(r) ==
  /\ answer[r] = "checked"
  /\ queue' = Append(queue, r)
  /\ Answered(r, "pushed")
  /\ UNCHANGED <<call, executed, fresh, pod>>

Expire(r) ==
  /\ answer[r] = "pushed"
  /\ Answered(r, "accepted")
  /\ UNCHANGED <<call, queue, executed, fresh, pod>>

----------------------------------------------------------------------------
(* The owner's heartbeat loop. *)

\* Mutation: the command is read and left at the head of the list.
PeekCommand ==
  /\ LoopTurns /\ queue # <<>>
  /\ UNCHANGED queue
  /\ executed' = [executed EXCEPT ![Head(queue)] = @ + 1]
  /\ DispatchControlCommand(Heartbeat)
  /\ UNCHANGED <<answer, fresh, pod>>

\* Mutation: the owner does not know the command by its published name.
UnknownCommand ==
  /\ LoopTurns /\ queue # <<>>
  /\ queue' = Tail(queue)
  /\ UNCHANGED <<call, answer, executed, fresh, pod>>

\* _poll_control_commands: LPOP takes the command off the list before it is
\* dispatched; without a lifecycle the dispatch raises and the command is lost.
PollControlCommands ==
  /\ LoopTurns /\ queue # <<>>
  /\ queue' = Tail(queue)
  /\ \/ /\ lifecycle
        /\ executed' = [executed EXCEPT ![Head(queue)] = @ + 1]
        /\ DispatchControlCommand(Heartbeat)
     \/ ~lifecycle /\ UNCHANGED <<call, executed>>
  /\ UNCHANGED <<answer, fresh, pod>>

\* LPOP raises outside of any try: the heartbeat task is gone, and the
\* command with it if the answer was lost on the way back.
PollFails ==
  /\ StoreFaults /\ LoopTurns
  /\ queue' \in {queue} \cup {Tail(q) : q \in {queue} \ {<<>>}}
  /\ Move(Heartbeat, "absent")
  /\ UNCHANGED <<run, registered, lifecycle, manager, pipeline, endFrames, stored>>
  /\ UNCHANGED <<answer, executed, fresh, pod>>

\* _touch_active_session.
Touch ==
  /\ LoopTurns /\ registered /\ ~fresh
  /\ fresh' = TRUE
  /\ UNCHANGED <<call, answer, queue, executed, pod>>

----------------------------------------------------------------------------
(* Time, and the pods.  Nothing ages while the loop refreshes it in time. *)

HeartbeatAges ==
  /\ ~InTime /\ registered /\ fresh
  /\ fresh' = FALSE
  /\ UNCHANGED <<call, answer, queue, executed, pod>>

\* voice_owner_stale_after_s, and the TTLs of the checkpoint and of the list.
CheckpointAges ==
  /\ ~(InTime /\ lifecycle) \/ StoreFaults
  /\ \/ stored = "fresh" /\ stored' = "stale"
     \/ stored = "stale" /\ stored' = "none"
  /\ UNCHANGED <<run, registered, lifecycle, pc, manager, pipeline, endFrames, control>>

QueueExpires ==
  /\ ~InTime /\ queue # <<>>
  /\ queue' = <<>>
  /\ UNCHANGED <<call, answer, executed, fresh, pod>>

\* _persist_session of another call on the pod, with its summary, runs in the
\* event loop's thread.
HoldLoop ==
  /\ PodFaults /\ pod = "up"
  /\ pod' = "held"
  /\ UNCHANGED <<call, answer, queue, executed, fresh>>

ReleaseLoop ==
  /\ pod = "held"
  /\ pod' = "up"
  /\ UNCHANGED <<call, answer, queue, executed, fresh>>

\* shutdown_event.
StopPod ==
  /\ PodFaults /\ pod = "up"
  /\ ShutdownEvent
  /\ pod' = "stopping"
  /\ UNCHANGED <<answer, queue, executed, fresh>>

Kill ==
  /\ PodFaults /\ pod # "dead"
  /\ pod' = "dead"
  /\ UNCHANGED <<call, answer, queue, executed, fresh>>

----------------------------------------------------------------------------
Init ==
  /\ CallInit
  /\ answer = [r \in Requests |-> "new"]
  /\ queue = <<>>
  /\ executed = [r \in Requests |-> 0]
  /\ fresh = TRUE
  /\ pod = "up"

Owner == Running /\ CallNext /\ UNCHANGED control

Send(r) == RedisError(r) \/ ReadCheckpoint(r) \/ Push(r) \/ Expire(r)

Time == HeartbeatAges \/ CheckpointAges \/ QueueExpires

Next ==
  \/ Owner
  \/ \E r \in Requests : Send(r)
  \/ PollControlCommands \/ PollFails \/ Touch
  \/ Time
  \/ HoldLoop \/ ReleaseLoop \/ StopPod \/ Kill

Spec == Init /\ [][Next]_vars

OwnerStep(A) == Running /\ A /\ UNCHANGED control

\* The event loop resumes a coroutine whose await is over, and a sleep ends,
\* whenever the loop is not held, and it is not held for ever.  Redis drops a
\* key whose TTL has passed.  Nobody promises that the pipeline drains, the
\* caller hangs up or the bot speaks.
Fairness ==
  /\ WF_vars(OwnerStep(StartPipeline))
  /\ WF_vars(OwnerStep(RunnerReturns))
  /\ WF_vars(OwnerStep(DeleteStateCheckpoint))
  /\ WF_vars(OwnerStep(CloseSafetyTimeout))
  /\ \A c \in Coroutines : WF_vars(OwnerStep(Resume(c)))
  /\ SF_vars(PollControlCommands)
  /\ WF_vars(CheckpointAges)
  /\ WF_vars(ReleaseLoop)

FairSpec == Spec /\ Fairness

----------------------------------------------------------------------------
(* Properties. *)

\* A command is taken off the list by one poll only, and never again.
ExecutedOnce == \A r \in Requests : executed[r] <= 1

\* Fail-closed routing: what was refused for a missing or a stale checkpoint
\* is never executed, nor waits to be.
RefusedNeverRuns ==
  \A r \in Requests :
    answer[r] \in {"new", "missing_404", "stale_409"} => executed[r] = 0 /\ ~Contains(queue, r)

\* The session has come to the end of run, in order or not.
Over == run \in {"deleting", "over", "failed"}

\* An accepted command has its effect: the call is closing, or over already.
AcceptedTakesEffect ==
  \A r \in Requests : answer[r] = "accepted" ~> (closing \/ closed \/ Over)

=============================================================================
