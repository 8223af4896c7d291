---------------------------- MODULE VoiceProofs ----------------------------
(***************************************************************************)
(* The safety of one call's lifecycle for any set of concurrent handlers   *)
(* and any set of objectives, with or without failures of Redis; then the  *)
(* same for the call on its pod, with any set of commands sent from other  *)
(* pods, with or without the death of the owner.                           *)
(***************************************************************************)
EXTENDS VoiceControl, TLAPS

\* Nothing can be closed before the pipeline's task is bound, and a frame
\* queued means a close begun.
BoundInv ==
  /\ run \in {"waiting", "starting"} => pipeline = "none"
  /\ endFrames > 0 => closing /\ pipeline # "none"

CInv ==
  /\ CallTypeOK
  /\ BoundInv
  /\ CloseOnce
  /\ BackstopStands
  /\ AutoCloseNeedsAll

LEMMA InitCInv == CallInit => CInv
<1> SUFFICES ASSUME CallInit PROVE CInv
  OBVIOUS
<1>1. pc \in [Coroutines -> Await]
  BY DEF CallInit, Await
<1>2. CallTypeOK
  BY <1>1 DEF CallInit, CallTypeOK, RunState
<1>3. BoundInv /\ CloseOnce /\ BackstopStands /\ AutoCloseNeedsAll
  BY DEF CallInit, BoundInv, CloseOnce, BackstopStands, AutoCloseNeedsAll
<1> QED BY <1>2, <1>3 DEF CInv

LEMMA SessionCInv ==
  ASSUME CInv, Session
  PROVE  CInv'
<1> USE VoiceAssumption DEF CInv, CallTypeOK, RunState, Await, Coroutines, BoundInv,
        CloseOnce, BackstopStands, AutoCloseNeedsAll, Move, manager
<1>1. CASE StreamNeverStarts
  BY <1>1 DEF StreamNeverStarts
<1>2. CASE StreamStart
  BY <1>2 DEF StreamStart
<1>3. CASE StartPipeline
  BY <1>3 DEF StartPipeline, WriteCheckpoint
<1>4. CASE RunnerReturns
  BY <1>4 DEF RunnerReturns, MarkClosed
<1>5. CASE DeleteStateCheckpoint
  BY <1>5 DEF DeleteStateCheckpoint
<1> QED BY <1>1, <1>2, <1>3, <1>4, <1>5 DEF Session

LEMMA HandleCInv ==
  ASSUME CInv, NEW h \in Handlers, Handle(h)
  PROVE  CInv'
<1> USE VoiceAssumption DEF CInv, CallTypeOK, RunState, Await, Coroutines, BoundInv,
        CloseOnce, BackstopStands, AutoCloseNeedsAll, Move, manager
<1>1. CASE EndCallTool(h)
  BY <1>1 DEF EndCallTool
<1>2. CASE LocalCommand(h)
  BY <1>2 DEF LocalCommand, DispatchControlCommand
<1>3. CASE BotStoppedSpeaking(h)
  <2> USE <1>3 DEF BotStoppedSpeaking
  <2>1. CASE QueueEndTaskFrame(h) /\ UNCHANGED closed
    BY <2>1 DEF QueueEndTaskFrame
  <2>2. CASE CloseWithoutTask(h) /\ UNCHANGED closed
    BY <2>2 DEF CloseWithoutTask
  <2>3. CASE AlreadyClosing(h) /\ ~closing /\ UNCHANGED closed
    BY <2>3 DEF AlreadyClosing
  <2>4. CASE closing /\ MarkClosed /\ UNCHANGED <<pc, closing, endFrames, pipeline>>
    BY <2>4 DEF MarkClosed
  <2> QED BY <2>1, <2>2, <2>3, <2>4 DEF BeginGracefulClose
<1>4. ASSUME NEW flags \in SUBSET Objectives, NEW ready \in BOOLEAN,
             UpdateCallProgress(h, flags, ready)
      PROVE  CInv'
  BY <1>4 DEF UpdateCallProgress, AllObjectives
<1> QED BY <1>1, <1>2, <1>3, <1>4 DEF Handle

LEMMA ResumeCInv ==
  ASSUME CInv, NEW c \in Coroutines, Resume(c)
  PROVE  CInv'
<1> USE VoiceAssumption DEF CInv, CallTypeOK, RunState, Await, Coroutines, BoundInv,
        CloseOnce, BackstopStands, AutoCloseNeedsAll, Move, manager
<1>1. CASE EndCall(c)
  <2> USE <1>1 DEF EndCall, WriteCheckpoint
  <2>1. CASE QueueEndTaskFrame(c)
    BY <2>1 DEF QueueEndTaskFrame
  <2>2. CASE CloseWithoutTask(c)
    BY <2>2 DEF CloseWithoutTask
  <2>3. CASE AlreadyClosing(c)
    BY <2>3 DEF AlreadyClosing
  <2> QED BY <2>1, <2>2, <2>3 DEF BeginGracefulClose
<1>2. CASE ArmBackstop(c)
  BY <1>2 DEF ArmBackstop
<1>3. CASE CheckpointState(c)
  BY <1>3 DEF CheckpointState, WriteCheckpoint
<1> QED BY <1>1, <1>2, <1>3 DEF Resume

LEMMA EndsCInv ==
  ASSUME CInv, PeriodicCheckpoint \/ CloseSafetyTimeout \/ PipelineEnds
  PROVE  CInv'
<1> USE VoiceAssumption DEF CInv, CallTypeOK, RunState, Await, Coroutines, BoundInv,
        CloseOnce, BackstopStands, AutoCloseNeedsAll, Move, manager
<1>1. CASE PeriodicCheckpoint
  BY <1>1 DEF PeriodicCheckpoint
<1>2. CASE CloseSafetyTimeout
  BY <1>2 DEF CloseSafetyTimeout
<1>3. CASE EndFrameDrained
  BY <1>3 DEF EndFrameDrained
<1>4. CASE PipelineFails
  BY <1>4 DEF PipelineFails
<1>5. CASE ClientDisconnected
  BY <1>5 DEF ClientDisconnected, MarkClosed
<1> QED BY <1>1, <1>2, <1>3, <1>4, <1>5 DEF PipelineEnds

LEMMA StepCInv == CInv /\ [CallNext]_call => CInv'
<1> SUFFICES ASSUME CInv, [CallNext]_call PROVE CInv'
  OBVIOUS
<1>1. CASE CallNext
  BY <1>1, SessionCInv, HandleCInv, ResumeCInv, EndsCInv DEF CallNext
<1>2. CASE UNCHANGED call
  BY <1>2 DEF call, manager, CInv, CallTypeOK, BoundInv, CloseOnce, BackstopStands,
              AutoCloseNeedsAll
<1> QED BY <1>1, <1>2

\* The inductive invariant of a call.
THEOREM CallInvariant == CallSpec => []CInv
BY InitCInv, StepCInv, PTL DEF CallSpec

\* The state of a call keeps its types, for any handlers and objectives.
THEOREM CallTypesOK == CallSpec => []CallTypeOK
<1>1. CInv => CallTypeOK
  BY DEF CInv
<1> QED BY <1>1, CallInvariant, PTL

\* However many handlers ask for the end of the call, the EndTaskFrame is
\* queued once.
THEOREM OneEndTaskFrame == CallSpec => []CloseOnce
<1>1. CInv => CloseOnce
  BY DEF CInv
<1> QED BY <1>1, CallInvariant, PTL

\* A close begun on the pipeline always has its safety timeout until the call
\* is closed or the pipeline has ended.
THEOREM BackstopPending == CallSpec => []BackstopStands
<1>1. CInv => BackstopStands
  BY DEF CInv
<1> QED BY <1>1, CallInvariant, PTL

\* The call is only ready to close once every objective is confirmed.
THEOREM ReadyMeansAll == CallSpec => []AutoCloseNeedsAll
<1>1. CInv => AutoCloseNeedsAll
  BY DEF CInv
<1> QED BY <1>1, CallInvariant, PTL

----------------------------------------------------------------------------
(* The call composed with the control commands. *)

\* The list holds a command once, and only one that was published and not yet
\* dispatched; nothing a refused command did reaches the owner.
Routed ==
  \A r \in Requests :
    /\ answer[r] \in {"new", "checked", "missing_404", "stale_409"} =>
         executed[r] = 0 /\ \A i \in 1..Len(queue) : queue[i] # r
    /\ executed[r] > 0 => executed[r] = 1 /\ \A i \in 1..Len(queue) : queue[i] # r
    /\ \A i, j \in 1..Len(queue) : queue[i] = r /\ queue[j] = r => i = j

ControlInv == ControlTypeOK /\ CInv /\ Routed

LEMMA InitControlInv == Init => ControlInv
<1> SUFFICES ASSUME Init PROVE ControlInv
  OBVIOUS
<1>1. CInv
  BY InitCInv DEF Init
<1>2. ControlTypeOK
  BY <1>1 DEF Init, ControlTypeOK, CInv, Answer
<1>3. Routed
  BY DEF Init, Routed
<1> QED BY <1>1, <1>2, <1>3 DEF ControlInv

\* The steps that leave the call to its own code.
LEMMA SameCallCInv ==
  ASSUME CInv, UNCHANGED call
  PROVE  CInv'
BY StepCInv

\* A command on its way to the list.
LEMMA SendControlInv ==
  ASSUME ControlInv, NEW r \in Requests, Send(r)
  PROVE  ControlInv'
<1> USE ControlAssumption DEF ControlInv, Answered, Answer
<1>1. CInv'
  BY SameCallCInv DEF Send, RedisError, ReadCheckpoint, Push, Expire
<1>2. CallTypeOK'
  BY <1>1 DEF CInv
<1>3. CASE Push(r)
  <2>1. /\ queue' = Append(queue, r) /\ queue \in Seq(Requests)
        /\ answer[r] = "checked" /\ answer' = [answer EXCEPT ![r] = "pushed"]
        /\ UNCHANGED <<executed, fresh, pod>>
    BY <1>3 DEF Push, ControlTypeOK
  <2>2. ControlTypeOK'
    BY <1>2, <2>1 DEF ControlTypeOK
  <2>3. /\ Len(queue') = Len(queue) + 1 /\ Len(queue) \in Nat
        /\ queue'[Len(queue) + 1] = r
        /\ \A i \in 1..Len(queue) : queue'[i] = queue[i]
    BY <2>1
  <2>4. executed[r] = 0 /\ \A i \in 1..Len(queue) : queue[i] # r
    BY <2>1 DEF Routed
  <2>5. ASSUME NEW q \in Requests
        PROVE  /\ answer'[q] \in {"new", "checked", "missing_404", "stale_409"} =>
                    executed'[q] = 0 /\ \A i \in 1..Len(queue') : queue'[i] # q
               /\ executed'[q] > 0 => executed'[q] = 1 /\ \A i \in 1..Len(queue') : queue'[i] # q
               /\ \A i, j \in 1..Len(queue') : queue'[i] = q /\ queue'[j] = q => i = j
    <3>1. CASE q # r
      BY <2>1, <2>3, <3>1 DEF Routed, ControlTypeOK
    <3>2. CASE q = r
      BY <2>1, <2>3, <2>4, <3>2 DEF ControlTypeOK
    <3> QED BY <3>1, <3>2
  <2> QED BY <1>1, <2>2, <2>5 DEF Routed
<1>4. CASE RedisError(r)
  BY <1>1, <1>2, <1>4 DEF RedisError, ControlTypeOK, Routed
<1>5. CASE ReadCheckpoint(r)
  BY <1>1, <1>2, <1>5 DEF ReadCheckpoint, ControlTypeOK, Routed
<1>6. CASE Expire(r)
  BY <1>1, <1>2, <1>6 DEF Expire, ControlTypeOK, Routed
<1> QED BY <1>3, <1>4, <1>5, <1>6 DEF Send

\* What the tail of the list holds, the list held one place further on.
LEMMA TailShifts ==
  ASSUME NEW q \in Seq(Requests), q # <<>>
  PROVE  /\ Tail(q) \in Seq(Requests)
         /\ Len(Tail(q)) = Len(q) - 1 /\ Len(q) \in Nat \ {0}
         /\ Head(q) = q[1] /\ Head(q) \in Requests
         /\ \A i \in 1..Len(Tail(q)) : Tail(q)[i] = q[i + 1]
OBVIOUS

\* Taking the head off the list leaves it as it must be, and nothing of the head.
LEMMA TailRouted ==
  ASSUME ControlInv, queue # <<>>, queue' = Tail(queue), UNCHANGED answer,
         executed' \in {executed, [executed EXCEPT ![Head(queue)] = @ + 1]}
  PROVE  Routed' /\ queue' \in Seq(Requests) /\ executed' \in [Requests -> Nat]
<1> DEFINE h == Head(queue)
<1>1. /\ queue' \in Seq(Requests)
      /\ Len(queue') = Len(queue) - 1 /\ Len(queue) \in Nat \ {0}
      /\ h = queue[1] /\ h \in Requests
      /\ \A i \in 1..Len(queue') : queue'[i] = queue[i + 1]
  BY TailShifts DEF ControlInv, ControlTypeOK
<1>2. executed[h] = 0 /\ answer[h] \notin {"new", "checked", "missing_404", "stale_409"}
  BY <1>1 DEF ControlInv, ControlTypeOK, Routed
<1>3. \A i \in 1..Len(queue') : queue'[i] # h
  BY <1>1 DEF ControlInv, Routed
<1>4. /\ executed' \in [Requests -> Nat]
      /\ executed'[h] \in {0, 1}
      /\ \A q \in Requests : q # h => executed'[q] = executed[q]
  BY <1>1, <1>2 DEF ControlInv, ControlTypeOK
<1> HIDE DEF h
<1>5. ASSUME NEW q \in Requests
      PROVE  /\ answer'[q] \in {"new", "checked", "missing_404", "stale_409"} =>
                  executed'[q] = 0 /\ \A i \in 1..Len(queue') : queue'[i] # q
             /\ executed'[q] > 0 => executed'[q] = 1 /\ \A i \in 1..Len(queue') : queue'[i] # q
             /\ \A i, j \in 1..Len(queue') : queue'[i] = q /\ queue'[j] = q => i = j
  <2>1. CASE q = h
    BY <1>1, <1>2, <1>3, <1>4, <2>1
  <2>2. CASE q # h
    BY <1>1, <1>4, <2>2 DEF ControlInv, Routed
  <2> QED BY <2>1, <2>2
<1> QED BY <1>1, <1>4, <1>5 DEF Routed

\* The owner's polls.
LEMMA PollControlInv ==
  ASSUME ControlInv, PollControlCommands \/ PollFails \/ Touch
  PROVE  ControlInv'
<1> USE DEF ControlInv
<1>1. CInv'
  <2> USE VoiceAssumption DEF CInv, CallTypeOK, RunState, Await, Coroutines, BoundInv,
          CloseOnce, BackstopStands, AutoCloseNeedsAll, Move, manager
  <2>1. CASE DispatchControlCommand(Heartbeat)
    BY <2>1 DEF DispatchControlCommand
  <2>2. CASE PollFails
    BY <2>2 DEF PollFails, LoopTurns
  <2>3. CASE UNCHANGED call
    BY <2>3, SameCallCInv
  <2> QED BY <2>1, <2>2, <2>3 DEF PollControlCommands, Touch
<1>2. CallTypeOK'
  BY <1>1 DEF CInv
<1>3. CASE PollControlCommands
  BY <1>1, <1>2, <1>3, TailRouted DEF PollControlCommands, ControlTypeOK
<1>4. CASE PollFails
  <2>1. CASE queue' = queue
    BY <1>1, <1>2, <1>4, <2>1 DEF PollFails, ControlTypeOK, Routed
  <2>2. CASE queue # <<>> /\ queue' = Tail(queue)
    <3>1. UNCHANGED <<answer, executed, fresh, pod>>
      BY <1>4 DEF PollFails
    <3>2. Routed' /\ queue' \in Seq(Requests)
      BY <2>2, <3>1, TailRouted
    <3> QED BY <1>1, <1>2, <3>1, <3>2 DEF ControlTypeOK
  <2> QED BY <1>4, <2>1, <2>2 DEF PollFails
<1>5. CASE Touch
  BY <1>1, <1>2, <1>5 DEF Touch, ControlTypeOK, Routed
<1> QED BY <1>3, <1>4, <1>5

\* Time, and what becomes of the pod.
LEMMA PodControlInv ==
  ASSUME ControlInv, Time \/ HoldLoop \/ ReleaseLoop \/ StopPod \/ Kill
  PROVE  ControlInv'
<1> USE DEF ControlInv, ControlTypeOK, Routed
<1>1. CASE HeartbeatAges
  BY <1>1, SameCallCInv DEF HeartbeatAges, CInv
<1>2. CASE CheckpointAges
  BY <1>2 DEF CheckpointAges, control, CInv, CallTypeOK, BoundInv, CloseOnce, BackstopStands,
     AutoCloseNeedsAll, manager
<1>3. CASE QueueExpires
  BY <1>3, SameCallCInv DEF QueueExpires, CInv
<1>4. CASE HoldLoop \/ ReleaseLoop \/ Kill
  BY <1>4, SameCallCInv DEF HoldLoop, ReleaseLoop, Kill, CInv
<1>5. CASE StopPod
  BY <1>5 DEF StopPod, ShutdownEvent, MarkClosed, CInv, CallTypeOK, BoundInv, CloseOnce,
     BackstopStands, AutoCloseNeedsAll
<1> QED BY <1>1, <1>2, <1>3, <1>4, <1>5 DEF Time

LEMMA StepControlInv == ControlInv /\ [Next]_vars => ControlInv'
<1> SUFFICES ASSUME ControlInv, [Next]_vars PROVE ControlInv'
  OBVIOUS
<1>1. CASE Owner
  BY <1>1, StepCInv DEF Owner, control, ControlInv, ControlTypeOK, Routed, CInv
<1>2. CASE UNCHANGED vars
  BY <1>2, StepCInv DEF vars, control, ControlInv, ControlTypeOK, Routed, CInv
<1> QED BY <1>1, <1>2, SendControlInv, PollControlInv, PodControlInv DEF Next

\* The inductive invariant of a call and of the commands sent to it.
THEOREM ControlInvariant == Spec => []ControlInv
BY InitControlInv, StepControlInv, PTL DEF Spec

\* A command is dispatched at most once, whatever fails and however many are sent.
THEOREM CommandsRunOnce == Spec => []ExecutedOnce
<1>1. ControlInv => ExecutedOnce
  BY DEF ControlInv, ControlTypeOK, Routed, ExecutedOnce
<1> QED BY <1>1, ControlInvariant, PTL

\* A command refused for its checkpoint is never dispatched, nor on the list.
THEOREM RefusedIsNeverRun == Spec => []RefusedNeverRuns
<1>1. ControlInv => RefusedNeverRuns
  BY DEF ControlInv, Routed, RefusedNeverRuns, Contains
<1> QED BY <1>1, ControlInvariant, PTL

\* What CInv says of a call stays true of it on its pod: commands of other
\* pods, a shutdown and an expired checkpoint add no second EndTaskFrame, take
\* no safety timeout away, and make no objective confirmed.
THEOREM CallOnItsPod == Spec => [](CloseOnce /\ BackstopStands /\ AutoCloseNeedsAll)
<1>1. ControlInv => CloseOnce /\ BackstopStands /\ AutoCloseNeedsAll
  BY DEF ControlInv, CInv
<1> QED BY <1>1, ControlInvariant, PTL
=============================================================================
