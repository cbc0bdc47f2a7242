------------------------------ MODULE CUDAQueue -----------------------------
(***************************************************************************)
(* The command queue of CUDA (src/src/cuda/cuda-command.cpp:889-1475).     *)
(* Commands are executed into a stream when they are submitted, and every  *)
(* buffer takes an ID.  Few of the IDs have an event that says when they   *)
(* are done: those on a stream of the client, those that write timestamps, *)
(* and one after every run of kMaxSubmitsWithoutEvent; otherwise a queue   *)
(* is asked whether its stream is idle.  Buffers are not retired when      *)
(* something is submitted, but when the pool is empty.                     *)
(*                                                                         *)
(* submit() touches the in-flight list without the mutex that              *)
(* getOrCreateCommandBuffer() holds when it retires from it: the thread    *)
(* that submits is also the one that creates encoders.                     *)
(***************************************************************************)
EXTENDS CommandQueue

(* submit() whose fences are not reached returns before anything happens.  *)
BeginSubmitTo(bs, s) ==
    /\ pc = "idle"
    /\ deviceHeld
    /\ lastSubmitted + Cardinality(bs) <= LastID[backend]
    /\ bs # {}
    /\ bs \subseteq unsubmitted
    /\ unsubmitted' = unsubmitted \ bs
    /\ sending' = bs
    /\ stream' = s
    /\ pc' = "send"
    /\ UNCHANGED <<lists, submissionID, lastSubmitted, lastFinished, deferred,
                   encoding, handles, tracked, recorded, owned, resource,
                   timeline, device>>

(* The loop of submit() over the command buffers, whose order the client   *)
(* chose: execute the commands, take an ID, with an event or without.      *)
ExecuteBuffer(b) ==
    LET id == lastSubmitted + 1 IN
    /\ pc = "send"
    /\ b \in sending
    /\ gpu' = Append(gpu, Work(id, {b}, TRUE, stream))
    /\ lastSubmitted' = id
    /\ submissionID' = [submissionID EXCEPT ![b] = id]
    /\ \E needsEvent \in BOOLEAN :
          /\ stream # Default \/ sinceEvent > MaxWithoutEvent => needsEvent
          /\ events' = IF needsEvent THEN Append(events, id) ELSE events
          /\ sinceEvent' = IF needsEvent THEN 0 ELSE sinceEvent + 1
    /\ inFlight' = Append(inFlight, b)
    /\ sending' = sending \ {b}
    /\ UNCHANGED <<pool, lastFinished, deferred, recording, tracked, owned,
                   resource, pc, stream, semaphore, device>>

(* submit() returns after the last buffer, or when it gets no anchor for   *)
(* the timestamps of the next one.                                         *)
EndSubmit ==
    /\ pc = "send"
    /\ sending = {} \/ SubmitMayFail
    /\ unsubmitted' = unsubmitted \cup sending
    /\ sending' = {}
    /\ stream' = Default
    /\ pc' = "idle"
    /\ UNCHANGED <<lists, submissionID, lastSubmitted, lastFinished, deferred,
                   encoding, handles, recorded, tracked, owned, resource,
                   timeline, device>>

-----------------------------------------------------------------------------
OnGpu(id) == \E i \in DOMAIN gpu : gpu[i].id = id

(* updateFence(): the leading events that have completed.                  *)
CompleteEvents ==
    CHOOSE n \in 0..Len(events) :
        /\ \A i \in 1..n : ~OnGpu(events[i])
        /\ n < Len(events) => OnGpu(events[n + 1])

(* cuStreamQuery() of the queue's stream.                                  *)
StreamIdle == \A i \in DOMAIN gpu : gpu[i].stream # Default

(* What retireCommandBuffersLocked() takes as finished.                    *)
FinishedNow ==
    IF events # <<>>
    THEN LET n == CompleteEvents
         IN  IF n > 0 /\ events[n] > lastFinished THEN events[n] ELSE lastFinished
    ELSE IF inFlight # <<>> /\ StreamIdle THEN lastSubmitted ELSE lastFinished

(* The buffers in flight up to the first that has not finished.            *)
Finished(id) == EntriesIn(inFlight, {b \in Buffers : submissionID[b] <= id})

DropEvents == events' = SubSeq(events, CompleteEvents + 1, Len(events))

(* getOrCreateCommandBuffer() that finds the pool empty retires first.     *)
CreateEncoderFromEmptyPool(b) ==
    LET done == Finished(FinishedNow) IN
    /\ deviceHeld
    /\ pc = "idle"
    /\ pool = <<>>
    /\ IF done = <<>> THEN ~Alive(b) ELSE b = Head(done)
    /\ Retire(done, FinishedNow, IF done = <<>> THEN <<>> ELSE Tail(done))
    /\ encoding' = encoding \cup {b}
    /\ DropEvents
    /\ UNCHANGED <<lastSubmitted, handles, unsubmitted, owned, submitter, gpu,
                   semaphore, sinceEvent, device>>

(* The same call by the readers of query results.                          *)
CUDARetireCommandBuffers ==
    LET done == Finished(FinishedNow) IN
    /\ deviceHeld
    /\ pc = "idle"
    /\ inFlight # <<>>
    /\ Retire(done, FinishedNow, pool \o done)
    /\ DropEvents
    /\ UNCHANGED <<lastSubmitted, encoding, handles, unsubmitted, owned, submitter,
                   gpu, semaphore, sinceEvent, device>>

(* waitOnHost() synchronises with the whole context, and retires.          *)
CUDAWaitOnHost ==
    /\ pc = "idle"
    /\ deviceHeld
    /\ gpu = <<>>
    /\ Retire(inFlight, lastSubmitted, pool \o inFlight)
    /\ events' = <<>>
    /\ UNCHANGED <<lastSubmitted, encoding, handles, unsubmitted, owned, submitter,
                   gpu, semaphore, sinceEvent, device>>

(* A stream executes in order.  One that blocks runs nothing beside the    *)
(* default stream.                                                         *)
InOrder(s, t) == s = t \/ (StreamsBlock /\ Default \in {s, t})

CUDAGpuFinish(i) ==
    /\ i \in DOMAIN gpu
    /\ \A j \in 1..(i - 1) : ~InOrder(gpu[j].stream, gpu[i].stream)
    /\ gpu' = RemoveAt(gpu, i)
    /\ UNCHANGED <<lists, submissionID, lastSubmitted, lastFinished, deferred,
                   recording, tracked, owned, resource, submitter, semaphore,
                   events, sinceEvent, device>>

(* shutdown() synchronises with the events, then with the context.         *)
CUDADestroyDevice ==
    /\ gpu = <<>>
    /\ ShutDown(lastSubmitted)
    /\ events' = <<>>
    /\ UNCHANGED <<lastSubmitted, gpu, semaphore, sinceEvent>>

CUDAClientStep ==
    \/ \E b \in Buffers :
          \/ pool # <<>> /\ CreateEncoder(b)
          \/ CreateEncoderFromEmptyPool(b)
          \/ DropEncoder(b)
    \/ \E bs \in SUBSET Buffers, s \in Streams \cup {Default} : BeginSubmitTo(bs, s)
    \/ CUDARetireCommandBuffers
    \/ CUDAWaitOnHost

CUDASubmitterStep == EndSubmit \/ \E b \in Buffers : ExecuteBuffer(b)

CUDAGpuStep == \E i \in DOMAIN gpu : CUDAGpuFinish(i)
=============================================================================
