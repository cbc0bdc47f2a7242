------------------------------ MODULE D3D12Queue ----------------------------
(***************************************************************************)
(* The command queue of D3D12 (src/src/d3d12/d3d12-command.cpp:1929-2361). *)
(* It takes an ID for each submission as Vulkan does, but the commands and *)
(* the signal of the ID are separate calls, and waitOnHost() takes an ID   *)
(* of its own to wait for.                                                 *)
(***************************************************************************)
EXTENDS CommandQueue

(* submit() whose wait for a fence fails: the ID is taken and nothing      *)
(* happens to the command buffers.                                         *)
FailToWaitForFence ==
    /\ SubmitMayFail
    /\ pc = "idle"
    /\ deviceHeld
    /\ lastSubmitted < LastID[backend]
    /\ lastSubmitted' = lastSubmitted + 1
    /\ UNCHANGED <<lists, submissionID, lastFinished, deferred, recording, tracked,
                   owned, resource, submitter, timeline, device>>

(* ExecuteCommandLists(), the signals of the fences and of the ID.  If one *)
(* of them fails, the work is on the GPU and its ID is not signalled.      *)
Execute ==
    /\ pc = "send"
    /\ \E signals \in BOOLEAN :
          /\ signals \/ SubmitMayFail
          /\ gpu' = Append(gpu, Work(lastSubmitted, sending, signals, Default))
          /\ pc' = IF signals THEN "retire" ELSE "idle"
    /\ sending' = {}
    /\ UNCHANGED <<lists, submissionID, lastSubmitted, lastFinished, deferred,
                   recording, tracked, owned, resource, stream, semaphore, events,
                   sinceEvent, device>>

(* waitOnHost(), up to WaitForSingleObject().  It returns early when the   *)
(* signal of its ID fails, or SetEventOnCompletion() after it.             *)
BeginWait ==
    /\ pc = "idle"
    /\ deviceHeld
    /\ lastSubmitted < LastID[backend]
    /\ lastSubmitted' = lastSubmitted + 1
    /\ \/ /\ gpu' = Append(gpu, Work(lastSubmitted + 1, {}, TRUE, Default))
          /\ pc' = "wait" \/ (SubmitMayFail /\ UNCHANGED pc)
       \/ SubmitMayFail /\ UNCHANGED <<gpu, pc>>
    /\ UNCHANGED <<lists, submissionID, lastFinished, deferred, recording, tracked,
                   owned, resource, sending, stream, semaphore, events, sinceEvent,
                   device>>

EndWait ==
    /\ pc = "wait"
    /\ semaphore >= lastSubmitted
    /\ pc' = "retire"
    /\ UNCHANGED <<lists, submissionID, lastSubmitted, lastFinished, deferred,
                   recording, tracked, owned, resource, sending, stream,
                   timeline, device>>

D3D12Retires(b) == submissionID[b] <= semaphore

D3D12RetireCommandBuffers ==
    LET done == EntriesIn(inFlight, {b \in Buffers : D3D12Retires(b)}) IN
    /\ pc = "retire"
    /\ pc' = "idle"
    /\ Retire(done, semaphore, pool \o done)
    /\ UNCHANGED <<lastSubmitted, encoding, handles, unsubmitted, owned, sending,
                   stream, timeline, device>>

D3D12GpuFinish ==
    /\ gpu # <<>>
    /\ gpu' = Tail(gpu)
    /\ semaphore' = IF Head(gpu).signals THEN Head(gpu).id ELSE semaphore
    /\ UNCHANGED <<lists, submissionID, lastSubmitted, lastFinished, deferred,
                   recording, tracked, owned, resource, submitter, events,
                   sinceEvent, device>>

(* shutdown(): the wait signals a new ID, unless it fails.                 *)
D3D12DestroyDevice ==
    /\ lastSubmitted' = lastSubmitted + 1
    /\ \/ gpu = <<>> /\ semaphore' = lastSubmitted + 1
       \/ SubmitMayFail /\ UNCHANGED semaphore
    /\ gpu' = <<>>
    /\ ShutDown(semaphore')
    /\ UNCHANGED <<events, sinceEvent>>

D3D12ClientStep ==
    \/ \E b \in Buffers : CreateEncoder(b) \/ DropEncoder(b)
    \/ \E bs \in SUBSET Buffers : BeginSubmit(bs)
    \/ FailToWaitForFence
    \/ BeginWait

D3D12SubmitterStep == Execute \/ EndWait \/ D3D12RetireCommandBuffers
=============================================================================
