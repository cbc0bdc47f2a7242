----------------------------- MODULE VulkanQueue ----------------------------
(***************************************************************************)
(* The command queue of Vulkan (src/src/vulkan/vk-command.cpp:1887-2328):  *)
(* the GPU executes submissions in order and advances m_trackingSemaphore. *)
(* submit() is split where others can run between: after the IDs are set   *)
(* (BeginSubmit of CommandQueue) and after vkQueueSubmit().                *)
(***************************************************************************)
EXTENDS CommandQueue

QueueSubmit ==
    /\ pc = "send"
    /\ \/ /\ gpu' = Append(gpu, Work(lastSubmitted, sending, TRUE, Default))
          /\ pc' = "retire"
       \/ SubmitMayFail /\ pc' = "idle" /\ UNCHANGED gpu
    /\ sending' = {}
    /\ UNCHANGED <<lists, submissionID, lastSubmitted, lastFinished, deferred,
                   recording, tracked, owned, resource, stream, semaphore, events,
                   sinceEvent, device>>

(* vkQueueWaitIdle(), which may fail.                                      *)
VulkanWaitOnHost ==
    /\ pc = "idle"
    /\ deviceHeld
    /\ gpu = <<>>
    /\ pc' = "retire"
    /\ UNCHANGED <<lists, submissionID, lastSubmitted, lastFinished, deferred,
                   recording, tracked, owned, resource, sending, stream,
                   timeline, device>>

(* Mutant: retired one submission early.                                   *)
VulkanRetiresEarly(b) == submissionID[b] <= semaphore + 1

VulkanRetires(b) == submissionID[b] <= semaphore

VulkanRetireCommandBuffers ==
    LET done == EntriesIn(inFlight, {b \in Buffers : VulkanRetires(b)}) IN
    /\ pc = "retire"
    /\ pc' = "idle"
    /\ Retire(done, semaphore, pool \o done)
    /\ UNCHANGED <<lastSubmitted, encoding, handles, unsubmitted, owned, sending,
                   stream, timeline, device>>

(* The GPU finishes its oldest submission and signals its ID.              *)
VulkanGpuFinish ==
    /\ gpu # <<>>
    /\ gpu' = Tail(gpu)
    /\ semaphore' = Head(gpu).id
    /\ UNCHANGED <<lists, submissionID, lastSubmitted, lastFinished, deferred,
                   recording, tracked, owned, resource, submitter, events,
                   sinceEvent, device>>

(* shutdown() goes on when its wait fails, because the device is lost and  *)
(* with it what it had to do.                                              *)
VulkanDestroyDevice ==
    /\ gpu = <<>> \/ SubmitMayFail
    /\ gpu' = <<>>
    /\ ShutDown(semaphore)
    /\ UNCHANGED <<lastSubmitted, semaphore, events, sinceEvent>>

VulkanClientStep ==
    \/ \E b \in Buffers : CreateEncoder(b) \/ DropEncoder(b)
    \/ \E bs \in SUBSET Buffers : BeginSubmit(bs)
    \/ VulkanWaitOnHost

VulkanSubmitterStep == QueueSubmit \/ VulkanRetireCommandBuffers
=============================================================================
