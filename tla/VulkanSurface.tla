---------------------------- MODULE VulkanSurface ---------------------------
(***************************************************************************)
(* The surface of the Vulkan backend (vulkan/vk-surface.cpp), and what the *)
(* queue does for it: acquireNextImage() leaves the frame's objects in     *)
(* m_surfaceSync, the next submit() takes them (vulkan/vk-command.cpp).    *)
(* Everything drawn in a frame is submitted at once.                       *)
(***************************************************************************)
EXTENDS Swapchain

CONSTANT MaxQueued  \* bound: submissions on the device

VARIABLE sync  \* m_surfaceSync

NoSync == [fence |-> None, waits |-> {}, signals |-> {}]

VulkanBeginAcquire ==
    /\ MayAcquire
    /\ Enter("acquire")
    /\ UNCHANGED <<backend, indices, device, sync>>

VulkanAcquire ==
    /\ host = "acquire"
    /\ FrameFinished
    /\ ResetFence
    /\ \/ \E i \in Images :
             /\ AcquireImage(i)
             /\ sync' = [fence |-> frame, waits |-> {Available(frame)}, signals |-> {Finished(i)}]
             /\ Returns("ImageAcquired", TRUE)
       \/ AcquireFails /\ Returns("ImageAcquired", FALSE) /\ UNCHANGED sync
    /\ UNCHANGED <<backend, swapchain, frame, semaphore, layout, queue, presents>>

(* Mutant: does not wait until the image is available.                     *)
WaitsOfNothing == {}

SyncWaits == sync.waits

(* Submission of what draws to the image i, or to no image.                *)
Submission(i) ==
    [waits |-> SyncWaits, signals |-> sync.signals, fence |-> sync.fence,
     image |-> i, reads |-> None, from |-> "undefined"]

(* submit() of the client: the first of a frame draws to its image.        *)
VulkanSubmit ==
    /\ backend = "Vulkan"
    /\ host = "idle" /\ ~lost
    /\ Len(queue) < MaxQueued
    /\ queue' = Append(queue, Submission(IF sync = NoSync THEN None ELSE current))
    /\ sync' = NoSync
    /\ UNCHANGED <<backend, client, indices, fence, semaphore, image, layout, acquiring, presents>>

(* If there was no submit() yet, present() submits a transition.           *)
(* Mutant: presents what is there.                                         *)
PresentAsIs == UNCHANGED <<queue, sync>>

TransitionIfNotSubmitted ==
    IF sync.fence # None
    THEN queue' = Append(queue, Submission(current)) /\ sync' = NoSync
    ELSE UNCHANGED <<queue, sync>>

VulkanPresent ==
    /\ InFrame
    /\ current # None
    /\ frame' = Following(frame)
    /\ TransitionIfNotSubmitted
    /\ QueuePresent
    /\ \E succeeds \in BOOLEAN : Returns("ImagePresented", succeeds)
    /\ UNCHANGED <<backend, swapchain, current, fence, semaphore, layout, acquiring>>

VulkanCalls == VulkanBeginAcquire \/ VulkanSubmit \/ VulkanPresent
=============================================================================
