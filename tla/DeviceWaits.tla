----------------------------- MODULE DeviceWaits ----------------------------
(***************************************************************************)
(* The two places, besides the queues, where a host thread waits for what  *)
(* the GPU signals: results of queries, and frames of a surface.  They     *)
(* share no state, so a behaviour exercises one of them, `subject'.        *)
(***************************************************************************)
EXTENDS Integers

CONSTANTS Slots, MaxSubmissions, Backends
CONSTANTS Images, MaxQueued, MaxWrites, SurfaceBackends

VARIABLES queryBackend, slot, lastSubmitted, writes, toMark, submitting, gpu, value,
          available, finished, reading, call, wanted
VARIABLES backend, host, configured, debug, lost, swapchain, frame, current, fence,
          semaphore, image, layout, acquiring, queue, presents, sync, stream, known,
          back, event, armed, signals
VARIABLE subject

Queries == INSTANCE QueryPool WITH backend <- queryBackend
Surface == INSTANCE Surfaces

ASSUME Queries!QueryPoolConstants
ASSUME Surface!SurfacesConstants

queryVars == <<queryBackend, slot, lastSubmitted, writes, toMark, submitting, gpu, value,
               available, finished, reading, call, wanted>>
surfaceVars == <<backend, host, configured, debug, lost, swapchain, frame, current, fence,
                 semaphore, image, layout, acquiring, queue, presents, sync, stream, known,
                 back, event, armed, signals>>
vars == <<queryVars, surfaceVars, subject>>

Init ==
    /\ subject \in {"queries", "surface"}
    /\ Queries!Init /\ (subject # "queries" => queryBackend = "Vulkan")
    /\ Surface!Init /\ (subject # "surface" => backend = "Vulkan")

Next ==
    /\ \/ subject = "queries" /\ Queries!Next /\ UNCHANGED surfaceVars
       \/ subject = "surface" /\ Surface!Next /\ UNCHANGED queryVars
    /\ UNCHANGED subject

Spec == Init /\ [][Next]_vars

FairSpec == Spec /\ Queries!Fairness /\ Surface!Fairness

-----------------------------------------------------------------------------
(* Every variable has its type.                                            *)
TypeOK == Queries!TypeOK /\ Surface!TypeOK

(* A slot is resolved only when the query holds the result of the          *)
(* submission the slot names (rhi-shared.cpp:423-437, d3d12-query.cpp).    *)
ResolvedBehindFence == Queries!ResolvedBehindFence

(* Where the reader waits on the fence, what it copies is of the           *)
(* submission each slot was last submitted under when it was called, or of *)
(* a later one (slang-rhi.h:2459, d3d12-query.cpp).                        *)
FreshBehindFence == Queries!FreshBehindFence

(* A slot that was reset stays so until it is submitted again              *)
(* (rhi-shared.cpp:385-437).                                               *)
ResetStays == Queries!ResetStays

(* The semaphores and fences of a swapchain are signalled and waited for   *)
(* in pairs, by objects that exist (vk-surface.cpp:495-585,                *)
(* vk-command.cpp:2072-2132, cuda-surface.cpp:926-1190).                   *)
SyncObjectsPaired == Surface!SyncObjectsPaired

(* Images, and textures shared with CUDA, are written and shown by one     *)
(* side at a time, in the layout it expects (vk-surface.cpp:543-585,       *)
(* cuda-surface.cpp:963-1190).                                             *)
ImagesHandedOver == Surface!ImagesHandedOver

(* The host does not run ahead of the device by more frames than the       *)
(* fences or events of the swapchain allow (d3d12-surface.cpp:66-97,       *)
(* vk-surface.cpp:506-511).                                                *)
FramesThrottled == Surface!FramesThrottled

(* Reads of queries behind a fence return once the signal they wait for,   *)
(* or a later one, is on its way (d3d12-query.cpp:136), and every call to  *)
(* a surface returns (vk-surface.cpp:506, cuda-surface.cpp:938,            *)
(* d3d12-surface.cpp:75).                                                  *)
CallsReturn == Queries!ReadReturnsBehindFence /\ Surface!SurfaceCallsReturn
=============================================================================
