------------------------- MODULE DeviceWaitsProofs --------------------------
(***************************************************************************)
(* The safety of queries and surfaces carries over to a device that has    *)
(* either.                                                                 *)
(***************************************************************************)
EXTENDS DeviceWaits, TLAPS

QueriesProved == INSTANCE QueryPoolProofs WITH backend <- queryBackend
SurfaceProved == INSTANCE SurfacesProofs

(* The two instances of QueryPool are the same.                           *)
LEMMA SameID == Queries!SubmissionID = QueriesProved!SubmissionID
BY DEF Queries!SubmissionID, QueriesProved!SubmissionID, Queries!Max, QueriesProved!Max

LEMMA SameQueries == Queries!Next => QueriesProved!Next
<1>1. ASSUME NEW rs, Queries!BeginSubmit(rs) PROVE QueriesProved!BeginSubmit(rs)
  BY <1>1, SameID DEF Queries!BeginSubmit, QueriesProved!BeginSubmit, Queries!NextID,
     QueriesProved!NextID, Queries!device, QueriesProved!device, Queries!reader,
     QueriesProved!reader
<1>1a. ASSUME Queries!FailToWaitForFence PROVE QueriesProved!FailToWaitForFence
  BY <1>1a DEF Queries!FailToWaitForFence, QueriesProved!FailToWaitForFence, Queries!NextID,
     QueriesProved!NextID, Queries!device, QueriesProved!device, Queries!reader,
     QueriesProved!reader
<1>2. ASSUME NEW rs, Queries!Reset(rs) PROVE QueriesProved!Reset(rs)
  BY <1>2, SameID DEF Queries!Reset, QueriesProved!Reset, Queries!submission,
     QueriesProved!submission, Queries!device, QueriesProved!device, Queries!reader,
     QueriesProved!reader
<1>3. ASSUME NEW rs, NEW c, Queries!BeginRead(c, rs) PROVE QueriesProved!BeginRead(c, rs)
  BY <1>3, SameID DEF Queries!BeginRead, QueriesProved!BeginRead, Queries!RangeState,
     QueriesProved!RangeState, Queries!submission, QueriesProved!submission,
     Queries!device, QueriesProved!device
<1>4. ASSUME NEW s, Queries!MarkSubmitted(s) PROVE QueriesProved!MarkSubmitted(s)
  BY <1>4, SameID DEF Queries!MarkSubmitted, QueriesProved!MarkSubmitted,
     Queries!device, QueriesProved!device, Queries!reader, QueriesProved!reader
<1>5. ASSUME Queries!SendToQueue PROVE QueriesProved!SendToQueue
  BY <1>5, SameID DEF Queries!SendToQueue, QueriesProved!SendToQueue, Queries!reader,
     QueriesProved!reader
<1>6. ASSUME NEW s, Queries!GpuResetQuery(s) PROVE QueriesProved!GpuResetQuery(s)
  BY <1>6, SameID DEF Queries!GpuResetQuery, QueriesProved!GpuResetQuery,
     Queries!submission, QueriesProved!submission, Queries!reader,
     QueriesProved!reader
<1>7. ASSUME NEW s, Queries!GpuWriteQuery(s) PROVE QueriesProved!GpuWriteQuery(s)
  BY <1>7, SameID DEF Queries!GpuWriteQuery, QueriesProved!GpuWriteQuery,
     Queries!submission, QueriesProved!submission, Queries!reader,
     QueriesProved!reader
<1>8. ASSUME Queries!GpuFinish PROVE QueriesProved!GpuFinish
  BY <1>8, SameID DEF Queries!GpuFinish, QueriesProved!GpuFinish, Queries!submission,
     QueriesProved!submission, Queries!reader, QueriesProved!reader
<1>9. ASSUME Queries!Read PROVE QueriesProved!Read
  BY <1>9, SameID DEF Queries!Read, QueriesProved!Read, Queries!Readable,
     QueriesProved!Readable, Queries!submission, QueriesProved!submission,
     Queries!device, QueriesProved!device
<1>10. ASSUME Queries!ReturnPending PROVE QueriesProved!ReturnPending
  BY <1>10, SameID DEF Queries!ReturnPending, QueriesProved!ReturnPending,
     Queries!Readable, QueriesProved!Readable, Queries!submission,
     QueriesProved!submission, Queries!device, QueriesProved!device
<1>10a. ASSUME Queries!ReadFails PROVE QueriesProved!ReadFails
  BY <1>10a, SameID DEF Queries!ReadFails, QueriesProved!ReadFails,
     Queries!Readable, QueriesProved!Readable, Queries!submission,
     QueriesProved!submission, Queries!device, QueriesProved!device
<1>11. ASSUME Queries!MarkResolved PROVE QueriesProved!MarkResolved
  BY <1>11, SameID DEF Queries!MarkResolved, QueriesProved!MarkResolved,
     Queries!Resolves, QueriesProved!Resolves, Queries!submission,
     QueriesProved!submission, Queries!device, QueriesProved!device
<1>12. QED
  BY <1>1, <1>1a, <1>2, <1>3, <1>4, <1>5, <1>6, <1>7, <1>8, <1>9, <1>10, <1>10a, <1>11 DEF
     Queries!Next, QueriesProved!Next, Queries!Client, QueriesProved!Client,
     Queries!Submitter, QueriesProved!Submitter, Queries!Gpu, QueriesProved!Gpu,
     Queries!Reader, QueriesProved!Reader, Queries!Ranges, QueriesProved!Ranges

LEMMA QueriesWithin == Spec => QueriesProved!Spec
<1>1. Init => QueriesProved!Init
  BY DEF Init, Queries!Init, QueriesProved!Init
<1>2. [Next]_vars => [QueriesProved!Next]_QueriesProved!vars
  BY SameQueries DEF Next, vars, queryVars, QueriesProved!vars,
     QueriesProved!submission, QueriesProved!device, QueriesProved!reader
<1>3. QED
  BY <1>1, <1>2, PTL DEF Spec, QueriesProved!Spec

LEMMA QueryConstants == QueriesProved!QueryPoolConstants
BY Queries!QueryPoolConstants DEF QueriesProved!QueryPoolConstants, Queries!QueryPoolConstants

(* A slot is resolved only when the query holds the result of the          *)
(* submission the slot names (rhi-shared.cpp:423-437).                     *)
THEOREM ResolvedWritten == Spec => []ResolvedBehindFence
<1>1. QueriesProved!Spec => []QueriesProved!ResolvedBehindFence
  BY QueryConstants, QueriesProved!ResolvedWritten
<1>2. QueriesProved!ResolvedBehindFence => ResolvedBehindFence
  BY DEF QueriesProved!ResolvedBehindFence, ResolvedBehindFence, Queries!ResolvedBehindFence
<1>3. QED
  BY <1>1, <1>2, QueriesWithin, PTL

(* Behind a fence, what a reader copies is of the submission each slot was *)
(* under when the read began, or of a later one (d3d12-query.cpp).         *)
THEOREM ReadsAreFresh == Spec => FreshBehindFence
<1>1. QueriesProved!Spec => QueriesProved!FreshBehindFence
  BY QueryConstants, QueriesProved!ReadsAreFresh
<1>2. [queryBackend = "D3D12" => QueriesProved!ReadsFresh]_QueriesProved!vars
        => [queryBackend = "D3D12" => Queries!ReadsFresh]_Queries!vars
  <2>1. Queries!Read => QueriesProved!Read
    BY SameID DEF Queries!Read, QueriesProved!Read, Queries!Readable, QueriesProved!Readable,
       Queries!submission, QueriesProved!submission, Queries!device, QueriesProved!device
  <2>2. QED
    BY <2>1 DEF QueriesProved!ReadsFresh, Queries!ReadsFresh, Queries!vars, Queries!submission,
       Queries!device, Queries!reader, QueriesProved!vars, QueriesProved!submission,
       QueriesProved!device, QueriesProved!reader
<1>3. QED
  BY <1>1, <1>2, QueriesWithin, PTL
  DEF FreshBehindFence, Queries!FreshBehindFence, QueriesProved!FreshBehindFence

(* A slot that was reset stays so until it is submitted again              *)
(* (rhi-shared.cpp:385-437).                                               *)
THEOREM ResetsStay == Spec => ResetStays
<1> DEFINE Stays == \A s \in Slots :
                       slot[s].state = "Reset" => slot'[s].state \in {"Reset", "Pending"}
<1>1. QueriesProved!Spec => QueriesProved!ResetStays
  BY QueryConstants, QueriesProved!ResetsStay
<1>2. [Stays]_QueriesProved!vars => [Stays]_Queries!vars
  BY DEF Queries!vars, Queries!submission, Queries!device, Queries!reader, QueriesProved!vars,
         QueriesProved!submission, QueriesProved!device, QueriesProved!reader
<1>3. QED
  BY <1>1, <1>2, QueriesWithin, PTL
  DEF ResetStays, Queries!ResetStays, QueriesProved!ResetStays

(* The two instances of Surfaces are the same.                            *)
LEMMA SameFinite ==
    /\ \A S : Surface!IsFiniteSet(S) = SurfaceProved!IsFiniteSet(S)
    /\ \A S : Surface!Cardinality(S) = SurfaceProved!Cardinality(S)
<1>1. \A S : Surface!IsFiniteSet(S) = SurfaceProved!IsFiniteSet(S)
  BY DEF Surface!IsFiniteSet, SurfaceProved!IsFiniteSet
<1>2. \A S : Surface!Cardinality(S) = SurfaceProved!Cardinality(S)
  BY DEF Surface!Cardinality, SurfaceProved!Cardinality
<1>3. QED
  BY <1>1, <1>2

LEMMA SameFollowing == \A i : Surface!Following(i) = SurfaceProved!Following(i)
BY SameFinite DEF Surface!Following, SurfaceProved!Following

LEMMA SameSurface == Surface!Next => SurfaceProved!Next
<1>1. ASSUME Surface!BeginReconfigure PROVE SurfaceProved!BeginReconfigure
  BY <1>1 DEF Surface!BeginReconfigure, SurfaceProved!BeginReconfigure, Surface!Reconfigure,
     SurfaceProved!Reconfigure, Surface!BetweenFrames, SurfaceProved!BetweenFrames,
     Surface!chain, SurfaceProved!chain, Surface!indices, SurfaceProved!indices, Surface!device,
     SurfaceProved!device, Surface!cuda, SurfaceProved!cuda, Surface!dxgi, SurfaceProved!dxgi
<1>2. ASSUME Surface!DestroySwapchain PROVE SurfaceProved!DestroySwapchain
  BY <1>2 DEF Surface!DestroySwapchain, SurfaceProved!DestroySwapchain, Surface!WaitIdle,
     SurfaceProved!WaitIdle, Surface!None, SurfaceProved!None, Surface!Enter,
     SurfaceProved!Enter, Surface!Unconfigured, SurfaceProved!Unconfigured
<1>3. ASSUME Surface!CreateSwapchain PROVE SurfaceProved!CreateSwapchain
  BY <1>3 DEF Surface!CreateSwapchain, SurfaceProved!CreateSwapchain, Surface!Pristine,
     SurfaceProved!Pristine, Surface!Semaphores, SurfaceProved!Semaphores, Surface!Configured,
     SurfaceProved!Configured
<1>4. ASSUME Surface!VulkanAcquire PROVE SurfaceProved!VulkanAcquire
  BY <1>4 DEF Surface!VulkanAcquire, SurfaceProved!VulkanAcquire, Surface!FrameFinished,
     SurfaceProved!FrameFinished, Surface!ResetFence, SurfaceProved!ResetFence,
     Surface!AcquireImage, SurfaceProved!AcquireImage, Surface!Acquirable,
     SurfaceProved!Acquirable, Surface!Available, SurfaceProved!Available, Surface!Finished,
     SurfaceProved!Finished, Surface!Returns, SurfaceProved!Returns, Surface!AcquireFails,
     SurfaceProved!AcquireFails, Surface!None, SurfaceProved!None
<1>5. ASSUME Surface!CudaDestroySwapchain PROVE SurfaceProved!CudaDestroySwapchain
  BY <1>5 DEF Surface!CudaDestroySwapchain, SurfaceProved!CudaDestroySwapchain,
     Surface!DestroySwapchain, SurfaceProved!DestroySwapchain, Surface!WaitIdle,
     SurfaceProved!WaitIdle, Surface!None, SurfaceProved!None, Surface!Enter,
     SurfaceProved!Enter, Surface!Unconfigured, SurfaceProved!Unconfigured, Surface!Pristine,
     SurfaceProved!Pristine, Surface!Semaphores, SurfaceProved!Semaphores
<1>6. ASSUME Surface!CudaCreateSwapchain PROVE SurfaceProved!CudaCreateSwapchain
  BY <1>6 DEF Surface!CudaCreateSwapchain, SurfaceProved!CudaCreateSwapchain,
     Surface!CreateSwapchain, SurfaceProved!CreateSwapchain, Surface!Pristine,
     SurfaceProved!Pristine, Surface!Semaphores, SurfaceProved!Semaphores, Surface!Configured,
     SurfaceProved!Configured, Surface!cuda, SurfaceProved!cuda
<1>7. ASSUME Surface!CudaAcquire PROVE SurfaceProved!CudaAcquire
  BY <1>7 DEF Surface!CudaAcquire, SurfaceProved!CudaAcquire, Surface!FrameFinished,
     SurfaceProved!FrameFinished, Surface!ResetFence, SurfaceProved!ResetFence,
     Surface!AcquireImage, SurfaceProved!AcquireImage, Surface!Acquirable,
     SurfaceProved!Acquirable, Surface!Available, SurfaceProved!Available, Surface!Returns,
     SurfaceProved!Returns, Surface!AcquireFails, SurfaceProved!AcquireFails, Surface!None,
     SurfaceProved!None, Surface!cuda, SurfaceProved!cuda
<1>8. ASSUME Surface!CudaPresent PROVE SurfaceProved!CudaPresent
  BY <1>8, SameFollowing DEF Surface!CudaPresent, SurfaceProved!CudaPresent,
     Surface!StreamSynchronized, SurfaceProved!StreamSynchronized, Surface!CopyToImage,
     SurfaceProved!CopyToImage, Surface!Available, SurfaceProved!Available, Surface!Finished,
     SurfaceProved!Finished, Surface!QueuePresent, SurfaceProved!QueuePresent, Surface!Returns,
     SurfaceProved!Returns
<1>9. ASSUME Surface!D3D12Configure PROVE SurfaceProved!D3D12Configure
  BY <1>9 DEF Surface!D3D12Configure, SurfaceProved!D3D12Configure, Surface!Configured,
     SurfaceProved!Configured, Surface!AllSet, SurfaceProved!AllSet
<1>10. ASSUME Surface!D3D12Unconfigure PROVE SurfaceProved!D3D12Unconfigure
  BY <1>10 DEF Surface!D3D12Unconfigure, SurfaceProved!D3D12Unconfigure, Surface!Unconfigured,
     SurfaceProved!Unconfigured, Surface!dxgi, SurfaceProved!dxgi
<1>11. ASSUME Surface!D3D12Acquire PROVE SurfaceProved!D3D12Acquire
  BY <1>11 DEF Surface!D3D12Acquire, SurfaceProved!D3D12Acquire, Surface!ResetEvent,
     SurfaceProved!ResetEvent, Surface!Returns, SurfaceProved!Returns
<1>12. ASSUME Surface!VulkanBeginAcquire PROVE SurfaceProved!VulkanBeginAcquire
  BY <1>12 DEF Surface!VulkanBeginAcquire, SurfaceProved!VulkanBeginAcquire, Surface!MayAcquire,
     SurfaceProved!MayAcquire, Surface!Enter, SurfaceProved!Enter, Surface!indices,
     SurfaceProved!indices, Surface!device, SurfaceProved!device
<1>13. ASSUME Surface!VulkanSubmit PROVE SurfaceProved!VulkanSubmit
  BY <1>13 DEF Surface!VulkanSubmit, SurfaceProved!VulkanSubmit, Surface!Submission,
     SurfaceProved!Submission, Surface!SyncWaits, SurfaceProved!SyncWaits, Surface!None,
     SurfaceProved!None, Surface!NoSync, SurfaceProved!NoSync, Surface!client,
     SurfaceProved!client, Surface!indices, SurfaceProved!indices
<1>14. ASSUME Surface!VulkanPresent PROVE SurfaceProved!VulkanPresent
  BY <1>14, SameFollowing DEF Surface!VulkanPresent, SurfaceProved!VulkanPresent,
     Surface!InFrame, SurfaceProved!InFrame, Surface!None, SurfaceProved!None,
     Surface!TransitionIfNotSubmitted, SurfaceProved!TransitionIfNotSubmitted,
     Surface!Submission, SurfaceProved!Submission, Surface!SyncWaits, SurfaceProved!SyncWaits,
     Surface!NoSync, SurfaceProved!NoSync, Surface!QueuePresent, SurfaceProved!QueuePresent,
     Surface!Finished, SurfaceProved!Finished, Surface!Returns, SurfaceProved!Returns
<1>15. ASSUME Surface!CudaBeginAcquire PROVE SurfaceProved!CudaBeginAcquire
  BY <1>15 DEF Surface!CudaBeginAcquire, SurfaceProved!CudaBeginAcquire, Surface!MayAcquire,
     SurfaceProved!MayAcquire, Surface!Enter, SurfaceProved!Enter, Surface!indices,
     SurfaceProved!indices, Surface!device, SurfaceProved!device, Surface!cuda,
     SurfaceProved!cuda
<1>16. ASSUME Surface!LaunchKernel PROVE SurfaceProved!LaunchKernel
  BY <1>16 DEF Surface!LaunchKernel, SurfaceProved!LaunchKernel, Surface!InFrame,
     SurfaceProved!InFrame, Surface!client, SurfaceProved!client, Surface!indices,
     SurfaceProved!indices, Surface!device, SurfaceProved!device
<1>17. ASSUME Surface!CudaBeginPresent PROVE SurfaceProved!CudaBeginPresent
  BY <1>17 DEF Surface!CudaBeginPresent, SurfaceProved!CudaBeginPresent, Surface!InFrame,
     SurfaceProved!InFrame, Surface!None, SurfaceProved!None, Surface!Enter,
     SurfaceProved!Enter, Surface!indices, SurfaceProved!indices, Surface!device,
     SurfaceProved!device, Surface!cuda, SurfaceProved!cuda
<1>18. ASSUME Surface!D3D12BeginAcquire PROVE SurfaceProved!D3D12BeginAcquire
  BY <1>18 DEF Surface!D3D12BeginAcquire, SurfaceProved!D3D12BeginAcquire, Surface!MayAcquire,
     SurfaceProved!MayAcquire, Surface!Enter, SurfaceProved!Enter, Surface!dxgi,
     SurfaceProved!dxgi
<1>19. ASSUME Surface!D3D12Present PROVE SurfaceProved!D3D12Present
  BY <1>19, SameFollowing DEF Surface!D3D12Present, SurfaceProved!D3D12Present, Surface!InFrame,
     SurfaceProved!InFrame, Surface!SetEventOnCompletion, SurfaceProved!SetEventOnCompletion,
     Surface!Returns, SurfaceProved!Returns
<1>20. ASSUME Surface!Execute PROVE SurfaceProved!Execute
  BY <1>20 DEF Surface!Execute, SurfaceProved!Execute, Surface!Executable,
     SurfaceProved!Executable, Surface!Ready, SurfaceProved!Ready, Surface!Semaphores,
     SurfaceProved!Semaphores, Surface!client, SurfaceProved!client, Surface!indices,
     SurfaceProved!indices
<1>21. ASSUME NEW i, Surface!Show(i) PROVE SurfaceProved!Show(i)
  BY <1>21 DEF Surface!Show, SurfaceProved!Show, Surface!Showable, SurfaceProved!Showable,
     Surface!Ready, SurfaceProved!Ready, Surface!client, SurfaceProved!client, Surface!indices,
     SurfaceProved!indices
<1>22. ASSUME NEW a, Surface!BecomeAvailable(a) PROVE SurfaceProved!BecomeAvailable(a)
  BY <1>22 DEF Surface!BecomeAvailable, SurfaceProved!BecomeAvailable, Surface!client,
     SurfaceProved!client, Surface!indices, SurfaceProved!indices
<1>23. ASSUME Surface!KernelFinishes PROVE SurfaceProved!KernelFinishes
  BY <1>23 DEF Surface!KernelFinishes, SurfaceProved!KernelFinishes, Surface!client,
     SurfaceProved!client, Surface!indices, SurfaceProved!indices, Surface!device,
     SurfaceProved!device
<1>24. ASSUME Surface!FenceSignalled PROVE SurfaceProved!FenceSignalled
  BY <1>24 DEF Surface!FenceSignalled, SurfaceProved!FenceSignalled, Surface!None,
     SurfaceProved!None, Surface!client, SurfaceProved!client
<1>25. QED
  BY <1>1, <1>2, <1>3, <1>4, <1>5, <1>6, <1>7, <1>8, <1>9, <1>10, <1>11, <1>12, <1>13, <1>14,
     <1>15, <1>16, <1>17, <1>18, <1>19, <1>20, <1>21, <1>22, <1>23, <1>24 DEF Surface!Next,
     SurfaceProved!Next, Surface!Calls, SurfaceProved!Calls, Surface!Host, SurfaceProved!Host,
     Surface!Gpu, SurfaceProved!Gpu, Surface!VulkanHost, SurfaceProved!VulkanHost,
     Surface!CudaHost, SurfaceProved!CudaHost, Surface!D3D12Host, SurfaceProved!D3D12Host,
     Surface!VulkanCalls, SurfaceProved!VulkanCalls, Surface!CudaCalls, SurfaceProved!CudaCalls,
     Surface!D3D12Calls, SurfaceProved!D3D12Calls, Surface!Engine, SurfaceProved!Engine,
     Surface!chain, SurfaceProved!chain, Surface!indices, SurfaceProved!indices, Surface!device,
     SurfaceProved!device, Surface!cuda, SurfaceProved!cuda, Surface!dxgi, SurfaceProved!dxgi

LEMMA SurfaceWithin == Spec => SurfaceProved!Spec
<1>1. Init => SurfaceProved!Init
  BY DEF Init, Surface!Init, SurfaceProved!Init, Surface!ClientInit, SurfaceProved!ClientInit,
     Surface!SwapchainInit, SurfaceProved!SwapchainInit, Surface!None, SurfaceProved!None,
     Surface!Pristine, SurfaceProved!Pristine, Surface!Semaphores, SurfaceProved!Semaphores,
     Surface!D3D12Init, SurfaceProved!D3D12Init, Surface!AllSet, SurfaceProved!AllSet,
     Surface!NoSync, SurfaceProved!NoSync
<1>2. [Next]_vars => [SurfaceProved!Next]_SurfaceProved!vars
  BY SameSurface DEF Next, vars, surfaceVars, SurfaceProved!vars, SurfaceProved!client,
     SurfaceProved!chain, SurfaceProved!indices, SurfaceProved!device, SurfaceProved!cuda,
     SurfaceProved!dxgi
<1>3. QED
  BY <1>1, <1>2, PTL DEF Spec, SurfaceProved!Spec

LEMMA SurfaceConstants == SurfaceProved!SurfacesConstants
BY Surface!SurfacesConstants, SameFinite DEF SurfaceProved!SurfacesConstants, Surface!SurfacesConstants

(* The host does not run ahead of the device by more frames than the       *)
(* fences or events of the swapchain allow (d3d12-surface.cpp:66-97,       *)
(* vk-surface.cpp:506-511).                                                *)
THEOREM Throttled == Spec => []FramesThrottled
<1>1. SurfaceProved!Spec => []SurfaceProved!FramesThrottled
  BY SurfaceConstants, SurfaceProved!Throttled
<1>2. SurfaceProved!FramesThrottled => FramesThrottled
  BY SameFinite DEF SurfaceProved!FramesThrottled, FramesThrottled, Surface!FramesThrottled,
     SurfaceProved!None, Surface!None
<1>3. QED
  BY <1>1, <1>2, SurfaceWithin, PTL

(* Semaphores and fences of a surface's frames and images are used in      *)
(* pairs, by objects that exist (vk-surface.cpp:495-585,                   *)
(* vk-command.cpp:2072-2132, cuda-surface.cpp:926-1190).                   *)
THEOREM Paired == Spec => []SyncObjectsPaired
<1>1. SurfaceProved!Spec => []SurfaceProved!SyncObjectsPaired
  BY SurfaceConstants, SurfaceProved!Paired
<1>2. SurfaceProved!SyncObjectsPaired => SyncObjectsPaired
  BY SameFinite DEF SurfaceProved!SyncObjectsPaired, SyncObjectsPaired,
     Surface!SyncObjectsPaired, SurfaceProved!None, Surface!None, SurfaceProved!Semaphores,
     Surface!Semaphores, SurfaceProved!Waiting, Surface!Waiting, SurfaceProved!Signalling,
     Surface!Signalling
<1>3. QED
  BY <1>1, <1>2, SurfaceWithin, PTL

(* Images, and textures shared with CUDA, are written and shown by one     *)
(* side at a time, in the layout it expects (vk-surface.cpp:543-585,       *)
(* cuda-surface.cpp:963-1190).                                             *)
THEOREM HandedOver == Spec => []ImagesHandedOver
<1>1. SurfaceProved!Spec => []SurfaceProved!ImagesHandedOver
  BY SurfaceConstants, SurfaceProved!HandedOver
<1>2. SurfaceProved!ImagesHandedOver => ImagesHandedOver
  BY DEF SurfaceProved!ImagesHandedOver, ImagesHandedOver, Surface!ImagesHandedOver,
     SurfaceProved!None, Surface!None, SurfaceProved!Executable, Surface!Executable,
     SurfaceProved!Showable, Surface!Showable, SurfaceProved!Ready, Surface!Ready,
     SurfaceProved!Available, Surface!Available
<1>3. QED
  BY <1>1, <1>2, SurfaceWithin, PTL
=============================================================================
