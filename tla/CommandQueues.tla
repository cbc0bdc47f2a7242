---------------------------- MODULE CommandQueues ---------------------------
(***************************************************************************)
(* The command queue of whichever backend a device has.                    *)
(***************************************************************************)
EXTENDS VulkanQueue, D3D12Queue, MetalQueue, CUDAQueue, TLC

(* What clients do alike with every queue, and with one of them.           *)
ClientStep ==
    \/ \E b \in Buffers :
          \/ FinishEncoder(b) \/ ReleaseBuffer(b)
          \/ \E r \in Resources : RecordTracked(b, r) \/ RecordRaw(b, r)
    \/ \E r \in Resources : ReleaseResource(r)
    \/ ReleaseDevice
    \/ backend = "Vulkan" /\ VulkanClientStep
    \/ backend = "D3D12" /\ D3D12ClientStep
    \/ backend = "Metal" /\ MetalClientStep
    \/ backend = "CUDA" /\ CUDAClientStep

(* A call of the submitting thread that has begun goes on.                 *)
SubmitterStep ==
    \/ backend = "Vulkan" /\ VulkanSubmitterStep
    \/ backend = "D3D12" /\ D3D12SubmitterStep
    \/ backend = "Metal" /\ MetalSubmitterStep
    \/ backend = "CUDA" /\ CUDASubmitterStep

GpuStep ==
    \/ backend = "Vulkan" /\ VulkanGpuFinish
    \/ backend = "D3D12" /\ D3D12GpuFinish
    \/ backend = "Metal" /\ MetalGpuStep
    \/ backend = "CUDA" /\ CUDAGpuStep

DestroyDevice ==
    \/ backend = "Vulkan" /\ VulkanDestroyDevice
    \/ backend = "D3D12" /\ D3D12DestroyDevice
    \/ backend = "Metal" /\ MetalDestroyDevice
    \/ backend = "CUDA" /\ CUDADestroyDevice

Next ==
    \/ ClientStep \/ SubmitterStep \/ GpuStep \/ DestroyDevice
    \/ \E r \in Resources : BreakDeviceReference(r)
    \/ destroyed /\ UNCHANGED vars

Spec == Init /\ [][Next]_vars

(* submit() and waitOnHost() go on once they were called, the GPU finishes *)
(* what it has, a release goes on to the end.  Clients call what they like.*)
FairSpec ==
    /\ Spec
    /\ WF_vars(SubmitterStep)
    /\ WF_vars(GpuStep)
    /\ WF_vars(DestroyDevice)
    /\ \A r \in Resources : WF_vars(BreakDeviceReference(r))

-----------------------------------------------------------------------------
(* Instances for TLC.  Vulkan takes an ID per submit(), D3D12 one more per *)
(* wait, Metal counts from 1, CUDA takes one per buffer.                   *)
IDs == [q \in Backends |-> CASE q = "Vulkan" -> 2 [] q = "CUDA" -> 4 [] OTHER -> 3]

Makes == [q \in Backends |-> IF q = "D3D12" THEN 1 ELSE Cardinality(Resources)]

(* Which buffer and which resource makes no difference.                    *)
Interchangeable == Permutations(Buffers) \cup Permutations(Resources)
                   \cup Permutations(Streams)
=============================================================================
