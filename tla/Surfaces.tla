------------------------------- MODULE Surfaces -----------------------------
(***************************************************************************)
(* A surface of one of three backends, its client, and the device.         *)
(***************************************************************************)
EXTENDS VulkanSurface, CUDASurface, D3D12Surface

CONSTANT SurfaceBackends  \* which backends a behaviour may be of

SurfacesConstants ==
    /\ IsFiniteSet(Images) /\ Images # {} /\ Images = 0..(Cardinality(Images) - 1)
    /\ MaxQueued \in Nat \ {0} /\ MaxWrites \in Nat
    /\ SurfaceBackends \subseteq {"Vulkan", "CUDA", "D3D12"}

chain == <<indices, device>>
vars == <<backend, client, chain, sync, cuda, dxgi>>

Init ==
    /\ backend \in SurfaceBackends
    /\ ClientInit /\ SwapchainInit /\ D3D12Init
    /\ sync = NoSync
    /\ stream = <<>> /\ known = Pristine.layout

(* The client of D3D12 has waited for the GPU.                             *)
BeginReconfigure ==
    /\ \E call \in {"configure", "unconfigure"} : Reconfigure(call)
    /\ signals = 0
    /\ UNCHANGED <<backend, chain, sync, cuda, dxgi>>

(* What goes on once a call was begun, on each backend.                    *)
VulkanHost ==
    /\ backend = "Vulkan"
    /\ \/ (DestroySwapchain \/ CreateSwapchain) /\ UNCHANGED sync
       \/ VulkanAcquire

CudaHost ==
    /\ backend = "CUDA"
    /\ CudaDestroySwapchain \/ CudaCreateSwapchain \/ CudaAcquire \/ CudaPresent

D3D12Host ==
    /\ backend = "D3D12"
    /\ D3D12Configure \/ D3D12Unconfigure \/ D3D12Acquire

Host ==
    \/ VulkanHost /\ UNCHANGED <<cuda, dxgi>>
    \/ CudaHost /\ UNCHANGED <<sync, dxgi>>
    \/ D3D12Host /\ UNCHANGED <<chain, sync, cuda>>

Calls ==
    \/ BeginReconfigure
    \/ backend = "Vulkan" /\ VulkanCalls /\ UNCHANGED <<cuda, dxgi>>
    \/ backend = "CUDA" /\ CudaCalls /\ UNCHANGED <<sync, dxgi>>
    \/ backend = "D3D12" /\ D3D12Calls /\ UNCHANGED <<chain, sync, cuda>>

Gpu ==
    \/ Engine /\ UNCHANGED <<sync, cuda, dxgi>>
    \/ KernelFinishes /\ UNCHANGED <<sync, dxgi>>
    \/ FenceSignalled /\ UNCHANGED <<chain, sync, cuda>>

Next == Calls \/ Host \/ Gpu

Spec == Init /\ [][Next]_vars

(* A call goes on when it can, and so do the device, the engine and the    *)
(* stream, each with what comes first.                                     *)
Fairness ==
    /\ WF_vars(Host)
    /\ WF_vars(Execute /\ UNCHANGED <<sync, cuda, dxgi>>)
    /\ WF_vars((\E i \in Images : Show(i)) /\ UNCHANGED <<sync, cuda, dxgi>>)
    /\ WF_vars((\E a \in acquiring : BecomeAvailable(a)) /\ UNCHANGED <<sync, cuda, dxgi>>)
    /\ WF_vars(KernelFinishes /\ UNCHANGED <<sync, dxgi>>)
    /\ WF_vars(FenceSignalled /\ UNCHANGED <<chain, sync, cuda>>)

FairSpec == Spec /\ Fairness

-----------------------------------------------------------------------------
(* The types of the variables.                                             *)
TypeOK ==
    /\ host \in {"idle", "configure", "unconfigure", "create", "acquire", "present"}
    /\ frame \in Images /\ current \in Images \cup {None}
    /\ fence \in [Images -> BOOLEAN]
    /\ semaphore \in [Semaphores -> Int]
    /\ image \in [Images -> {"free", "acquired", "queued"}]
    /\ known \in [Images -> {"undefined", "present"}]
    /\ event \in [Images -> BOOLEAN] /\ signals \in Nat

(* Signals of s that are submitted or on their way from the engine.        *)
Signalling(s) ==
    {n \in DOMAIN queue : s \in queue[n].signals}
        \cup {a \in acquiring : a.signals = s}

Waiting(s) ==
    {n \in DOMAIN queue : s \in queue[n].waits}
        \cup {i \in Images : \E n \in DOMAIN presents[i] : presents[i][n] = s}

(* Binary semaphores and fences are used in pairs, over frames that render *)
(* in one order and images that come back in another: no semaphore is      *)
(* signalled twice without a wait, none is waited for that nobody signals, *)
(* none is given to the engine in use; a fence is of one submission, and   *)
(* was reset before.  Nothing the device or the engine has in hand belongs *)
(* to a swapchain that was destroyed.                                      *)
SyncObjectsPaired ==
    /\ \A s \in Semaphores :
          /\ semaphore[s] \in {0, 1}
          /\ Waiting(s) # {} => semaphore[s] = 1 \/ Signalling(s) # {}
          /\ \A a \in acquiring : a.signals = s => semaphore[s] = 0
    /\ \A f \in Images :
          LET of == {n \in DOMAIN queue : queue[n].fence = f} IN
             Cardinality(of) <= 1 /\ (of # {} => ~fence[f])
    /\ swapchain \/ \A i \in Images : presents[i] = <<>>
    /\ swapchain \/ \A n \in DOMAIN queue : queue[n].fence = None /\ queue[n].image = None

(* An image is written only while the client has it, and shown only when   *)
(* what draws it is finished, in the layout for presentation; a copy knows *)
(* the layout the image is in.  No kernel writes a shared texture that a   *)
(* copy still reads, nor reads a copy one that a kernel still writes.      *)
ImagesHandedOver ==
    /\ Executable /\ Head(queue).image # None =>
          /\ \A a \in acquiring : a.signals # Available(Head(queue).fence)
          /\ Head(queue).from \in {"undefined", layout[Head(queue).image]}
    /\ \A i \in Images : Showable(i) =>
          /\ layout[i] = "present"
          /\ (\E n \in DOMAIN queue : queue[n].image = i) =>
                \E a \in acquiring : a.image = i /\ a.ahead > 0
    /\ \A n \in DOMAIN queue, m \in DOMAIN stream : queue[n].reads # stream[m]

(* The host is ahead of the device by as many frames as there are images,  *)
(* and one more where the event of an image is that of the frame before.   *)
FramesThrottled ==
    /\ Cardinality({n \in DOMAIN queue : queue[n].fence # None}) <= Cardinality(Images)
    /\ signals <= Cardinality(Images) + 1

(* Every call returns: what acquireNextImage() waits for is signalled,     *)
(* whatever failed before the surface was configured again.                *)
SurfaceCallsReturn == host # "idle" ~> host = "idle"
=============================================================================
