--------------------------- MODULE SurfacesProofs ---------------------------
(***************************************************************************)
(* Safety of a surface, for any number of images and any backend.          *)
(***************************************************************************)
EXTENDS Surfaces, SequenceTheorems, FiniteSetTheorems, TLAPS

N == Cardinality(Images)

Layouts == {"undefined", "present"}

Submissions ==
    [waits : SUBSET Semaphores, signals : SUBSET Semaphores, fence : Images \cup {None},
     image : Images \cup {None}, reads : Images \cup {None}, from : Layouts]

ClientTyped ==
    /\ host \in {"idle", "configure", "unconfigure", "create", "acquire", "present"}
    /\ configured \in BOOLEAN /\ lost \in BOOLEAN
    /\ debug \in [configured : BOOLEAN, state : {"Initial", "ImageAcquired", "ImagePresented"}]

ChainTyped ==
    /\ swapchain \in BOOLEAN
    /\ frame \in Images /\ current \in Images \cup {None}
    /\ fence \in [Images -> BOOLEAN]
    /\ semaphore \in [Semaphores -> Int]
    /\ image \in [Images -> {"free", "acquired", "queued"}]
    /\ layout \in [Images -> Layouts]
    /\ acquiring \subseteq [image : Images, signals : Semaphores, ahead : Nat]
    /\ queue \in Seq(Submissions)
    /\ presents \in [Images -> Seq(Semaphores)]
    /\ sync \in [fence : Images \cup {None}, waits : SUBSET Semaphores,
                 signals : SUBSET Semaphores]
    /\ stream \in Seq(Images)
    /\ known \in [Images -> Layouts]

EventsTyped ==
    /\ back \in Images
    /\ event \in [Images -> BOOLEAN]
    /\ armed \in [Images -> Nat \cup {None}]
    /\ signals \in Nat

TypeInv == ClientTyped /\ ChainTyped /\ EventsTyped

(* The client acquired an image and may present it.                        *)
FrameOpen == configured /\ ~lost /\ debug.state = "ImageAcquired"

(* What the call in progress says of the state.                            *)
CallInv ==
    /\ host \in {"configure", "unconfigure", "create"} => ~configured
    /\ host = "create" => queue = <<>>
    /\ host = "acquire" => configured /\ ~lost /\ debug.state # "ImageAcquired"
    /\ host = "present" => FrameOpen /\ backend = "CUDA" /\ current # None

(* Objects are left for the next submission only in an open frame.         *)
SyncInv ==
    /\ sync.fence = None => sync = NoSync
    /\ sync # NoSync =>
          backend = "Vulkan" /\ FrameOpen /\ host = "idle" /\ sync.fence = frame

(* The fence of the current frame is still to be submitted.                *)
FencePending == sync # NoSync \/ (backend = "CUDA" /\ FrameOpen)

(* A fence is of one submission, and was reset before.                     *)
FenceInv ==
    /\ \A n \in DOMAIN queue : queue[n].fence # None => ~fence[queue[n].fence]
    /\ \A n, m \in DOMAIN queue :
          n # m /\ queue[n].fence # None => queue[n].fence # queue[m].fence
    /\ FencePending => ~fence[frame] /\ \A n \in DOMAIN queue : queue[n].fence # frame

(* How many presentations ago an image was presented.                      *)
Age(i) == IF i < back THEN back - i ELSE back - i + N

(* The fence is behind what is submitted by no more frames than have       *)
(* passed since an image whose event is set.                               *)
EventInv ==
    /\ backend # "D3D12" => signals = 0
    /\ backend = "D3D12" /\ host = "configure" => signals = 0
    /\ \A i \in Images :
          /\ event[i] => armed[i] = None
          /\ armed[i] # None => armed[i] \in 1..signals
    /\ signals <= N + 1
    /\ configured /\ ~lost =>
          \A i \in Images :
             /\ event[i] => signals <= Age(i)
             /\ armed[i] # None => armed[i] >= signals - Age(i)
    /\ backend = "D3D12" /\ FrameOpen =>
          signals <= N /\ ~event[back] /\ armed[back] = None

SurfaceInv == TypeInv /\ CallInv /\ SyncInv /\ FenceInv /\ EventInv

LEMMA ClientNext == SurfacesConstants /\ ClientTyped /\ CallInv /\ [Next]_vars => ClientTyped' /\ CallInv'
<1> SUFFICES ASSUME SurfacesConstants, ClientTyped, CallInv, [Next]_vars PROVE ClientTyped' /\ CallInv'
  OBVIOUS
<1> USE DEF ClientTyped, CallInv, FrameOpen, chain, indices, device, cuda, client, dxgi
<1>1. ASSUME BeginReconfigure PROVE ClientTyped' /\ CallInv'
  BY <1>1 DEF BeginReconfigure, Reconfigure, BetweenFrames
<1>2. ASSUME backend = "Vulkan", VulkanBeginAcquire, UNCHANGED <<cuda, dxgi>> PROVE
   ClientTyped' /\ CallInv'
  BY <1>2 DEF VulkanBeginAcquire, MayAcquire, Enter
<1>3. ASSUME backend = "Vulkan", VulkanSubmit, UNCHANGED <<cuda, dxgi>> PROVE
   ClientTyped' /\ CallInv'
  BY <1>3 DEF VulkanSubmit, Submission, SyncWaits
<1>4. ASSUME backend = "Vulkan", VulkanPresent, UNCHANGED <<cuda, dxgi>> PROVE
   ClientTyped' /\ CallInv'
  BY <1>4 DEF VulkanPresent, InFrame, TransitionIfNotSubmitted, Submission, SyncWaits,
     QueuePresent, Returns
<1>5. ASSUME backend = "CUDA", CudaBeginAcquire, UNCHANGED <<sync, dxgi>> PROVE
   ClientTyped' /\ CallInv'
  BY <1>5 DEF CudaBeginAcquire, MayAcquire, Enter
<1>6. ASSUME backend = "CUDA", LaunchKernel, UNCHANGED <<sync, dxgi>> PROVE ClientTyped'
   /\ CallInv'
  BY <1>6 DEF LaunchKernel, InFrame
<1>7. ASSUME backend = "CUDA", CudaBeginPresent, UNCHANGED <<sync, dxgi>> PROVE
   ClientTyped' /\ CallInv'
  BY <1>7 DEF CudaBeginPresent, InFrame, Enter
<1>8. ASSUME backend = "D3D12", D3D12BeginAcquire, UNCHANGED <<chain, sync, cuda>> PROVE
   ClientTyped' /\ CallInv'
  BY <1>8 DEF D3D12BeginAcquire, MayAcquire, Enter
<1>9. ASSUME backend = "D3D12", D3D12Present, UNCHANGED <<chain, sync, cuda>> PROVE
   ClientTyped' /\ CallInv'
  BY <1>9 DEF D3D12Present, InFrame, SetEventOnCompletion, Returns
<1>10. ASSUME backend = "Vulkan", DestroySwapchain, UNCHANGED sync, UNCHANGED <<cuda,
   dxgi>> PROVE ClientTyped' /\ CallInv'
  BY <1>10 DEF DestroySwapchain, WaitIdle, Enter, Unconfigured
<1>11. ASSUME backend = "Vulkan", CreateSwapchain, UNCHANGED sync, UNCHANGED <<cuda,
   dxgi>> PROVE ClientTyped' /\ CallInv'
  <2>1. host = "create" /\ host' = "idle" /\ lost' = lost
    BY <1>11 DEF CreateSwapchain, Configured
  <2>2. \/ configured' = TRUE /\ debug' = [configured |-> TRUE, state |-> "Initial"]
        \/ configured' = FALSE /\ debug' = debug
    BY <1>11 DEF CreateSwapchain, Configured
  <2>3. CASE configured' = TRUE /\ debug' = [configured |-> TRUE, state |-> "Initial"]
    BY <2>1, <2>3
  <2>4. CASE configured' = FALSE /\ debug' = debug
    BY <2>1, <2>4
  <2>5. QED
    BY <2>2, <2>3, <2>4
<1>12. ASSUME backend = "Vulkan", VulkanAcquire, UNCHANGED <<cuda, dxgi>> PROVE
   ClientTyped' /\ CallInv'
  BY <1>12 DEF VulkanAcquire, FrameFinished, ResetFence, AcquireImage, AcquireFails,
     Returns
<1>13. ASSUME backend = "CUDA", CudaDestroySwapchain, UNCHANGED <<sync, dxgi>> PROVE
   ClientTyped' /\ CallInv'
  BY <1>13 DEF CudaDestroySwapchain, DestroySwapchain, WaitIdle, Enter, Unconfigured
<1>14. ASSUME backend = "CUDA", CudaCreateSwapchain, UNCHANGED <<sync, dxgi>> PROVE
   ClientTyped' /\ CallInv'
  <2>1. host = "create" /\ host' = "idle" /\ lost' = lost
    BY <1>14 DEF CudaCreateSwapchain, CreateSwapchain, Configured
  <2>2. \/ configured' = TRUE /\ debug' = [configured |-> TRUE, state |-> "Initial"]
        \/ configured' = FALSE /\ debug' = debug
    BY <1>14 DEF CudaCreateSwapchain, CreateSwapchain, Configured
  <2>3. CASE configured' = TRUE /\ debug' = [configured |-> TRUE, state |-> "Initial"]
    BY <2>1, <2>3
  <2>4. CASE configured' = FALSE /\ debug' = debug
    BY <2>1, <2>4
  <2>5. QED
    BY <2>2, <2>3, <2>4
<1>15. ASSUME backend = "CUDA", CudaAcquire, UNCHANGED <<sync, dxgi>> PROVE ClientTyped'
   /\ CallInv'
  BY <1>15 DEF CudaAcquire, FrameFinished, ResetFence, AcquireImage, AcquireFails, Returns
<1>16. ASSUME backend = "CUDA", CudaPresent, UNCHANGED <<sync, dxgi>> PROVE ClientTyped'
   /\ CallInv'
  BY <1>16 DEF CudaPresent, CopyToImage, QueuePresent, Returns
<1>17. ASSUME backend = "D3D12", D3D12Configure, UNCHANGED <<chain, sync, cuda>> PROVE
   ClientTyped' /\ CallInv'
  <2>1. host = "configure" /\ host' = "idle" /\ lost' = lost
    BY <1>17 DEF D3D12Configure, Configured
  <2>2. \/ configured' = TRUE /\ debug' = [configured |-> TRUE, state |-> "Initial"]
        \/ configured' = FALSE /\ debug' = debug
    BY <1>17 DEF D3D12Configure, Configured
  <2>3. CASE configured' = TRUE /\ debug' = [configured |-> TRUE, state |-> "Initial"]
    BY <2>1, <2>3
  <2>4. CASE configured' = FALSE /\ debug' = debug
    BY <2>1, <2>4
  <2>5. QED
    BY <2>2, <2>3, <2>4
<1>18. ASSUME backend = "D3D12", D3D12Unconfigure, UNCHANGED <<chain, sync, cuda>> PROVE
   ClientTyped' /\ CallInv'
  BY <1>18 DEF D3D12Unconfigure, Unconfigured
<1>19. ASSUME backend = "D3D12", D3D12Acquire, UNCHANGED <<chain, sync, cuda>> PROVE
   ClientTyped' /\ CallInv'
  BY <1>19 DEF D3D12Acquire, ResetEvent, Returns
<1>20. ASSUME Execute, UNCHANGED <<sync, cuda, dxgi>> PROVE ClientTyped' /\ CallInv'
  BY <1>20 DEF Execute, Executable, Ready
<1>21. ASSUME NEW i \in Images, Show(i), UNCHANGED <<sync, cuda, dxgi>> PROVE
   ClientTyped' /\ CallInv'
  BY <1>21 DEF Show, Showable
<1>22. ASSUME NEW a \in acquiring, BecomeAvailable(a), UNCHANGED <<sync, cuda, dxgi>>
   PROVE ClientTyped' /\ CallInv'
  BY <1>22 DEF BecomeAvailable
<1>23. ASSUME KernelFinishes, UNCHANGED <<sync, dxgi>> PROVE ClientTyped' /\ CallInv'
  BY <1>23 DEF KernelFinishes
<1>24. ASSUME FenceSignalled, UNCHANGED <<chain, sync, cuda>> PROVE ClientTyped' /\
   CallInv'
  BY <1>24 DEF FenceSignalled
<1>25. CASE UNCHANGED vars
  BY <1>25 DEF vars
<1>26. QED
  BY <1>1, <1>2, <1>3, <1>4, <1>5, <1>6, <1>7, <1>8, <1>9, <1>10, <1>11, <1>12, <1>13,
     <1>14, <1>15, <1>16, <1>17, <1>18, <1>19, <1>20, <1>21, <1>22, <1>23, <1>24, <1>25
     DEF Next, Calls, Host, Gpu, VulkanCalls, CudaCalls, D3D12Calls, VulkanHost,
     CudaHost, D3D12Host, Engine

LEMMA ImagesInOrder ==
    ASSUME SurfacesConstants
    PROVE  /\ N \in Nat \ {0} /\ Images = 0..(N - 1)
           /\ \A i \in Images : /\ Following(i) \in Images
                                /\ Following(i) = IF i = N - 1 THEN 0 ELSE i + 1
<1>1. N \in Nat /\ N # 0
  BY FS_CardinalityType, FS_EmptySet DEF SurfacesConstants, N
<1>2. Images = 0..(N - 1)
  BY DEF SurfacesConstants, N
<1>3. ASSUME NEW i \in Images
      PROVE  Following(i) = IF i = N - 1 THEN 0 ELSE i + 1
  <2>1. i \in Int /\ 0 <= i /\ i <= N - 1
    BY <1>1, <1>2
  <2>2. CASE i = N - 1
    <3>1. (i + 1) % N = 0
      BY <1>1, <2>2
    <3>2. QED
      BY <2>2, <3>1 DEF Following, N
  <2>3. CASE i # N - 1
    <3>1. (i + 1) % N = i + 1
      BY <1>1, <2>1, <2>3
    <3>2. QED
      BY <2>3, <3>1 DEF Following, N
  <2>4. QED
    BY <2>2, <2>3
<1>4. ASSUME NEW i \in Images PROVE Following(i) \in Images
  BY <1>1, <1>2, <1>3
<1>5. QED
  BY <1>1, <1>2, <1>3, <1>4

LEMMA NamesTyped ==
    /\ \A f \in Images : Available(f) \in Semaphores /\ Finished(f) \in Semaphores
    /\ NoSync \in [fence : Images \cup {None}, waits : SUBSET Semaphores,
                   signals : SUBSET Semaphores]
    /\ Pristine.fence \in [Images -> BOOLEAN] /\ Pristine.semaphore \in [Semaphores -> Int]
    /\ Pristine.image \in [Images -> {"free", "acquired", "queued"}]
    /\ Pristine.layout \in [Images -> Layouts]
BY DEF Semaphores, Available, Finished, NoSync, Pristine, Layouts

LEMMA SubmissionsTyped ==
    ASSUME ChainTyped
    PROVE  /\ \A i \in Images \cup {None} : Submission(i) \in Submissions
           /\ current \in Images => CopyToImage \in Submissions
<1>1. \A i \in Images \cup {None} : Submission(i) \in Submissions
  BY DEF ChainTyped, Submission, SyncWaits, Submissions, Layouts
<1>2. ASSUME current \in Images PROVE CopyToImage \in Submissions
  BY <1>2, NamesTyped DEF ChainTyped, CopyToImage, Submissions
<1>3. QED
  BY <1>1, <1>2

LEMMA QueueGrows ==
    ASSUME ChainTyped, NEW e \in Submissions, queue' = Append(queue, e)
    PROVE  /\ queue' \in Seq(Submissions)
           /\ Len(queue) \in Nat /\ Len(queue') = Len(queue) + 1
           /\ DOMAIN queue = 1..Len(queue) /\ DOMAIN queue' = 1..(Len(queue) + 1)
           /\ \A n \in 1..Len(queue) : queue'[n] = queue[n]
           /\ queue'[Len(queue) + 1] = e
<1>1. queue \in Seq(Submissions)
  BY DEF ChainTyped
<1>2. queue' \in Seq(Submissions)
  BY <1>1, AppendProperties
<1>3. QED
  BY <1>1, <1>2, AppendProperties, LenProperties

LEMMA QueueShrinks ==
    ASSUME ChainTyped, queue # <<>>, queue' = Tail(queue)
    PROVE  /\ Head(queue) = queue[1] /\ queue[1] \in Submissions
           /\ queue' \in Seq(Submissions)
           /\ Len(queue) \in Nat /\ Len(queue) >= 1 /\ Len(queue') = Len(queue) - 1
           /\ DOMAIN queue = 1..Len(queue) /\ DOMAIN queue' = 1..(Len(queue) - 1)
           /\ \A n \in 1..(Len(queue) - 1) : queue'[n] = queue[n + 1]
<1>1. queue \in Seq(Submissions)
  BY DEF ChainTyped
<1>2. Len(queue) \in Nat /\ Len(queue) # 0
  BY <1>1, EmptySeq, LenProperties
<1>3. queue' \in Seq(Submissions) /\ Len(queue') = Len(queue) - 1
  BY <1>1, HeadTailProperties
<1>4. Head(queue) = queue[1] /\ queue[1] \in Submissions
  BY <1>1, <1>2, ElementOfSeq
<1>5. \A n \in 1..(Len(queue) - 1) : queue'[n] = queue[n + 1]
  BY <1>1, <1>3, HeadTailProperties
<1>6. QED
  BY <1>1, <1>2, <1>3, <1>4, <1>5, LenProperties

LEMMA PresentTyped ==
    ASSUME ChainTyped, current \in Images, QueuePresent
    PROVE  /\ presents' \in [Images -> Seq(Semaphores)]
           /\ image' \in [Images -> {"free", "acquired", "queued"}]
           /\ \A i \in Images : i # current => presents'[i] = presents[i] /\ image'[i] = image[i]
           /\ presents'[current] = Append(presents[current], Finished(current))
           /\ image'[current] = "queued"
<1>1. Append(presents[current], Finished(current)) \in Seq(Semaphores)
  <2>1. presents[current] \in Seq(Semaphores) /\ Finished(current) \in Semaphores
    BY NamesTyped DEF ChainTyped
  <2>2. QED
    BY <2>1, AppendProperties
<1>2. QED
  BY <1>1 DEF ChainTyped, QueuePresent

LEMMA AcquireTyped ==
    ASSUME ChainTyped, NEW i \in Images, AcquireImage(i)
    PROVE  /\ image' \in [Images -> {"free", "acquired", "queued"}]
           /\ acquiring' \subseteq [image : Images, signals : Semaphores, ahead : Nat]
           /\ current' = i
<1>1. Len(presents[i]) \in Nat /\ Available(frame) \in Semaphores
  BY NamesTyped, LenProperties DEF ChainTyped
<1>2. QED
  BY <1>1 DEF ChainTyped, AcquireImage

LEMMA EventsNext == SurfacesConstants /\ EventsTyped /\ [Next]_vars => EventsTyped'
<1> SUFFICES ASSUME SurfacesConstants, EventsTyped, [Next]_vars PROVE EventsTyped'
  OBVIOUS
<1> USE DEF EventsTyped, chain, indices, device, cuda, client, dxgi, None
<1>1. ASSUME BeginReconfigure PROVE EventsTyped'
  BY <1>1 DEF BeginReconfigure, Reconfigure, BetweenFrames
<1>2. ASSUME backend = "Vulkan", VulkanBeginAcquire, UNCHANGED <<cuda, dxgi>> PROVE
   EventsTyped'
  BY <1>2 DEF VulkanBeginAcquire, MayAcquire, Enter
<1>3. ASSUME backend = "Vulkan", VulkanSubmit, UNCHANGED <<cuda, dxgi>> PROVE
   EventsTyped'
  BY <1>3 DEF VulkanSubmit, Submission, SyncWaits
<1>4. ASSUME backend = "Vulkan", VulkanPresent, UNCHANGED <<cuda, dxgi>> PROVE
   EventsTyped'
  BY <1>4 DEF VulkanPresent, InFrame, TransitionIfNotSubmitted, Submission, SyncWaits,
     QueuePresent, Returns
<1>5. ASSUME backend = "CUDA", CudaBeginAcquire, UNCHANGED <<sync, dxgi>> PROVE
   EventsTyped'
  BY <1>5 DEF CudaBeginAcquire, MayAcquire, Enter
<1>6. ASSUME backend = "CUDA", LaunchKernel, UNCHANGED <<sync, dxgi>> PROVE EventsTyped'
  BY <1>6 DEF LaunchKernel, InFrame
<1>7. ASSUME backend = "CUDA", CudaBeginPresent, UNCHANGED <<sync, dxgi>> PROVE
   EventsTyped'
  BY <1>7 DEF CudaBeginPresent, InFrame, Enter
<1>8. ASSUME backend = "D3D12", D3D12BeginAcquire, UNCHANGED <<chain, sync, cuda>> PROVE
   EventsTyped'
  BY <1>8 DEF D3D12BeginAcquire, MayAcquire, Enter
<1>9. ASSUME backend = "D3D12", D3D12Present, UNCHANGED <<chain, sync, cuda>> PROVE
   EventsTyped'
  <2>1. Following(back) \in Images
    BY ImagesInOrder
  <2>2. back' \in Images /\ signals' \in Nat
    <3>1. \/ back' = Following(back) /\ signals' = signals + 1
          \/ back' = back /\ signals' = signals
      BY <1>9 DEF D3D12Present
    <3>2. QED
      BY <2>1, <3>1
  <2>3. event' \in [Images -> BOOLEAN] /\ armed' \in [Images -> Nat \cup {None}]
    BY <1>9 DEF D3D12Present, SetEventOnCompletion
  <2>4. QED
    BY <2>2, <2>3
<1>10. ASSUME backend = "Vulkan", DestroySwapchain, UNCHANGED sync, UNCHANGED <<cuda,
   dxgi>> PROVE EventsTyped'
  BY <1>10 DEF DestroySwapchain, WaitIdle, Enter, Unconfigured
<1>11. ASSUME backend = "Vulkan", CreateSwapchain, UNCHANGED sync, UNCHANGED <<cuda,
   dxgi>> PROVE EventsTyped'
  BY <1>11 DEF CreateSwapchain, Configured
<1>12. ASSUME backend = "Vulkan", VulkanAcquire, UNCHANGED <<cuda, dxgi>> PROVE
   EventsTyped'
  BY <1>12 DEF VulkanAcquire, FrameFinished, ResetFence, AcquireImage, AcquireFails,
     Returns
<1>13. ASSUME backend = "CUDA", CudaDestroySwapchain, UNCHANGED <<sync, dxgi>> PROVE
   EventsTyped'
  BY <1>13 DEF CudaDestroySwapchain, DestroySwapchain, WaitIdle, Enter, Unconfigured
<1>14. ASSUME backend = "CUDA", CudaCreateSwapchain, UNCHANGED <<sync, dxgi>> PROVE
   EventsTyped'
  BY <1>14 DEF CudaCreateSwapchain, CreateSwapchain, Configured
<1>15. ASSUME backend = "CUDA", CudaAcquire, UNCHANGED <<sync, dxgi>> PROVE EventsTyped'
  BY <1>15 DEF CudaAcquire, FrameFinished, ResetFence, AcquireImage, AcquireFails, Returns
<1>16. ASSUME backend = "CUDA", CudaPresent, UNCHANGED <<sync, dxgi>> PROVE EventsTyped'
  BY <1>16 DEF CudaPresent, CopyToImage, QueuePresent, Returns
<1>17. ASSUME backend = "D3D12", D3D12Configure, UNCHANGED <<chain, sync, cuda>> PROVE
   EventsTyped'
  BY <1>17, ImagesInOrder DEF AllSet, D3D12Configure, Configured
<1>18. ASSUME backend = "D3D12", D3D12Unconfigure, UNCHANGED <<chain, sync, cuda>> PROVE
   EventsTyped'
  BY <1>18 DEF D3D12Unconfigure, Unconfigured
<1>19. ASSUME backend = "D3D12", D3D12Acquire, UNCHANGED <<chain, sync, cuda>> PROVE
   EventsTyped'
  BY <1>19 DEF D3D12Acquire, ResetEvent, Returns
<1>20. ASSUME Execute, UNCHANGED <<sync, cuda, dxgi>> PROVE EventsTyped'
  BY <1>20 DEF Execute, Executable, Ready
<1>21. ASSUME NEW i \in Images, Show(i), UNCHANGED <<sync, cuda, dxgi>> PROVE
   EventsTyped'
  BY <1>21 DEF Show, Showable
<1>22. ASSUME NEW a \in acquiring, BecomeAvailable(a), UNCHANGED <<sync, cuda, dxgi>>
   PROVE EventsTyped'
  BY <1>22 DEF BecomeAvailable
<1>23. ASSUME KernelFinishes, UNCHANGED <<sync, dxgi>> PROVE EventsTyped'
  BY <1>23 DEF KernelFinishes
<1>24. ASSUME FenceSignalled, UNCHANGED <<chain, sync, cuda>> PROVE EventsTyped'
  BY <1>24 DEF FenceSignalled
<1>25. CASE UNCHANGED vars
  BY <1>25 DEF vars
<1>26. QED
  BY <1>1, <1>2, <1>3, <1>4, <1>5, <1>6, <1>7, <1>8, <1>9, <1>10, <1>11, <1>12, <1>13,
     <1>14, <1>15, <1>16, <1>17, <1>18, <1>19, <1>20, <1>21, <1>22, <1>23, <1>24, <1>25
     DEF Next, Calls, Host, Gpu, VulkanCalls, CudaCalls, D3D12Calls, VulkanHost,
     CudaHost, D3D12Host, Engine

LEMMA ChainNext == SurfacesConstants /\ ChainTyped /\ CallInv /\ [Next]_vars => ChainTyped'
<1> SUFFICES ASSUME SurfacesConstants, ChainTyped, CallInv, [Next]_vars PROVE ChainTyped'
  OBVIOUS
<1> USE DEF ChainTyped, chain, indices, device, cuda, client, dxgi
<1>1. ASSUME BeginReconfigure PROVE ChainTyped'
  BY <1>1 DEF BeginReconfigure, Reconfigure, BetweenFrames
<1>2. ASSUME backend = "Vulkan", VulkanBeginAcquire, UNCHANGED <<cuda, dxgi>> PROVE
   ChainTyped'
  BY <1>2 DEF VulkanBeginAcquire, MayAcquire, Enter
<1>3. ASSUME backend = "Vulkan", VulkanSubmit, UNCHANGED <<cuda, dxgi>> PROVE
   ChainTyped'
  <2>1. PICK i \in Images \cup {None} : queue' = Append(queue, Submission(i))
    BY <1>3 DEF VulkanSubmit
  <2>2. queue' \in Seq(Submissions)
    BY <2>1, QueueGrows, SubmissionsTyped
  <2>3. sync' = NoSync
    BY <1>3 DEF VulkanSubmit
  <2>4. QED
    BY <1>3, <2>2, <2>3, NamesTyped DEF VulkanSubmit
<1>4. ASSUME backend = "Vulkan", VulkanPresent, UNCHANGED <<cuda, dxgi>> PROVE
   ChainTyped'
  <2>1. current \in Images /\ QueuePresent /\ frame' \in Images
    BY <1>4, ImagesInOrder DEF VulkanPresent
  <2>2. \/ queue' = queue /\ sync' = sync
        \/ queue' = Append(queue, Submission(current)) /\ sync' = NoSync
    BY <1>4 DEF VulkanPresent, TransitionIfNotSubmitted
  <2>3. queue' \in Seq(Submissions)
    BY <2>1, <2>2, QueueGrows, SubmissionsTyped
  <2>4. sync' \in [fence : Images \cup {None}, waits : SUBSET Semaphores, signals : SUBSET Semaphores]
    BY <2>2, NamesTyped
  <2>5. QED
    BY <1>4, <2>1, <2>3, <2>4, PresentTyped DEF VulkanPresent
<1>5. ASSUME backend = "CUDA", CudaBeginAcquire, UNCHANGED <<sync, dxgi>> PROVE
   ChainTyped'
  BY <1>5 DEF CudaBeginAcquire, MayAcquire, Enter
<1>6. ASSUME backend = "CUDA", LaunchKernel, UNCHANGED <<sync, dxgi>> PROVE ChainTyped'
  BY <1>6 DEF LaunchKernel, InFrame
<1>7. ASSUME backend = "CUDA", CudaBeginPresent, UNCHANGED <<sync, dxgi>> PROVE
   ChainTyped'
  BY <1>7 DEF CudaBeginPresent, InFrame, Enter
<1>8. ASSUME backend = "D3D12", D3D12BeginAcquire, UNCHANGED <<chain, sync, cuda>> PROVE
   ChainTyped'
  BY <1>8 DEF D3D12BeginAcquire, MayAcquire, Enter
<1>9. ASSUME backend = "D3D12", D3D12Present, UNCHANGED <<chain, sync, cuda>> PROVE
   ChainTyped'
  BY <1>9 DEF D3D12Present, InFrame, SetEventOnCompletion, Returns
<1>10. ASSUME backend = "Vulkan", DestroySwapchain, UNCHANGED sync, UNCHANGED <<cuda,
   dxgi>> PROVE ChainTyped'
  BY <1>10 DEF DestroySwapchain, WaitIdle, Enter, Unconfigured
<1>11. ASSUME backend = "Vulkan", CreateSwapchain, UNCHANGED sync, UNCHANGED <<cuda,
   dxgi>> PROVE ChainTyped'
  <2>1. UNCHANGED <<current, acquiring, queue, presents, sync, stream, known>>
    BY <1>11 DEF CreateSwapchain
  <2>2. \/ /\ swapchain' = TRUE /\ frame' = 0
           /\ fence' = Pristine.fence /\ semaphore' = Pristine.semaphore
           /\ image' = Pristine.image /\ layout' = Pristine.layout
        \/ UNCHANGED <<swapchain, frame, fence, semaphore, image, layout>>
    BY <1>11 DEF CreateSwapchain
  <2>3. 0 \in Images
    BY ImagesInOrder
  <2>4. QED
    BY <2>1, <2>2, <2>3, NamesTyped
<1>12. ASSUME backend = "Vulkan", VulkanAcquire, UNCHANGED <<cuda, dxgi>> PROVE
   ChainTyped'
  <2>1. /\ fence' \in [Images -> BOOLEAN]
        /\ UNCHANGED <<swapchain, frame, semaphore, layout, queue, presents, stream, known>>
    BY <1>12 DEF VulkanAcquire, ResetFence
  <2>2. ASSUME NEW i \in Images, AcquireImage(i), sync' = [fence |-> frame, waits |-> {Available(frame)}, signals |-> {Finished(i)}]
        PROVE  ChainTyped'
    <3>1. sync' \in [fence : Images \cup {None}, waits : SUBSET Semaphores, signals : SUBSET Semaphores]
      BY <2>2, NamesTyped
    <3>2. QED
      BY <2>1, <2>2, <3>1, AcquireTyped
  <2>3. ASSUME AcquireFails, UNCHANGED sync PROVE ChainTyped'
    BY <2>1, <2>3 DEF AcquireFails
  <2>4. QED
    BY <1>12, <2>2, <2>3 DEF VulkanAcquire
<1>13. ASSUME backend = "CUDA", CudaDestroySwapchain, UNCHANGED <<sync, dxgi>> PROVE
   ChainTyped'
  BY <1>13, NamesTyped DEF CudaDestroySwapchain, DestroySwapchain, WaitIdle, Enter,
     Unconfigured
<1>14. ASSUME backend = "CUDA", CudaCreateSwapchain, UNCHANGED <<sync, dxgi>> PROVE
   ChainTyped'
  <2>1. UNCHANGED <<current, acquiring, queue, presents, sync, stream, known>>
    BY <1>14 DEF CreateSwapchain, CudaCreateSwapchain
  <2>2. \/ /\ swapchain' = TRUE /\ frame' = 0
           /\ fence' = Pristine.fence /\ semaphore' = Pristine.semaphore
           /\ image' = Pristine.image /\ layout' = Pristine.layout
        \/ UNCHANGED <<swapchain, frame, fence, semaphore, image, layout>>
    BY <1>14 DEF CreateSwapchain, CudaCreateSwapchain
  <2>3. 0 \in Images
    BY ImagesInOrder
  <2>4. QED
    BY <2>1, <2>2, <2>3, NamesTyped
<1>15. ASSUME backend = "CUDA", CudaAcquire, UNCHANGED <<sync, dxgi>> PROVE ChainTyped'
  <2>1. /\ fence' \in [Images -> BOOLEAN]
        /\ UNCHANGED <<swapchain, frame, semaphore, layout, queue, presents, stream, known>>
    BY <1>15 DEF CudaAcquire, ResetFence
  <2>2. ASSUME NEW i \in Images, AcquireImage(i), UNCHANGED sync
        PROVE  ChainTyped'
    <3>1. sync' \in [fence : Images \cup {None}, waits : SUBSET Semaphores, signals : SUBSET Semaphores]
      BY <2>2, NamesTyped
    <3>2. QED
      BY <2>1, <2>2, <3>1, AcquireTyped
  <2>3. ASSUME AcquireFails, UNCHANGED sync PROVE ChainTyped'
    BY <2>1, <2>3 DEF AcquireFails
  <2>4. QED
    BY <1>15, <2>2, <2>3 DEF CudaAcquire
<1>16. ASSUME backend = "CUDA", CudaPresent, UNCHANGED <<sync, dxgi>> PROVE ChainTyped'
  <2>1. current \in Images /\ frame' \in Images
    BY <1>16, ImagesInOrder DEF CudaPresent, CallInv
  <2>2. known' \in [Images -> Layouts]
    BY <1>16 DEF CudaPresent, Layouts
  <2>3. CASE queue' = Append(queue, CopyToImage) /\ QueuePresent
    <3>1. queue' \in Seq(Submissions)
      BY <2>1, <2>3, QueueGrows, SubmissionsTyped
    <3>2. QED
      BY <1>16, <2>1, <2>2, <2>3, <3>1, PresentTyped DEF CudaPresent
  <2>4. CASE UNCHANGED <<queue, presents, image, known>>
    BY <1>16, <2>1, <2>2, <2>4 DEF CudaPresent
  <2>5. QED
    BY <1>16, <2>3, <2>4 DEF CudaPresent
<1>17. ASSUME backend = "D3D12", D3D12Configure, UNCHANGED <<chain, sync, cuda>> PROVE
   ChainTyped'
  BY <1>17 DEF D3D12Configure, Configured
<1>18. ASSUME backend = "D3D12", D3D12Unconfigure, UNCHANGED <<chain, sync, cuda>> PROVE
   ChainTyped'
  BY <1>18 DEF D3D12Unconfigure, Unconfigured
<1>19. ASSUME backend = "D3D12", D3D12Acquire, UNCHANGED <<chain, sync, cuda>> PROVE
   ChainTyped'
  BY <1>19 DEF D3D12Acquire, ResetEvent, Returns
<1>20. ASSUME Execute, UNCHANGED <<sync, cuda, dxgi>> PROVE ChainTyped'
  <2>1. queue # <<>> /\ queue' = Tail(queue)
    BY <1>20 DEF Execute, Executable
  <2>2. queue' \in Seq(Submissions)
    BY <2>1, QueueShrinks
  <2>3. semaphore' \in [Semaphores -> Int] /\ fence' \in [Images -> BOOLEAN]
        /\ layout' \in [Images -> Layouts]
    BY <1>20 DEF Execute, Layouts
  <2>4. QED
    BY <1>20, <2>2, <2>3 DEF Execute
<1>21. ASSUME NEW i \in Images, Show(i), UNCHANGED <<sync, cuda, dxgi>> PROVE
   ChainTyped'
  <2>1. presents[i] # <<>> /\ presents[i] \in Seq(Semaphores)
    BY <1>21 DEF Show, Showable
  <2>2. Head(presents[i]) \in Semaphores /\ Tail(presents[i]) \in Seq(Semaphores)
    BY <2>1, HeadTailProperties
  <2>3. acquiring' \subseteq [image : Images, signals : Semaphores, ahead : Nat]
    <3>1. \A a \in acquiring : a.ahead > 0 =>
             [a EXCEPT !.ahead = @ - 1] \in [image : Images, signals : Semaphores, ahead : Nat]
      <4> SUFFICES ASSUME NEW b \in acquiring, b.ahead > 0
                   PROVE  [b EXCEPT !.ahead = @ - 1] \in [image : Images, signals : Semaphores, ahead : Nat]
        OBVIOUS
      <4>1. b \in [image : Images, signals : Semaphores, ahead : Nat]
        OBVIOUS
      <4>2. b.ahead - 1 \in Nat
        BY <4>1
      <4>3. QED
        BY <4>1, <4>2
    <3>2. QED
      BY <1>21, <3>1 DEF Show
  <2>4. presents' \in [Images -> Seq(Semaphores)] /\ image' \in [Images -> {"free", "acquired", "queued"}]
        /\ semaphore' \in [Semaphores -> Int]
    BY <1>21, <2>2 DEF Show
  <2>5. QED
    BY <1>21, <2>3, <2>4 DEF Show
<1>22. ASSUME NEW a \in acquiring, BecomeAvailable(a), UNCHANGED <<sync, cuda, dxgi>>
   PROVE ChainTyped'
  BY <1>22 DEF BecomeAvailable
<1>23. ASSUME KernelFinishes, UNCHANGED <<sync, dxgi>> PROVE ChainTyped'
  BY <1>23 DEF KernelFinishes
<1>24. ASSUME FenceSignalled, UNCHANGED <<chain, sync, cuda>> PROVE ChainTyped'
  BY <1>24 DEF FenceSignalled
<1>25. CASE UNCHANGED vars
  BY <1>25 DEF vars
<1>26. QED
  BY <1>1, <1>2, <1>3, <1>4, <1>5, <1>6, <1>7, <1>8, <1>9, <1>10, <1>11, <1>12, <1>13,
     <1>14, <1>15, <1>16, <1>17, <1>18, <1>19, <1>20, <1>21, <1>22, <1>23, <1>24, <1>25
     DEF Next, Calls, Host, Gpu, VulkanCalls, CudaCalls, D3D12Calls, VulkanHost,
     CudaHost, D3D12Host, Engine

LEMMA SyncNext == SurfacesConstants /\ ClientTyped /\ ChainTyped /\ CallInv /\ SyncInv /\ [Next]_vars => SyncInv'
<1> SUFFICES ASSUME SurfacesConstants, ClientTyped, ChainTyped, CallInv, SyncInv, [Next]_vars PROVE SyncInv'
  OBVIOUS
<1> USE DEF SyncInv, CallInv, FrameOpen, chain, indices, device, cuda, client, dxgi
<1>1. ASSUME BeginReconfigure PROVE SyncInv'
  BY <1>1 DEF BeginReconfigure, Reconfigure, BetweenFrames
<1>2. ASSUME backend = "Vulkan", VulkanBeginAcquire, UNCHANGED <<cuda, dxgi>> PROVE
   SyncInv'
  BY <1>2 DEF VulkanBeginAcquire, MayAcquire, Enter
<1>3. ASSUME backend = "Vulkan", VulkanSubmit, UNCHANGED <<cuda, dxgi>> PROVE SyncInv'
  <2>1. sync' = NoSync
    BY <1>3 DEF VulkanSubmit
  <2>2. QED
    BY <2>1 DEF NoSync
<1>4. ASSUME backend = "Vulkan", VulkanPresent, UNCHANGED <<cuda, dxgi>> PROVE SyncInv'
  <2>1. sync' = NoSync
    BY <1>4 DEF VulkanPresent, TransitionIfNotSubmitted
  <2>2. QED
    BY <2>1 DEF NoSync
<1>5. ASSUME backend = "CUDA", CudaBeginAcquire, UNCHANGED <<sync, dxgi>> PROVE SyncInv'
  BY <1>5 DEF CudaBeginAcquire, MayAcquire, Enter
<1>6. ASSUME backend = "CUDA", LaunchKernel, UNCHANGED <<sync, dxgi>> PROVE SyncInv'
  BY <1>6 DEF LaunchKernel, InFrame
<1>7. ASSUME backend = "CUDA", CudaBeginPresent, UNCHANGED <<sync, dxgi>> PROVE SyncInv'
  BY <1>7 DEF CudaBeginPresent, InFrame, Enter
<1>8. ASSUME backend = "D3D12", D3D12BeginAcquire, UNCHANGED <<chain, sync, cuda>> PROVE
   SyncInv'
  BY <1>8 DEF D3D12BeginAcquire, MayAcquire, Enter
<1>9. ASSUME backend = "D3D12", D3D12Present, UNCHANGED <<chain, sync, cuda>> PROVE
   SyncInv'
  BY <1>9 DEF D3D12Present, InFrame, SetEventOnCompletion, Returns
<1>10. ASSUME backend = "Vulkan", DestroySwapchain, UNCHANGED sync, UNCHANGED <<cuda,
   dxgi>> PROVE SyncInv'
  BY <1>10 DEF DestroySwapchain, WaitIdle, Enter, Unconfigured
<1>11. ASSUME backend = "Vulkan", CreateSwapchain, UNCHANGED sync, UNCHANGED <<cuda,
   dxgi>> PROVE SyncInv'
  BY <1>11 DEF CreateSwapchain, Configured
<1>12. ASSUME backend = "Vulkan", VulkanAcquire, UNCHANGED <<cuda, dxgi>> PROVE SyncInv'
  <2>1. fence' = [fence EXCEPT ![frame] = FALSE] /\ UNCHANGED <<backend, frame>> /\ sync = NoSync
    BY <1>12 DEF VulkanAcquire, ResetFence
  <2>2. ASSUME NEW i \in Images, Returns("ImageAcquired", TRUE),
               sync' = [fence |-> frame, waits |-> {Available(frame)}, signals |-> {Finished(i)}]
        PROVE  SyncInv'
    <3>1. frame \in Images /\ frame # None
      BY ImagesInOrder DEF ChainTyped, None
    <3>2. sync'.fence = frame
      BY <2>2
    <3>3. FrameOpen' /\ host' = "idle"
      BY <1>12, <2>2 DEF VulkanAcquire, Returns, ClientTyped, CallInv
    <3>4. QED
      BY <1>12, <2>1, <3>1, <3>2, <3>3
  <2>3. ASSUME UNCHANGED sync PROVE SyncInv'
    BY <2>1, <2>3 DEF NoSync
  <2>4. QED
    BY <1>12, <2>2, <2>3 DEF VulkanAcquire
<1>13. ASSUME backend = "CUDA", CudaDestroySwapchain, UNCHANGED <<sync, dxgi>> PROVE
   SyncInv'
  BY <1>13 DEF CudaDestroySwapchain, DestroySwapchain, WaitIdle, Enter, Unconfigured
<1>14. ASSUME backend = "CUDA", CudaCreateSwapchain, UNCHANGED <<sync, dxgi>> PROVE
   SyncInv'
  BY <1>14 DEF CudaCreateSwapchain, CreateSwapchain, Configured
<1>15. ASSUME backend = "CUDA", CudaAcquire, UNCHANGED <<sync, dxgi>> PROVE SyncInv'
  BY <1>15 DEF CudaAcquire, FrameFinished, ResetFence, AcquireImage, AcquireFails, Returns
<1>16. ASSUME backend = "CUDA", CudaPresent, UNCHANGED <<sync, dxgi>> PROVE SyncInv'
  BY <1>16 DEF CudaPresent, CopyToImage, QueuePresent, Returns
<1>17. ASSUME backend = "D3D12", D3D12Configure, UNCHANGED <<chain, sync, cuda>> PROVE
   SyncInv'
  BY <1>17 DEF D3D12Configure, Configured
<1>18. ASSUME backend = "D3D12", D3D12Unconfigure, UNCHANGED <<chain, sync, cuda>> PROVE
   SyncInv'
  BY <1>18 DEF D3D12Unconfigure, Unconfigured
<1>19. ASSUME backend = "D3D12", D3D12Acquire, UNCHANGED <<chain, sync, cuda>> PROVE
   SyncInv'
  BY <1>19 DEF D3D12Acquire, ResetEvent, Returns
<1>20. ASSUME Execute, UNCHANGED <<sync, cuda, dxgi>> PROVE SyncInv'
  BY <1>20 DEF Execute, Executable, Ready
<1>21. ASSUME NEW i \in Images, Show(i), UNCHANGED <<sync, cuda, dxgi>> PROVE SyncInv'
  BY <1>21 DEF Show, Showable
<1>22. ASSUME NEW a \in acquiring, BecomeAvailable(a), UNCHANGED <<sync, cuda, dxgi>>
   PROVE SyncInv'
  BY <1>22 DEF BecomeAvailable
<1>23. ASSUME KernelFinishes, UNCHANGED <<sync, dxgi>> PROVE SyncInv'
  BY <1>23 DEF KernelFinishes
<1>24. ASSUME FenceSignalled, UNCHANGED <<chain, sync, cuda>> PROVE SyncInv'
  BY <1>24 DEF FenceSignalled
<1>25. CASE UNCHANGED vars
  BY <1>25 DEF vars
<1>26. QED
  BY <1>1, <1>2, <1>3, <1>4, <1>5, <1>6, <1>7, <1>8, <1>9, <1>10, <1>11, <1>12, <1>13,
     <1>14, <1>15, <1>16, <1>17, <1>18, <1>19, <1>20, <1>21, <1>22, <1>23, <1>24, <1>25
     DEF Next, Calls, Host, Gpu, VulkanCalls, CudaCalls, D3D12Calls, VulkanHost,
     CudaHost, D3D12Host, Engine

LEMMA QueueTyped ==
    ASSUME ChainTyped
    PROVE  DOMAIN queue = 1..Len(queue) /\ \A n \in DOMAIN queue : queue[n] \in Submissions
BY LenProperties, ElementOfSeq DEF ChainTyped

LEMMA FencesKept ==
    ASSUME FenceInv, UNCHANGED <<queue, fence, frame>>, FencePending' => FencePending
    PROVE  FenceInv'
BY DEF FenceInv

(* The fence of the frame, or none, is handed over with a submission.      *)
LEMMA FenceSubmitted ==
    ASSUME ChainTyped, FenceInv, NEW e \in Submissions, queue' = Append(queue, e), fence' = fence,
           e.fence # None => FencePending /\ e.fence = frame, ~FencePending'
    PROVE  FenceInv'
<1>1. /\ Len(queue) \in Nat
      /\ DOMAIN queue = 1..Len(queue) /\ DOMAIN queue' = 1..(Len(queue) + 1)
      /\ \A n \in 1..Len(queue) : queue'[n] = queue[n]
      /\ queue'[Len(queue) + 1] = e
  BY QueueGrows
<1>2. \A n \in 1..(Len(queue) + 1) : n \in 1..Len(queue) \/ n = Len(queue) + 1
  BY <1>1
<1>3. ASSUME NEW n \in DOMAIN queue', queue'[n].fence # None PROVE ~fence'[queue'[n].fence]
  BY <1>1, <1>2, <1>3 DEF FenceInv
<1>4. ASSUME NEW n \in DOMAIN queue', NEW m \in DOMAIN queue', n # m, queue'[n].fence # None
      PROVE  queue'[n].fence # queue'[m].fence
  BY <1>1, <1>2, <1>4 DEF FenceInv
<1>5. QED
  BY <1>3, <1>4 DEF FenceInv

LEMMA FenceNext == SurfacesConstants /\ ClientTyped /\ ChainTyped /\ CallInv /\ SyncInv /\ FenceInv /\ [Next]_vars => FenceInv'
<1> SUFFICES ASSUME SurfacesConstants, ClientTyped, ChainTyped, CallInv, SyncInv, FenceInv, [Next]_vars PROVE FenceInv'
  OBVIOUS
<1> USE DEF SyncInv, CallInv, FrameOpen, FencePending, chain, indices, device, cuda, client, dxgi
<1>1. ASSUME BeginReconfigure PROVE FenceInv'
  <2>1. UNCHANGED <<queue, fence, frame>> /\ (FencePending' => FencePending)
    BY <1>1 DEF BeginReconfigure, Reconfigure, BetweenFrames
  <2>2. QED
    BY <2>1, FencesKept
<1>2. ASSUME backend = "Vulkan", VulkanBeginAcquire, UNCHANGED <<cuda, dxgi>> PROVE
   FenceInv'
  <2>1. UNCHANGED <<queue, fence, frame>> /\ (FencePending' => FencePending)
    BY <1>2 DEF VulkanBeginAcquire, MayAcquire, Enter
  <2>2. QED
    BY <2>1, FencesKept
<1>3. ASSUME backend = "Vulkan", VulkanSubmit, UNCHANGED <<cuda, dxgi>> PROVE FenceInv'
  <2>1. PICK i \in Images \cup {None} : queue' = Append(queue, Submission(i))
    BY <1>3 DEF VulkanSubmit, ChainTyped
  <2>2. sync' = NoSync /\ fence' = fence /\ backend' = "Vulkan"
    BY <1>3 DEF VulkanSubmit
  <2>3. Submission(i) \in Submissions /\ Submission(i).fence = sync.fence
    BY SubmissionsTyped DEF Submission
  <2>4. ~FencePending'
    BY <2>2 DEF NoSync
  <2>5. sync.fence # None => FencePending /\ sync.fence = frame
    BY DEF NoSync
  <2>6. QED
    BY <2>1, <2>2, <2>3, <2>4, <2>5, FenceSubmitted
<1>4. ASSUME backend = "Vulkan", VulkanPresent, UNCHANGED <<cuda, dxgi>> PROVE FenceInv'
  <2>1. current \in Images /\ fence' = fence /\ backend' = "Vulkan"
    BY <1>4 DEF VulkanPresent, ChainTyped
  <2>2. sync' = NoSync
    BY <1>4 DEF VulkanPresent, TransitionIfNotSubmitted
  <2>3. ~FencePending'
    BY <2>1, <2>2 DEF NoSync
  <2>4. CASE sync.fence # None /\ queue' = Append(queue, Submission(current))
    <3>1. Submission(current) \in Submissions /\ Submission(current).fence = sync.fence
      BY <2>1, SubmissionsTyped DEF Submission
    <3>2. FencePending /\ sync.fence = frame
      BY <2>4 DEF NoSync
    <3>3. QED
      BY <2>1, <2>3, <2>4, <3>1, <3>2, FenceSubmitted
  <2>5. CASE queue' = queue
    BY <2>1, <2>3, <2>5 DEF FenceInv
  <2>6. QED
    BY <1>4, <2>4, <2>5 DEF VulkanPresent, TransitionIfNotSubmitted
<1>5. ASSUME backend = "CUDA", CudaBeginAcquire, UNCHANGED <<sync, dxgi>> PROVE
   FenceInv'
  <2>1. UNCHANGED <<queue, fence, frame>> /\ (FencePending' => FencePending)
    BY <1>5 DEF CudaBeginAcquire, MayAcquire, Enter
  <2>2. QED
    BY <2>1, FencesKept
<1>6. ASSUME backend = "CUDA", LaunchKernel, UNCHANGED <<sync, dxgi>> PROVE FenceInv'
  <2>1. UNCHANGED <<queue, fence, frame>> /\ (FencePending' => FencePending)
    BY <1>6 DEF LaunchKernel, InFrame
  <2>2. QED
    BY <2>1, FencesKept
<1>7. ASSUME backend = "CUDA", CudaBeginPresent, UNCHANGED <<sync, dxgi>> PROVE
   FenceInv'
  <2>1. UNCHANGED <<queue, fence, frame>> /\ (FencePending' => FencePending)
    BY <1>7 DEF CudaBeginPresent, InFrame, Enter
  <2>2. QED
    BY <2>1, FencesKept
<1>8. ASSUME backend = "D3D12", D3D12BeginAcquire, UNCHANGED <<chain, sync, cuda>> PROVE
   FenceInv'
  <2>1. UNCHANGED <<queue, fence, frame>> /\ (FencePending' => FencePending)
    BY <1>8 DEF D3D12BeginAcquire, MayAcquire, Enter
  <2>2. QED
    BY <2>1, FencesKept
<1>9. ASSUME backend = "D3D12", D3D12Present, UNCHANGED <<chain, sync, cuda>> PROVE
   FenceInv'
  <2>1. UNCHANGED <<queue, fence, frame>> /\ (FencePending' => FencePending)
    BY <1>9 DEF D3D12Present, InFrame, SetEventOnCompletion, Returns
  <2>2. QED
    BY <2>1, FencesKept
<1>10. ASSUME backend = "Vulkan", DestroySwapchain, UNCHANGED sync, UNCHANGED <<cuda,
   dxgi>> PROVE FenceInv'
  <2>1. UNCHANGED <<queue, fence, frame>> /\ (FencePending' => FencePending)
    BY <1>10 DEF DestroySwapchain, WaitIdle, Enter, Unconfigured
  <2>2. QED
    BY <2>1, FencesKept
<1>11. ASSUME backend = "Vulkan", CreateSwapchain, UNCHANGED sync, UNCHANGED <<cuda,
   dxgi>> PROVE FenceInv'
  <2>1. queue' = <<>> /\ ~FencePending'
    <3>1. queue' = queue /\ sync' = sync /\ host = "create"
      BY <1>11 DEF CreateSwapchain
    <3>2. sync = NoSync
      BY <3>1
    <3>3. ~FrameOpen'
      BY <1>11 DEF CreateSwapchain, Configured
    <3>4. QED
      BY <3>1, <3>2, <3>3
  <2>2. DOMAIN queue' = {}
    BY <2>1
  <2>3. QED
    BY <2>1, <2>2 DEF FenceInv
<1>12. ASSUME backend = "Vulkan", VulkanAcquire, UNCHANGED <<cuda, dxgi>> PROVE
   FenceInv'
  <2>1. /\ fence[frame] /\ fence' = [fence EXCEPT ![frame] = FALSE]
        /\ UNCHANGED <<backend, frame, queue>>
    BY <1>12 DEF VulkanAcquire, FrameFinished, ResetFence
  <2>2. frame \in Images /\ fence \in [Images -> BOOLEAN]
    BY DEF ChainTyped
  <2>3. /\ ~fence'[frame] /\ \A f \in Images : f # frame => fence'[f] = fence[f]
    BY <2>1, <2>2
  <2>4. \A n \in DOMAIN queue : queue[n].fence # frame
    BY <2>1, <2>2, ImagesInOrder DEF FenceInv, None
  <2>5. \A n \in DOMAIN queue : queue[n].fence \in Images \cup {None}
    BY QueueTyped DEF Submissions
  <2>6. QED
    BY ONLY FenceInv, <2>1, <2>3, <2>4, <2>5 DEF FenceInv
<1>13. ASSUME backend = "CUDA", CudaDestroySwapchain, UNCHANGED <<sync, dxgi>> PROVE
   FenceInv'
  <2>1. UNCHANGED <<queue, fence, frame>> /\ (FencePending' => FencePending)
    BY <1>13 DEF CudaDestroySwapchain, DestroySwapchain, WaitIdle, Enter, Unconfigured
  <2>2. QED
    BY <2>1, FencesKept
<1>14. ASSUME backend = "CUDA", CudaCreateSwapchain, UNCHANGED <<sync, dxgi>> PROVE
   FenceInv'
  <2>1. queue' = <<>> /\ ~FencePending'
    <3>1. queue' = queue /\ sync' = sync /\ host = "create"
      BY <1>14 DEF CreateSwapchain, CudaCreateSwapchain
    <3>2. sync = NoSync
      BY <3>1
    <3>3. ~FrameOpen'
      BY <1>14 DEF CreateSwapchain, Configured, CudaCreateSwapchain
    <3>4. QED
      BY <3>1, <3>2, <3>3
  <2>2. DOMAIN queue' = {}
    BY <2>1
  <2>3. QED
    BY <2>1, <2>2 DEF FenceInv
<1>15. ASSUME backend = "CUDA", CudaAcquire, UNCHANGED <<sync, dxgi>> PROVE FenceInv'
  <2>1. /\ fence[frame] /\ fence' = [fence EXCEPT ![frame] = FALSE]
        /\ UNCHANGED <<backend, frame, queue>>
    BY <1>15 DEF CudaAcquire, FrameFinished, ResetFence
  <2>2. frame \in Images /\ fence \in [Images -> BOOLEAN]
    BY DEF ChainTyped
  <2>3. /\ ~fence'[frame] /\ \A f \in Images : f # frame => fence'[f] = fence[f]
    BY <2>1, <2>2
  <2>4. \A n \in DOMAIN queue : queue[n].fence # frame
    BY <2>1, <2>2, ImagesInOrder DEF FenceInv, None
  <2>5. \A n \in DOMAIN queue : queue[n].fence \in Images \cup {None}
    BY QueueTyped DEF Submissions
  <2>6. QED
    BY ONLY FenceInv, <2>1, <2>3, <2>4, <2>5 DEF FenceInv
<1>16. ASSUME backend = "CUDA", CudaPresent, UNCHANGED <<sync, dxgi>> PROVE FenceInv'
  <2>1. current \in Images /\ fence' = fence /\ FencePending /\ FrameOpen /\ sync = NoSync
    BY <1>16 DEF CudaPresent, ChainTyped
  <2>2. ~FrameOpen'
    BY <1>16 DEF CudaPresent, Returns, ClientTyped
  <2>3. ~FencePending'
    BY <1>16, <2>1, <2>2
  <2>4. CASE queue' = Append(queue, CopyToImage)
    <3>1. CopyToImage \in Submissions /\ CopyToImage.fence = frame
      BY <2>1, SubmissionsTyped DEF CopyToImage
    <3>2. QED
      BY <2>1, <2>3, <2>4, <3>1, FenceSubmitted
  <2>5. CASE queue' = queue
    BY <2>1, <2>3, <2>5 DEF FenceInv
  <2>6. QED
    BY <1>16, <2>4, <2>5 DEF CudaPresent
<1>17. ASSUME backend = "D3D12", D3D12Configure, UNCHANGED <<chain, sync, cuda>> PROVE
   FenceInv'
  <2>1. UNCHANGED <<queue, fence, frame>> /\ (FencePending' => FencePending)
    BY <1>17 DEF D3D12Configure, Configured
  <2>2. QED
    BY <2>1, FencesKept
<1>18. ASSUME backend = "D3D12", D3D12Unconfigure, UNCHANGED <<chain, sync, cuda>> PROVE
   FenceInv'
  <2>1. UNCHANGED <<queue, fence, frame>> /\ (FencePending' => FencePending)
    BY <1>18 DEF D3D12Unconfigure, Unconfigured
  <2>2. QED
    BY <2>1, FencesKept
<1>19. ASSUME backend = "D3D12", D3D12Acquire, UNCHANGED <<chain, sync, cuda>> PROVE
   FenceInv'
  <2>1. UNCHANGED <<queue, fence, frame>> /\ (FencePending' => FencePending)
    BY <1>19 DEF D3D12Acquire, ResetEvent, Returns
  <2>2. QED
    BY <2>1, FencesKept
<1>20. ASSUME Execute, UNCHANGED <<sync, cuda, dxgi>> PROVE FenceInv'
  <2>1. /\ queue # <<>> /\ queue' = Tail(queue)
        /\ fence' = [f \in Images |-> fence[f] \/ f = Head(queue).fence]
        /\ UNCHANGED <<backend, configured, debug, lost, frame, sync>>
    BY <1>20 DEF Execute, Executable
  <2>2. /\ Head(queue) = queue[1]
        /\ Len(queue) \in Nat /\ Len(queue) >= 1
        /\ DOMAIN queue = 1..Len(queue) /\ DOMAIN queue' = 1..(Len(queue) - 1)
        /\ \A n \in 1..(Len(queue) - 1) : queue'[n] = queue[n + 1]
    BY <2>1, QueueShrinks
  <2>3. \A n \in DOMAIN queue' : n + 1 \in DOMAIN queue /\ n + 1 # 1 /\ queue'[n] = queue[n + 1]
    BY <2>2
  <2>4. 1 \in DOMAIN queue
    BY <2>2
  <2>5. \A n \in DOMAIN queue : queue[n].fence \in Images \cup {None}
    BY QueueTyped DEF Submissions
  <2>6. ASSUME NEW n \in DOMAIN queue', queue'[n].fence # None PROVE ~fence'[queue'[n].fence]
    <3>1. PICK f \in Images : f = queue[n + 1].fence /\ f = queue'[n].fence /\ f # None
      BY <2>3, <2>5, <2>6
    <3>2. ~fence[f]
      BY <2>3, <3>1 DEF FenceInv
    <3>3. Head(queue).fence # f
      BY <2>2, <2>3, <2>4, <3>1 DEF FenceInv
    <3>4. ~fence'[f]
      BY <2>1, <3>2, <3>3
    <3>5. QED
      BY <3>1, <3>4
  <2>7. ASSUME NEW n \in DOMAIN queue', NEW m \in DOMAIN queue', n # m, queue'[n].fence # None
        PROVE  queue'[n].fence # queue'[m].fence
    <3>1. n + 1 # m + 1
      BY <2>2, <2>7
    <3>2. QED
      BY <2>3, <2>7, <3>1 DEF FenceInv
  <2>8. FencePending' => ~fence'[frame] /\ \A n \in DOMAIN queue' : queue'[n].fence # frame
    <3>1. FencePending' => FencePending
      BY <2>1
    <3>2. frame \in Images
      BY DEF ChainTyped
    <3>3. QED
      BY <2>1, <2>2, <2>3, <2>4, <3>1, <3>2 DEF FenceInv
  <2>9. QED
    BY <2>1, <2>6, <2>7, <2>8 DEF FenceInv
<1>21. ASSUME NEW i \in Images, Show(i), UNCHANGED <<sync, cuda, dxgi>> PROVE FenceInv'
  <2>1. UNCHANGED <<queue, fence, frame>> /\ (FencePending' => FencePending)
    BY <1>21 DEF Show, Showable
  <2>2. QED
    BY <2>1, FencesKept
<1>22. ASSUME NEW a \in acquiring, BecomeAvailable(a), UNCHANGED <<sync, cuda, dxgi>>
   PROVE FenceInv'
  <2>1. UNCHANGED <<queue, fence, frame>> /\ (FencePending' => FencePending)
    BY <1>22 DEF BecomeAvailable
  <2>2. QED
    BY <2>1, FencesKept
<1>23. ASSUME KernelFinishes, UNCHANGED <<sync, dxgi>> PROVE FenceInv'
  <2>1. UNCHANGED <<queue, fence, frame>> /\ (FencePending' => FencePending)
    BY <1>23 DEF KernelFinishes
  <2>2. QED
    BY <2>1, FencesKept
<1>24. ASSUME FenceSignalled, UNCHANGED <<chain, sync, cuda>> PROVE FenceInv'
  <2>1. UNCHANGED <<queue, fence, frame>> /\ (FencePending' => FencePending)
    BY <1>24 DEF FenceSignalled
  <2>2. QED
    BY <2>1, FencesKept
<1>25. CASE UNCHANGED vars
  <2>1. UNCHANGED <<queue, fence, frame>> /\ (FencePending' => FencePending)
    BY <1>25 DEF vars
  <2>2. QED
    BY <2>1, FencesKept
<1>26. QED
  BY <1>1, <1>2, <1>3, <1>4, <1>5, <1>6, <1>7, <1>8, <1>9, <1>10, <1>11, <1>12, <1>13,
     <1>14, <1>15, <1>16, <1>17, <1>18, <1>19, <1>20, <1>21, <1>22, <1>23, <1>24, <1>25
     DEF Next, Calls, Host, Gpu, VulkanCalls, CudaCalls, D3D12Calls, VulkanHost,
     CudaHost, D3D12Host, Engine

LEMMA Ages ==
    ASSUME SurfacesConstants, EventsTyped
    PROVE  /\ \A i \in Images : Age(i) \in 1..N
           /\ Age(back) = N
<1>1. N \in Nat \ {0} /\ Images = 0..(N - 1)
  BY ImagesInOrder
<1>2. QED
  BY <1>1 DEF EventsTyped, Age

(* With no signal to come the events are in order.                         *)
LEMMA EventsQuiet ==
    ASSUME SurfacesConstants, EventsTyped', signals' = 0,
           \A i \in Images : armed'[i] = None, ~FrameOpen' \/ backend' # "D3D12"
    PROVE  EventInv'
<1>1. N \in Nat \ {0} /\ N' = N
  BY ImagesInOrder DEF N
<1>2. \A i \in Images : Age(i)' \in Nat
  BY <1>1, ImagesInOrder DEF EventsTyped, Age, N
<1>3. QED
  BY <1>1, <1>2 DEF EventInv

LEMMA EventsKept ==
    ASSUME SurfacesConstants, EventsTyped, EventInv, UNCHANGED <<backend, dxgi>>,
           backend = "D3D12" =>
              /\ configured' /\ ~lost' => configured /\ ~lost
              /\ host' = "configure" => signals = 0
              /\ FrameOpen' => FrameOpen
    PROVE  EventInv'
<1>1. CASE backend = "D3D12"
  <2>1. \A i \in Images : Age(i)' = Age(i)
    BY DEF Age, N, dxgi
  <2>2. QED
    BY <1>1, <2>1 DEF EventInv, dxgi, N
<1>2. CASE backend # "D3D12"
  <2>1. signals = 0 /\ \A i \in Images : armed[i] = None
    BY <1>2 DEF EventInv
  <2>2. QED
    BY <1>2, <2>1, EventsQuiet DEF dxgi, EventsTyped
<1>3. QED
  BY <1>1, <1>2

LEMMA EventsStill ==
    ASSUME SurfacesConstants, EventsTyped, EventInv, UNCHANGED <<backend, client, dxgi>>
    PROVE  EventInv'
<1>1. /\ UNCHANGED <<backend, dxgi, configured, lost, host>>
      /\ FrameOpen' = FrameOpen
  BY DEF client, FrameOpen
<1>2. backend = "D3D12" /\ host = "configure" => signals = 0
  BY DEF EventInv
<1>3. QED
  BY <1>1, <1>2, EventsKept

LEMMA EventNext == SurfacesConstants /\ ClientTyped /\ EventsTyped /\ CallInv /\ EventInv /\ [Next]_vars => EventInv'
<1> SUFFICES ASSUME SurfacesConstants, ClientTyped, EventsTyped, CallInv, EventInv, [Next]_vars PROVE EventInv'
  OBVIOUS
<1> USE DEF CallInv, FrameOpen, chain, indices, device, cuda, client, dxgi
<1>1. ASSUME BeginReconfigure PROVE EventInv'
  <2>1. UNCHANGED <<backend, dxgi>> /\ signals = 0 /\ configured' = FALSE
    BY <1>1 DEF BeginReconfigure, Reconfigure
  <2>2. QED
    BY <2>1, EventsKept
<1>2. ASSUME backend = "Vulkan", VulkanBeginAcquire, UNCHANGED <<cuda, dxgi>> PROVE
   EventInv'
  <2>1. UNCHANGED <<backend, dxgi>>
    BY <1>2 DEF VulkanBeginAcquire, MayAcquire, Enter
  <2>2. QED
    BY <1>2, <2>1, EventsKept
<1>3. ASSUME backend = "Vulkan", VulkanSubmit, UNCHANGED <<cuda, dxgi>> PROVE EventInv'
  <2>1. UNCHANGED <<backend, dxgi>>
    BY <1>3 DEF VulkanSubmit, Submission, SyncWaits
  <2>2. QED
    BY <1>3, <2>1, EventsKept
<1>4. ASSUME backend = "Vulkan", VulkanPresent, UNCHANGED <<cuda, dxgi>> PROVE EventInv'
  <2>1. UNCHANGED <<backend, dxgi>>
    BY <1>4 DEF VulkanPresent, InFrame, TransitionIfNotSubmitted, Submission, SyncWaits,
       QueuePresent, Returns
  <2>2. QED
    BY <1>4, <2>1, EventsKept
<1>5. ASSUME backend = "CUDA", CudaBeginAcquire, UNCHANGED <<sync, dxgi>> PROVE
   EventInv'
  <2>1. UNCHANGED <<backend, dxgi>>
    BY <1>5 DEF CudaBeginAcquire, MayAcquire, Enter
  <2>2. QED
    BY <1>5, <2>1, EventsKept
<1>6. ASSUME backend = "CUDA", LaunchKernel, UNCHANGED <<sync, dxgi>> PROVE EventInv'
  <2>1. UNCHANGED <<backend, dxgi>>
    BY <1>6 DEF LaunchKernel, InFrame
  <2>2. QED
    BY <1>6, <2>1, EventsKept
<1>7. ASSUME backend = "CUDA", CudaBeginPresent, UNCHANGED <<sync, dxgi>> PROVE
   EventInv'
  <2>1. UNCHANGED <<backend, dxgi>>
    BY <1>7 DEF CudaBeginPresent, InFrame, Enter
  <2>2. QED
    BY <1>7, <2>1, EventsKept
<1>8. ASSUME backend = "D3D12", D3D12BeginAcquire, UNCHANGED <<chain, sync, cuda>> PROVE
   EventInv'
  BY <1>8, EventsKept DEF D3D12BeginAcquire, MayAcquire, Enter
<1>9. ASSUME backend = "D3D12", D3D12Present, UNCHANGED <<chain, sync, cuda>> PROVE
   EventInv'
  <2>1. N \in Nat \ {0} /\ Images = 0..(N - 1)
    BY ImagesInOrder
  <2>2. FrameOpen /\ signals <= N /\ ~event[back] /\ armed[back] = None /\ back \in Images
    BY <1>9 DEF D3D12Present, InFrame, EventInv, EventsTyped
  <2>3. ~FrameOpen' /\ backend' = "D3D12" /\ host' = "idle"
    BY <1>9 DEF D3D12Present, Returns, ClientTyped
  <2>4. /\ \A i \in Images : i # back => event'[i] = event[i] /\ armed'[i] = armed[i]
        /\ signals = 0 => event'[back] /\ armed'[back] = None
        /\ signals # 0 => ~event'[back] /\ armed'[back] = signals
    BY <1>9, <2>2 DEF D3D12Present, SetEventOnCompletion, EventsTyped
  <2>s. signals \in Nat
    BY DEF EventsTyped
  <2>5. \A i \in Images : event'[i] => armed'[i] = None
    BY <2>2, <2>4, <2>s DEF EventInv, None
  <2>t. \A i \in Images : armed'[i] # None => armed'[i] \in 1..signals
    BY <2>2, <2>4, <2>s DEF EventInv, None
  <2>6. CASE back' = Following(back) /\ signals' = signals + 1
    <3>a. signals' = signals + 1 /\ N \in Nat /\ signals <= N
      BY <2>1, <2>2, <2>6
    <3>b. signals' <= N + 1
      BY ONLY <3>a, <2>s
    <3>1. \A i \in Images : armed'[i] # None => armed'[i] \in 1..signals'
      BY ONLY <3>a, <2>s, <2>t
    <3>2. back' = IF back = N - 1 THEN 0 ELSE back + 1
      BY <2>2, <2>6, ImagesInOrder
    <3>4. \A i \in Images : (IF i < back' THEN back' - i ELSE back' - i + N) = (IF i = back THEN 1 ELSE Age(i) + 1)
      BY <2>1, <2>2, <3>2 DEF Age
    <3>5. \A i \in Images : Age(i)' = IF i = back THEN 1 ELSE Age(i) + 1
      BY <3>4 DEF Age, N
    <3>e. \A i \in Images : event[i] => signals <= Age(i)
      BY <2>2 DEF EventInv
    <3>f. \A i \in Images : armed[i] # None => armed[i] >= signals - Age(i)
      BY <2>2 DEF EventInv
    <3>g. \A i \in Images : Age(i) \in Nat
      BY <2>1, Ages
    <3>h. \A i \in Images : armed[i] # None => armed[i] \in Nat
      BY DEF EventsTyped
    <3>7. ASSUME NEW i \in Images
          PROVE  /\ event'[i] => signals' <= Age(i)'
                 /\ armed'[i] # None => armed'[i] >= signals' - Age(i)'
      <4>1. CASE i = back
        <5>1. Age(i)' = 1
          BY <3>5, <4>1
        <5>2. signals = 0 => armed'[i] = None /\ signals' <= 1
          BY <2>4, <2>s, <3>a, <4>1
        <5>3. signals # 0 => ~event'[i] /\ armed'[i] >= signals' - 1
          BY <2>4, <2>s, <3>a, <4>1
        <5>4. QED
          BY <5>1, <5>2, <5>3
      <4>2. CASE i # back
        <5>1. Age(i)' = Age(i) + 1 /\ event'[i] = event[i] /\ armed'[i] = armed[i]
          BY <2>4, <3>5, <4>2
        <5>2. Age(i) \in Nat /\ (event[i] => signals <= Age(i))
          BY <3>e, <3>g
        <5>3. armed[i] # None => armed[i] \in Nat /\ armed[i] >= signals - Age(i)
          BY <3>f, <3>h
        <5>4. QED
          BY ONLY <2>s, <3>a, <5>1, <5>2, <5>3
      <4>3. QED
        BY <4>1, <4>2
    <3>8. QED
      BY <2>3, <2>5, <3>1, <3>b, <3>7 DEF EventInv, N
  <2>7. CASE back' = back /\ signals' = signals
    <3>1. \/ signals' = signals + 1
          \/ lost' = TRUE
      BY <1>9 DEF D3D12Present, Returns
    <3>2. lost' = TRUE
      BY <2>7, <2>s, <3>1
    <3>3. signals' <= N + 1 /\ \A i \in Images : armed'[i] # None => armed'[i] \in 1..signals'
      BY ONLY <2>1, <2>2, <2>7, <2>s, <2>t
    <3>4. QED
      BY <2>3, <2>5, <3>2, <3>3 DEF EventInv, N
  <2>8. QED
    BY <1>9, <2>6, <2>7 DEF D3D12Present
<1>10. ASSUME backend = "Vulkan", DestroySwapchain, UNCHANGED sync, UNCHANGED <<cuda,
   dxgi>> PROVE EventInv'
  <2>1. UNCHANGED <<backend, dxgi>>
    BY <1>10 DEF DestroySwapchain, WaitIdle, Enter, Unconfigured
  <2>2. QED
    BY <1>10, <2>1, EventsKept
<1>11. ASSUME backend = "Vulkan", CreateSwapchain, UNCHANGED sync, UNCHANGED <<cuda,
   dxgi>> PROVE EventInv'
  <2>1. UNCHANGED <<backend, dxgi>>
    BY <1>11 DEF CreateSwapchain, Configured
  <2>2. QED
    BY <1>11, <2>1, EventsKept
<1>12. ASSUME backend = "Vulkan", VulkanAcquire, UNCHANGED <<cuda, dxgi>> PROVE
   EventInv'
  <2>1. UNCHANGED <<backend, dxgi>>
    BY <1>12 DEF VulkanAcquire, FrameFinished, ResetFence, AcquireImage, AcquireFails,
       Returns
  <2>2. QED
    BY <1>12, <2>1, EventsKept
<1>13. ASSUME backend = "CUDA", CudaDestroySwapchain, UNCHANGED <<sync, dxgi>> PROVE
   EventInv'
  <2>1. UNCHANGED <<backend, dxgi>>
    BY <1>13 DEF CudaDestroySwapchain, DestroySwapchain, WaitIdle, Enter, Unconfigured
  <2>2. QED
    BY <1>13, <2>1, EventsKept
<1>14. ASSUME backend = "CUDA", CudaCreateSwapchain, UNCHANGED <<sync, dxgi>> PROVE
   EventInv'
  <2>1. UNCHANGED <<backend, dxgi>>
    BY <1>14 DEF CudaCreateSwapchain, CreateSwapchain, Configured
  <2>2. QED
    BY <1>14, <2>1, EventsKept
<1>15. ASSUME backend = "CUDA", CudaAcquire, UNCHANGED <<sync, dxgi>> PROVE EventInv'
  <2>1. UNCHANGED <<backend, dxgi>>
    BY <1>15 DEF CudaAcquire, FrameFinished, ResetFence, AcquireImage, AcquireFails,
       Returns
  <2>2. QED
    BY <1>15, <2>1, EventsKept
<1>16. ASSUME backend = "CUDA", CudaPresent, UNCHANGED <<sync, dxgi>> PROVE EventInv'
  <2>1. UNCHANGED <<backend, dxgi>>
    BY <1>16 DEF CudaPresent, CopyToImage, QueuePresent, Returns
  <2>2. QED
    BY <1>16, <2>1, EventsKept
<1>17. ASSUME backend = "D3D12", D3D12Configure, UNCHANGED <<chain, sync, cuda>> PROVE
   EventInv'
  <2>1. signals' = 0 /\ armed' = armed /\ \A i \in Images : armed[i] = None
    BY <1>17 DEF D3D12Configure, EventInv
  <2>2. EventsTyped'
    BY <1>17, EventsNext, [Next]_vars
  <2>3. ~FrameOpen'
    BY <1>17 DEF D3D12Configure, Configured
  <2>4. QED
    BY <2>1, <2>2, <2>3, EventsQuiet
<1>18. ASSUME backend = "D3D12", D3D12Unconfigure, UNCHANGED <<chain, sync, cuda>> PROVE
   EventInv'
  BY <1>18, EventsKept DEF D3D12Unconfigure, Unconfigured
<1>19. ASSUME backend = "D3D12", D3D12Acquire, UNCHANGED <<chain, sync, cuda>> PROVE
   EventInv'
  <2>1. N \in Nat \ {0} /\ Age(back) = N /\ back \in Images
    BY ImagesInOrder, Ages DEF EventsTyped
  <2>2. event[back] /\ configured /\ ~lost
    BY <1>19 DEF D3D12Acquire
  <2>3. event' = [event EXCEPT ![back] = FALSE] /\ host' = "idle" /\ UNCHANGED <<backend, back, armed, signals, configured>>
    BY <1>19 DEF D3D12Acquire, ResetEvent, Returns
  <2>4. signals <= N /\ armed[back] = None
    BY <2>1, <2>2 DEF EventInv
  <2>5. \A i \in Images : Age(i)' = Age(i)
    BY <2>3 DEF Age, N
  <2>6. ~event'[back] /\ \A i \in Images : event'[i] => event[i]
    BY <2>1, <2>3 DEF EventsTyped
  <2>7. QED
    BY <2>2, <2>3, <2>4, <2>5, <2>6 DEF EventInv, N
<1>20. ASSUME Execute, UNCHANGED <<sync, cuda, dxgi>> PROVE EventInv'
  <2>1. UNCHANGED <<backend, client, dxgi>>
    BY <1>20 DEF Execute, Executable, Ready
  <2>2. QED
    BY <2>1, EventsStill
<1>21. ASSUME NEW i \in Images, Show(i), UNCHANGED <<sync, cuda, dxgi>> PROVE EventInv'
  <2>1. UNCHANGED <<backend, client, dxgi>>
    BY <1>21 DEF Show, Showable
  <2>2. QED
    BY <2>1, EventsStill
<1>22. ASSUME NEW a \in acquiring, BecomeAvailable(a), UNCHANGED <<sync, cuda, dxgi>>
   PROVE EventInv'
  <2>1. UNCHANGED <<backend, client, dxgi>>
    BY <1>22 DEF BecomeAvailable
  <2>2. QED
    BY <2>1, EventsStill
<1>23. ASSUME KernelFinishes, UNCHANGED <<sync, dxgi>> PROVE EventInv'
  <2>1. UNCHANGED <<backend, client, dxgi>>
    BY <1>23 DEF KernelFinishes
  <2>2. QED
    BY <2>1, EventsStill
<1>24. ASSUME FenceSignalled, UNCHANGED <<chain, sync, cuda>> PROVE EventInv'
  <2>1. signals > 0 /\ signals' = signals - 1 /\ UNCHANGED <<backend, client, back>>
    BY <1>24 DEF FenceSignalled
  <2>2. \A i \in Images : /\ event'[i] <=> (event[i] \/ armed[i] = 1)
                         /\ armed'[i] = IF armed[i] > 1 THEN armed[i] - 1 ELSE None
    BY <1>24 DEF FenceSignalled
  <2>3. \A i \in Images : Age(i)' = Age(i) /\ Age(i) \in Nat
    BY <2>1, Ages, ImagesInOrder DEF Age, N
  <2>4. N \in Nat
    BY ImagesInOrder
  <2>5. QED
    BY <2>1, <2>2, <2>3, <2>4, SMTT(20) DEF EventInv, EventsTyped, N, None
<1>25. CASE UNCHANGED vars
  <2>1. UNCHANGED <<backend, client, dxgi>>
    BY <1>25 DEF vars
  <2>2. QED
    BY <2>1, EventsStill
<1>26. QED
  BY <1>1, <1>2, <1>3, <1>4, <1>5, <1>6, <1>7, <1>8, <1>9, <1>10, <1>11, <1>12, <1>13,
     <1>14, <1>15, <1>16, <1>17, <1>18, <1>19, <1>20, <1>21, <1>22, <1>23, <1>24, <1>25
     DEF Next, Calls, Host, Gpu, VulkanCalls, CudaCalls, D3D12Calls, VulkanHost,
     CudaHost, D3D12Host, Engine

LEMMA SurfaceInit == SurfacesConstants /\ Init => SurfaceInv
<1> SUFFICES ASSUME SurfacesConstants, Init PROVE SurfaceInv
  OBVIOUS
<1>1. N \in Nat \ {0} /\ Images = 0..(N - 1)
  BY ImagesInOrder
<1>2. ClientTyped
  BY DEF Init, ClientInit, ClientTyped
<1>3. queue = <<>> /\ queue \in Seq(Submissions) /\ DOMAIN queue = {}
  BY EmptySeq, LenProperties DEF Init, SwapchainInit
<1>4. stream \in Seq(Images) /\ presents \in [Images -> Seq(Semaphores)]
  BY EmptySeq DEF Init, SwapchainInit
<1>5. frame \in Images /\ acquiring = {} /\ sync = NoSync /\ swapchain = FALSE /\ current = None
  BY <1>1 DEF Init, SwapchainInit
<1>6. /\ fence \in [Images -> BOOLEAN] /\ semaphore \in [Semaphores -> Int]
      /\ image \in [Images -> {"free", "acquired", "queued"}]
      /\ layout \in [Images -> Layouts] /\ known \in [Images -> Layouts]
  BY NamesTyped DEF Init, SwapchainInit
<1>7. ChainTyped
  BY <1>3, <1>4, <1>5, <1>6, NamesTyped DEF ChainTyped
<1>8. EventsTyped
  BY <1>1 DEF Init, D3D12Init, AllSet, EventsTyped
<1>9. ~configured /\ host = "idle" /\ signals = 0 /\ \A i \in Images : armed[i] = None
  BY DEF Init, ClientInit, D3D12Init
<1>10. CallInv /\ SyncInv
  BY <1>5, <1>9 DEF CallInv, SyncInv
<1>11. FenceInv
  BY <1>3, <1>5, <1>9 DEF FenceInv, FencePending, FrameOpen
<1>12. EventInv
  BY <1>1, <1>9 DEF EventInv, FrameOpen
<1>13. QED
  BY <1>2, <1>7, <1>8, <1>10, <1>11, <1>12 DEF SurfaceInv, TypeInv

LEMMA SurfaceSafe == SurfacesConstants => (Spec => []SurfaceInv)
<1> SUFFICES ASSUME SurfacesConstants PROVE Spec => []SurfaceInv
  OBVIOUS
<1>1. Init => SurfaceInv
  BY SurfaceInit
<1>2. SurfaceInv /\ [Next]_vars => SurfaceInv'
  BY ClientNext, ChainNext, EventsNext, SyncNext, FenceNext, EventNext DEF SurfaceInv, TypeInv
<1>3. QED
  BY <1>1, <1>2, PTL DEF Spec

(* Fences of submissions are of different frames, so there are no more of  *)
(* them than there are frames.                                             *)
LEMMA FencesBounded ==
    ASSUME SurfacesConstants, ChainTyped, FenceInv
    PROVE  Cardinality({n \in DOMAIN queue : queue[n].fence # None}) <= Cardinality(Images)
<1> DEFINE fenced == {n \in DOMAIN queue : queue[n].fence # None}
           fenceOf == [n \in fenced |-> queue[n].fence]
<1>1. queue \in Seq(Submissions)
  BY DEF ChainTyped
<1>2. \A n \in DOMAIN queue : queue[n] \in Submissions
  BY <1>1, ElementOfSeq, LenProperties
<1>3. \A n \in fenced : queue[n].fence \in Images
  BY <1>2 DEF Submissions
<1>4. \A n, m \in fenced : fenceOf[n] = fenceOf[m] => n = m
  BY DEF FenceInv
<1>5. fenceOf \in Injection(fenced, Images)
  BY <1>3, <1>4 DEF Injection, IsInjective
<1>6. IsFiniteSet(Images)
  BY DEF SurfacesConstants
<1>7. Cardinality(fenced) <= Cardinality(Images)
  BY <1>5, <1>6, FS_Injection
<1>8. QED
  BY <1>7

(* The host does not run ahead of the device by more frames than the       *)
(* fences or events of the swapchain allow (d3d12-surface.cpp:66-97,       *)
(* vk-surface.cpp:506-511).                                                *)
THEOREM Throttled == SurfacesConstants => (Spec => []FramesThrottled)
<1> SUFFICES ASSUME SurfacesConstants PROVE Spec => []FramesThrottled
  OBVIOUS
<1>1. SurfaceInv => FramesThrottled
  BY FencesBounded DEF SurfaceInv, TypeInv, EventInv, FramesThrottled, N
<1>2. QED
  BY <1>1, SurfaceSafe, PTL

-----------------------------------------------------------------------------
(* Semaphores and images.  The engine gives images back in any order while *)
(* frames go round in one, so that the inductive invariant relates the     *)
(* two: which frame an acquisition signals, and what of an image is still  *)
(* to be drawn and shown when the image is handed out again.               *)

Draws(i) == {n \in DOMAIN queue : queue[n].image = i}

(* Image i is drawn and not yet shown, or is going to be.                  *)
Drawn(i) == semaphore[Finished(i)] = 1 \/ Draws(i) # {}

(* An image will become available to frame f, or is and nobody has waited  *)
(* for that yet.                                                           *)
Coming(f) == \E a \in acquiring : a.signals = Available(f)
Promised(f) == semaphore[Available(f)] = 1 \/ Coming(f)

(* Image i becomes available to frame f after an earlier presentation.     *)
Late(i, f) == \E a \in acquiring : a.image = i /\ a.signals = Available(f) /\ a.ahead > 0

(* Submitted to be drawn, and not yet presented.                           *)
Open(i) == backend = "Vulkan" /\ FrameOpen /\ sync = NoSync /\ current = i
Due(i) == IF Open(i) THEN Len(presents[i]) + 1 ELSE Len(presents[i])

(* A submission draws nothing, or an image in a frame, with the semaphores *)
(* of both.                                                                *)
Ordinary(e) ==
    e.fence = None /\ e.image = None /\ e.waits = {} /\ e.signals = {} /\ e.reads = None
        /\ e.from = "undefined"

Drawing(e) ==
    /\ e.fence \in Images /\ e.image \in Images
    /\ e.waits = {Available(e.fence)} /\ e.signals = {Finished(e.image)}
    /\ e.reads \in {None, e.fence}

ShapeInv ==
    /\ \A n \in DOMAIN queue : Ordinary(queue[n]) \/ Drawing(queue[n])
    /\ \A i \in Images : \A k \in DOMAIN presents[i] : presents[i][k] = Finished(i)
    /\ sync # NoSync => sync.waits = {Available(frame)} /\ sync.signals = {Finished(current)}
    /\ FrameOpen /\ backend # "D3D12" => current \in Images /\ image[current] = "acquired"

(* A configured surface has a swapchain; without one nothing is under way. *)
SwapchainInv ==
    /\ configured /\ backend # "D3D12" => swapchain
    /\ host = "create" => ~swapchain
    /\ backend = "Vulkan" => known = Pristine.layout
    /\ ~swapchain =>
          /\ acquiring = {} /\ \A i \in Images : presents[i] = <<>>
          /\ \A n \in DOMAIN queue : queue[n].fence = None
          /\ known = Pristine.layout

(* The engine signals a semaphore once for each time the frame is waited   *)
(* for, and an image after what was presented before it was acquired.      *)
AcquiredInv ==
    /\ \A a \in acquiring :
          /\ \E f \in Images : a.signals = Available(f)
          /\ semaphore[a.signals] = 0
          /\ a.ahead \in {0, 1}
          /\ \/ image[a.image] = "acquired" /\ Len(presents[a.image]) = a.ahead
             \/ image[a.image] = "queued" /\ Len(presents[a.image]) = a.ahead + 1
    /\ \A a, b \in acquiring : a.signals = b.signals \/ a.image = b.image => a = b
    /\ \A i \in Images : (\A a \in acquiring : a.image # i) =>
          Len(presents[i]) <= 1 /\ (image[i] = "acquired" => Len(presents[i]) = 0)

(* Who waits for a frame's image is promised one, and the fence tells that *)
(* nobody does.                                                            *)
PromiseInv ==
    \A f \in Images :
       /\ semaphore[Available(f)] \in {0, 1}
       /\ Promised(f) => ~fence[f]
       /\ (\E n \in DOMAIN queue : queue[n].fence = f) => Promised(f)
       /\ FencePending /\ frame = f => Promised(f)

(* An image is not drawn again before what was drawn is shown.             *)
LateOf(i) ==
    /\ Drawn(i) => Len(presents[i]) >= 1 \/ image[i] = "acquired"
    /\ \A a \in acquiring : a.image = i /\ a.ahead = 0 => semaphore[Finished(i)] # 1
    /\ \A f \in Images :
          /\ \A n \in Draws(i) : queue[n].fence = f
                /\ (semaphore[Finished(i)] = 1 \/ \E m \in Draws(i) : m < n) => Late(i, f)
          /\ FencePending /\ current = i /\ frame = f /\ Drawn(i) => Late(i, f)
          /\ \A a \in acquiring : a.image = i =>
                /\ \A n \in Draws(i) : a.ahead = 0 /\ queue[n].fence = f => a.signals = Available(f)
                /\ FencePending /\ current = i /\ frame = f => a.signals = Available(f)

LateInv == \A i \in Images : LateOf(i)

(* What is to be shown is drawn.                                           *)
DueOf(i) ==
    /\ semaphore[Finished(i)] \in {0, 1}
    /\ Due(i) >= 1 => Drawn(i)
    /\ Due(i) >= 2 => \/ semaphore[Finished(i)] = 1 /\ Draws(i) # {}
                      \/ \E n, m \in Draws(i) : n < m

DueInv == \A i \in Images : DueOf(i)

(* The layout of an image, and what a copy takes it to be.                 *)
LayoutOf(i) ==
    /\ semaphore[Finished(i)] = 1 => layout[i] = "present"
    /\ known[i] = "present" => layout[i] = "present" \/ Draws(i) # {}
    /\ \A n \in Draws(i) : queue[n].from = "present" =>
          layout[i] = "present" \/ \E m \in Draws(i) : m < n

LayoutInv == \A i \in Images : LayoutOf(i)

(* A kernel writes no texture that a submitted copy reads.                 *)
TextureInv ==
    \A n \in DOMAIN queue, m \in DOMAIN stream : queue[n].reads # stream[m]

HandInv ==
    /\ ShapeInv /\ SwapchainInv /\ AcquiredInv /\ PromiseInv /\ LateInv /\ DueInv
    /\ LayoutInv /\ TextureInv

-----------------------------------------------------------------------------
(* What the steps of the three backends have in common.                    *)

(* Only the client, its kernels or the events of DXGI move on.             *)
Quiet ==
    /\ UNCHANGED <<swapchain, current, device, sync, known>>
    /\ FencePending' => FencePending /\ frame' = frame
    /\ backend # "D3D12" => (FrameOpen' => FrameOpen) /\ (configured' => configured)
    /\ host' = "create" => host = "create"
    /\ \A m \in DOMAIN stream' :
          \/ FencePending /\ stream'[m] = frame
          \/ \E k \in DOMAIN stream : stream'[m] = stream[k]

(* The swapchain is destroyed.                                             *)
Destroys ==
    /\ queue = <<>> /\ \A i \in Images : presents[i] = <<>>
    /\ swapchain' = FALSE /\ current' = None /\ acquiring' = {}
    /\ ~configured' /\ sync = NoSync
    /\ known' = Pristine.layout
    /\ UNCHANGED <<frame, fence, semaphore, image, layout, queue, presents, sync, stream>>

(* It is created.                                                          *)
Creates ==
    /\ ~swapchain /\ queue = <<>>
    /\ swapchain' = TRUE /\ frame' = 0
    /\ fence' = Pristine.fence /\ semaphore' = Pristine.semaphore
    /\ image' = Pristine.image /\ layout' = Pristine.layout
    /\ ~FrameOpen' /\ sync = NoSync /\ host' = "idle"
    /\ UNCHANGED <<current, acquiring, queue, presents, sync, stream, known>>

(* An image is acquired, or is not.                                        *)
Acquires(i) ==
    /\ fence[frame] /\ fence' = [fence EXCEPT ![frame] = FALSE]
    /\ AcquireImage(i)
    /\ swapchain
    /\ FrameOpen'
    /\ IF backend = "Vulkan"
       THEN sync' = [fence |-> frame, waits |-> {Available(frame)}, signals |-> {Finished(i)}]
       ELSE sync' = NoSync /\ backend # "D3D12"
    /\ configured /\ host' = "idle"
    /\ UNCHANGED <<swapchain, frame, semaphore, layout, queue, presents, stream, known>>

Misses ==
    /\ fence' = [fence EXCEPT ![frame] = FALSE]
    /\ current' = None /\ ~FrameOpen' /\ sync = NoSync
    /\ configured /\ host' = "idle" /\ backend # "D3D12"
    /\ UNCHANGED <<swapchain, frame, semaphore, image, layout, acquiring, queue, presents,
                   sync, stream, known>>

(* Work is submitted: none of a frame, the frame's, with or without its    *)
(* presentation.                                                           *)
SubmitsMore(e) ==
    /\ e \in Submissions /\ Ordinary(e) /\ queue' = Append(queue, e)
    /\ UNCHANGED <<client, swapchain, frame, current, fence, semaphore, image, layout,
                   acquiring, presents, sync, stream, known>>

SubmitsFrame(e) ==
    /\ e \in Submissions /\ queue' = Append(queue, e)
    /\ e.waits = {Available(frame)} /\ e.signals = {Finished(current)}
    /\ e.fence = frame /\ e.image = current /\ e.reads \in {None, frame}
    /\ e.from \in {"undefined", known[current]}
    /\ e.reads = frame => stream = <<>>
    /\ FencePending /\ FrameOpen /\ current \in Images /\ swapchain
    /\ sync' = NoSync /\ ~FencePending'
    /\ UNCHANGED <<swapchain, current, fence, semaphore, layout, acquiring, stream>>

Draw(e) ==
    /\ SubmitsFrame(e)
    /\ backend = "Vulkan"
    /\ UNCHANGED <<client, frame, image, presents, known>>

DrawAndPresent(e) ==
    /\ SubmitsFrame(e)
    /\ QueuePresent /\ ~FrameOpen' /\ configured' = configured /\ host' = "idle"
    /\ \/ known' = known
       \/ backend = "CUDA" /\ known' = [known EXCEPT ![current] = "present"]

(* What was submitted before is presented.                                 *)
Present ==
    /\ Open(current) /\ current \in Images
    /\ QueuePresent /\ ~FrameOpen' /\ configured' = configured /\ host' = "idle" /\ swapchain
    /\ UNCHANGED <<swapchain, current, fence, semaphore, layout, acquiring, queue, sync,
                   stream, known>>

(* What the device and the engine do.                                      *)
EngineStep == UNCHANGED <<sync, stream, known>>

Move ==
    /\ backend' = backend
    /\ \/ Quiet \/ Destroys \/ Creates
       \/ (\E i \in Images : Acquires(i)) \/ Misses
       \/ \E e \in Submissions : SubmitsMore(e) \/ Draw(e) \/ DrawAndPresent(e)
       \/ Present
       \/ Execute /\ EngineStep
       \/ (\E i \in Images : Show(i) /\ EngineStep)
       \/ (\E a \in acquiring : BecomeAvailable(a) /\ EngineStep)

LEMMA QuietSteps ==
    ASSUME backend' = backend, UNCHANGED <<swapchain, current, device, sync, known>>,
           FencePending' => FencePending /\ frame' = frame,
           backend # "D3D12" => (FrameOpen' => FrameOpen) /\ (configured' => configured),
           host' = "create" => host = "create", stream' = stream
    PROVE  Move
BY DEF Move, Quiet

LEMMA Moves ==
    ASSUME SurfacesConstants, SurfaceInv, ShapeInv, SwapchainInv, [Next]_vars
    PROVE  Move
<1> USE DEF SurfaceInv, TypeInv, chain, indices, device, cuda, client, dxgi
<1>0. current \in Images => Submission(current) \in Submissions /\ CopyToImage \in Submissions
  BY SubmissionsTyped DEF ChainTyped
<1>1. ASSUME BeginReconfigure PROVE Move
  <2>1. ~FrameOpen' /\ ~configured' /\ host' # "create"
    BY <1>1 DEF BeginReconfigure, Reconfigure, FrameOpen
  <2>2. sync = NoSync
    BY <1>1 DEF BeginReconfigure, Reconfigure, BetweenFrames, SyncInv, FrameOpen
  <2>3. QED
    BY <1>1, <2>1, <2>2, QuietSteps DEF BeginReconfigure, FencePending
<1>2. ASSUME backend = "Vulkan", VulkanBeginAcquire, UNCHANGED <<cuda, dxgi>> PROVE Move
  BY <1>2, QuietSteps DEF VulkanBeginAcquire, MayAcquire, Enter, FencePending, FrameOpen
<1>3. ASSUME backend = "Vulkan", VulkanSubmit, UNCHANGED <<cuda, dxgi>> PROVE Move
  <2>1. CASE sync = NoSync
    <3>1. queue' = Append(queue, Submission(None)) /\ Submission(None) \in Submissions
      BY <1>3, <2>1, SubmissionsTyped DEF VulkanSubmit
    <3>2. Ordinary(Submission(None))
      BY <2>1 DEF Ordinary, Submission, SyncWaits, NoSync
    <3>3. SubmitsMore(Submission(None))
      BY <1>3, <2>1, <3>1, <3>2 DEF SubmitsMore, VulkanSubmit
    <3>4. QED
      BY <1>3, <3>1, <3>3 DEF Move, VulkanSubmit
  <2>2. CASE sync # NoSync
    <3>1. FrameOpen /\ host = "idle" /\ sync.fence = frame /\ FencePending /\ swapchain
      BY <1>3, <2>2 DEF SyncInv, FencePending, SwapchainInv, FrameOpen
    <3>2. current \in Images
      BY <1>3, <3>1 DEF ShapeInv
    <3>3. /\ Submission(current).waits = {Available(frame)}
          /\ Submission(current).signals = {Finished(current)}
          /\ Submission(current).fence = frame /\ Submission(current).image = current
          /\ Submission(current).reads = None /\ Submission(current).from = "undefined"
      BY <2>2, <3>1 DEF Submission, SyncWaits, ShapeInv
    <3>4. queue' = Append(queue, Submission(current)) /\ sync' = NoSync
      BY <1>3, <2>2 DEF VulkanSubmit
    <3>5. ~FencePending' /\ None # frame
      <4>1. frame \in Images
        BY DEF ChainTyped
      <4>2. frame # None
        BY <4>1, ImagesInOrder DEF None
      <4>3. QED
        BY <1>3, <3>4, <4>2 DEF FencePending, VulkanSubmit
    <3>6. SubmitsFrame(Submission(current))
      BY <1>0, <1>3, <3>1, <3>2, <3>3, <3>4, <3>5 DEF SubmitsFrame, VulkanSubmit
    <3>7. Draw(Submission(current))
      BY <1>3, <3>6 DEF Draw, VulkanSubmit
    <3>8. QED
      BY <1>0, <1>3, <3>2, <3>7 DEF Move, VulkanSubmit
  <2>3. QED
    BY <2>1, <2>2
<1>4. ASSUME backend = "Vulkan", VulkanPresent, UNCHANGED <<cuda, dxgi>> PROVE Move
  <2>1. FrameOpen /\ ~FrameOpen' /\ configured' = configured /\ host' = "idle" /\ swapchain
    BY <1>4 DEF VulkanPresent, InFrame, Returns, FrameOpen, SwapchainInv, ClientTyped
  <2>2. current \in Images /\ QueuePresent /\ frame \in Images
    BY <1>4, <2>1 DEF VulkanPresent, ShapeInv, ChainTyped
  <2>3. sync' = NoSync /\ backend' = backend
    BY <1>4 DEF VulkanPresent, TransitionIfNotSubmitted, SyncInv
  <2>4. ~FencePending'
    BY <1>4, <2>3 DEF FencePending
  <2>5. CASE sync.fence # None
    <3>1. sync # NoSync /\ sync.fence = frame /\ FencePending
      BY <2>5 DEF NoSync, SyncInv, FencePending
    <3>3. /\ Submission(current).waits = {Available(frame)}
          /\ Submission(current).signals = {Finished(current)}
          /\ Submission(current).fence = frame /\ Submission(current).image = current
          /\ Submission(current).reads = None /\ Submission(current).from = "undefined"
      BY <3>1 DEF Submission, SyncWaits, ShapeInv
    <3>4. queue' = Append(queue, Submission(current))
      BY <1>4, <2>5 DEF VulkanPresent, TransitionIfNotSubmitted
    <3>5. None # frame
      BY <2>2, ImagesInOrder DEF None
    <3>6. SubmitsFrame(Submission(current))
      BY <1>0, <1>4, <2>1, <2>2, <2>3, <2>4, <3>1, <3>3, <3>4, <3>5
      DEF SubmitsFrame, VulkanPresent
    <3>7. DrawAndPresent(Submission(current))
      BY <1>4, <2>1, <2>2, <3>6 DEF DrawAndPresent
    <3>8. QED
      BY <1>0, <2>2, <2>3, <3>7 DEF Move
  <2>6. CASE sync.fence = None
    <3>1. sync = NoSync /\ UNCHANGED <<queue, sync>>
      BY <1>4, <2>6 DEF SyncInv, VulkanPresent, TransitionIfNotSubmitted
    <3>2. Open(current)
      BY <1>4, <2>1, <3>1 DEF Open
    <3>3. Present
      BY <1>4, <2>1, <2>2, <3>1, <3>2 DEF Present, VulkanPresent
    <3>4. QED
      BY <2>3, <3>3 DEF Move
  <2>7. QED
    BY <2>5, <2>6
<1>5. ASSUME backend = "CUDA", CudaBeginAcquire, UNCHANGED <<sync, dxgi>> PROVE Move
  BY <1>5, QuietSteps DEF CudaBeginAcquire, MayAcquire, Enter, FencePending, FrameOpen
<1>6. ASSUME backend = "CUDA", LaunchKernel, UNCHANGED <<sync, dxgi>> PROVE Move
  <2>1. FencePending /\ stream \in Seq(Images) /\ frame \in Images
    BY <1>6 DEF LaunchKernel, InFrame, FencePending, FrameOpen, ChainTyped
  <2>2. stream' = Append(stream, frame) /\ UNCHANGED <<backend, client, chain, sync, known>>
    BY <1>6 DEF LaunchKernel
  <2>3. \A m \in DOMAIN stream' :
           \/ FencePending /\ stream'[m] = frame
           \/ \E k \in DOMAIN stream : stream'[m] = stream[k]
    <3>1. /\ DOMAIN stream = 1..Len(stream) /\ DOMAIN stream' = 1..(Len(stream) + 1)
          /\ Len(stream) \in Nat
          /\ \A k \in 1..Len(stream) : stream'[k] = stream[k]
          /\ stream'[Len(stream) + 1] = frame
      BY <2>1, <2>2, AppendProperties, LenProperties
    <3>2. \A m \in DOMAIN stream' : m = Len(stream) + 1 \/ m \in 1..Len(stream)
      BY <3>1
    <3>3. QED
      BY <2>1, <3>1, <3>2
  <2>4. FencePending' = FencePending /\ FrameOpen' = FrameOpen
    BY <2>2 DEF FencePending, FrameOpen
  <2>5. Quiet
    BY <2>2, <2>3, <2>4 DEF Quiet
  <2>6. QED
    BY <2>2, <2>5 DEF Move
<1>7. ASSUME backend = "CUDA", CudaBeginPresent, UNCHANGED <<sync, dxgi>> PROVE Move
  BY <1>7, QuietSteps DEF CudaBeginPresent, InFrame, Enter, FencePending, FrameOpen
<1>8. ASSUME backend = "D3D12", D3D12BeginAcquire, UNCHANGED <<chain, sync, cuda>> PROVE Move
  BY <1>8, QuietSteps DEF D3D12BeginAcquire, MayAcquire, Enter, FencePending, FrameOpen
<1>9. ASSUME backend = "D3D12", D3D12Present, UNCHANGED <<chain, sync, cuda>> PROVE Move
  BY <1>9, QuietSteps DEF D3D12Present, InFrame, Returns, FencePending
<1>10. ASSUME DestroySwapchain, backend \in {"Vulkan", "CUDA"}, UNCHANGED <<sync, stream>>,
              known' = Pristine.layout
       PROVE  Move
  <2>1. ~configured /\ ~configured' /\ backend' = backend
    BY <1>10 DEF DestroySwapchain, Enter, Unconfigured, CallInv
  <2>2. sync = NoSync
    BY <2>1 DEF SyncInv, FrameOpen
  <2>3. Destroys
    BY <1>10, <2>1, <2>2 DEF Destroys, DestroySwapchain, WaitIdle
  <2>4. QED
    BY <2>1, <2>3 DEF Move
<1>11. ASSUME CreateSwapchain, UNCHANGED <<sync, cuda>> PROVE Move
  <2>1. host = "create" /\ ~configured /\ queue = <<>> /\ ~swapchain /\ backend' = backend
    BY <1>11 DEF CreateSwapchain, CallInv, SwapchainInv
  <2>2. sync = NoSync
    BY <2>1 DEF SyncInv, FrameOpen
  <2>3. ~FrameOpen' /\ host' = "idle"
    BY <1>11, <2>1 DEF CreateSwapchain, Configured, FrameOpen
  <2>4. CASE Configured(TRUE) /\ swapchain' = TRUE
    <3>1. Creates
      BY <1>11, <2>1, <2>2, <2>3, <2>4 DEF Creates, CreateSwapchain, Configured
    <3>2. QED
      BY <2>1, <3>1 DEF Move
  <2>5. CASE Configured(FALSE) /\ UNCHANGED <<swapchain, frame, fence, semaphore, image, layout>>
    <3>1. ~configured'
      BY <2>5 DEF Configured
    <3>2. QED
      BY <1>11, <2>1, <2>2, <2>3, <2>5, <3>1, QuietSteps DEF CreateSwapchain, FencePending
  <2>6. QED
    BY <1>11, <2>4, <2>5 DEF CreateSwapchain
<1>12. ASSUME backend = "Vulkan", VulkanAcquire, UNCHANGED <<cuda, dxgi>> PROVE Move
  <2>1. host = "acquire" /\ configured /\ ~lost /\ swapchain /\ backend' = backend
    BY <1>12 DEF VulkanAcquire, CallInv, SwapchainInv
  <2>2. sync = NoSync
    BY <2>1 DEF SyncInv
  <2>3. ASSUME NEW i \in Images, AcquireImage(i), Returns("ImageAcquired", TRUE),
               sync' = [fence |-> frame, waits |-> {Available(frame)}, signals |-> {Finished(i)}]
        PROVE  Move
    <3>1. FrameOpen' /\ host' = "idle"
      BY <2>1, <2>3 DEF Returns, FrameOpen, ClientTyped
    <3>2. Acquires(i)
      BY <1>12, <2>1, <2>3, <3>1 DEF Acquires, VulkanAcquire, FrameFinished, ResetFence
    <3>3. QED
      BY <2>1, <3>2 DEF Move
  <2>4. ASSUME AcquireFails, Returns("ImageAcquired", FALSE), sync' = sync PROVE Move
    <3>1. ~FrameOpen' /\ host' = "idle"
      BY <2>4 DEF Returns, FrameOpen
    <3>2. Misses
      BY <1>12, <2>1, <2>2, <2>4, <3>1 DEF Misses, VulkanAcquire, ResetFence, AcquireFails
    <3>3. QED
      BY <2>1, <3>2 DEF Move
  <2>5. QED
    BY <1>12, <2>3, <2>4 DEF VulkanAcquire
<1>13. ASSUME backend = "CUDA", CudaAcquire, UNCHANGED <<sync, dxgi>> PROVE Move
  <2>1. host = "acquire" /\ configured /\ ~lost /\ swapchain /\ backend' = backend
    BY <1>13 DEF CudaAcquire, CallInv, SwapchainInv
  <2>2. sync = NoSync
    BY <2>1 DEF SyncInv
  <2>3. ASSUME NEW i \in Images, AcquireImage(i), Returns("ImageAcquired", TRUE) PROVE Move
    <3>1. FrameOpen' /\ host' = "idle"
      BY <2>1, <2>3 DEF Returns, FrameOpen, ClientTyped
    <3>2. Acquires(i)
      BY <1>13, <2>1, <2>2, <2>3, <3>1 DEF Acquires, CudaAcquire, FrameFinished, ResetFence
    <3>3. QED
      BY <2>1, <3>2 DEF Move
  <2>4. ASSUME AcquireFails, Returns("ImageAcquired", FALSE) PROVE Move
    <3>1. ~FrameOpen' /\ host' = "idle"
      BY <2>4 DEF Returns, FrameOpen
    <3>2. Misses
      BY <1>13, <2>1, <2>2, <2>4, <3>1 DEF Misses, CudaAcquire, ResetFence, AcquireFails
    <3>3. QED
      BY <2>1, <3>2 DEF Move
  <2>5. QED
    BY <1>13, <2>3, <2>4 DEF CudaAcquire
<1>14. ASSUME backend = "CUDA", CudaPresent, UNCHANGED <<sync, dxgi>> PROVE Move
  <2>1. FrameOpen /\ FencePending /\ ~FrameOpen' /\ configured' = configured /\ host' = "idle"
    BY <1>14 DEF CudaPresent, CallInv, FrameOpen, FencePending, Returns, ClientTyped
  <2>2. sync = NoSync /\ sync' = NoSync /\ backend' = backend
    BY <1>14 DEF SyncInv, CudaPresent
  <2>3. ~FencePending' /\ swapchain
    BY <1>14, <2>1, <2>2 DEF FencePending, SwapchainInv, FrameOpen
  <2>4. current \in Images
    BY <1>14, <2>1 DEF ShapeInv
  <2>5. ASSUME queue' = Append(queue, CopyToImage), QueuePresent,
               known' = [known EXCEPT ![current] = "present"] \/ known' = known
        PROVE  Move
    <3>1. SubmitsFrame(CopyToImage)
      BY <1>0, <1>14, <2>1, <2>2, <2>3, <2>4, <2>5
      DEF SubmitsFrame, CudaPresent, CopyToImage, StreamSynchronized
    <3>2. DrawAndPresent(CopyToImage)
      BY <1>14, <2>1, <2>5, <3>1 DEF DrawAndPresent
    <3>3. QED
      BY <1>0, <2>2, <2>4, <3>2 DEF Move
  <2>6. ASSUME UNCHANGED <<queue, presents, image, known>> PROVE Move
    BY <1>14, <2>1, <2>2, <2>3, <2>6, QuietSteps DEF CudaPresent
  <2>7. QED
    BY <1>14, <2>5, <2>6 DEF CudaPresent
<1>15. ASSUME backend = "D3D12", D3D12Configure, UNCHANGED <<chain, sync, cuda>> PROVE Move
  BY <1>15, QuietSteps DEF D3D12Configure, Configured, FencePending
<1>16. ASSUME backend = "D3D12", D3D12Unconfigure, UNCHANGED <<chain, sync, cuda>> PROVE Move
  BY <1>16, QuietSteps DEF D3D12Unconfigure, Unconfigured, FencePending
<1>17. ASSUME backend = "D3D12", D3D12Acquire, UNCHANGED <<chain, sync, cuda>> PROVE Move
  BY <1>17, QuietSteps DEF D3D12Acquire, Returns, FencePending
<1>18. ASSUME Engine, UNCHANGED <<sync, cuda, dxgi>> PROVE Move
  BY <1>18 DEF Engine, Move, EngineStep, Execute, Show, BecomeAvailable
<1>19. ASSUME KernelFinishes, UNCHANGED <<sync, dxgi>> PROVE Move
  <2>1. stream \in Seq(Images) /\ stream # <<>>
    BY <1>19 DEF KernelFinishes, ChainTyped
  <2>2. stream' = Tail(stream) /\ UNCHANGED <<backend, client, chain, sync, known>>
    BY <1>19 DEF KernelFinishes
  <2>3. \A m \in DOMAIN stream' : \E k \in DOMAIN stream : stream'[m] = stream[k]
    <3>1. Len(stream) \in Nat /\ Len(stream) # 0 /\ DOMAIN stream = 1..Len(stream)
      BY <2>1, EmptySeq, LenProperties
    <3>2. stream' \in Seq(Images) /\ Len(stream') = Len(stream) - 1
      BY <2>1, <2>2, HeadTailProperties
    <3>3. \A n \in 1..(Len(stream) - 1) : stream'[n] = stream[n + 1]
      BY <2>1, <2>2, <3>2, HeadTailProperties
    <3>4. DOMAIN stream' = 1..(Len(stream) - 1)
      BY <3>2, LenProperties
    <3>5. \A n \in 1..(Len(stream) - 1) : n + 1 \in 1..Len(stream)
      BY <3>1
    <3>6. QED
      BY <3>1, <3>3, <3>4, <3>5
  <2>4. FencePending' = FencePending /\ FrameOpen' = FrameOpen
    BY <2>2 DEF FencePending, FrameOpen
  <2>5. Quiet
    BY <2>2, <2>3, <2>4 DEF Quiet
  <2>6. QED
    BY <2>2, <2>5 DEF Move
<1>20. ASSUME FenceSignalled, UNCHANGED <<chain, sync, cuda>> PROVE Move
  BY <1>20, QuietSteps DEF FenceSignalled, FencePending, FrameOpen
<1>21. CASE UNCHANGED vars
  BY <1>21, QuietSteps DEF vars, FencePending, FrameOpen
<1>22. ASSUME VulkanHost, UNCHANGED <<cuda, dxgi>> PROVE Move
  BY <1>10, <1>11, <1>12, <1>22 DEF VulkanHost, SwapchainInv
<1>23. ASSUME CudaHost, UNCHANGED <<sync, dxgi>> PROVE Move
  BY <1>10, <1>11, <1>13, <1>14, <1>23
  DEF CudaHost, CudaDestroySwapchain, CudaCreateSwapchain
<1>24. QED
  BY <1>1, <1>2, <1>3, <1>4, <1>5, <1>6, <1>7, <1>8, <1>9, <1>15, <1>16, <1>17, <1>18, <1>19,
     <1>20, <1>21, <1>22, <1>23
  DEF Next, Calls, Host, Gpu, VulkanCalls, CudaCalls, D3D12Calls, D3D12Host

LEMMA NamesApart ==
    /\ \A f, g \in Images : Available(f) # Finished(g)
    /\ \A f, g \in Images : Available(f) = Available(g) => f = g
    /\ \A f, g \in Images : Finished(f) = Finished(g) => f = g
    /\ \A f \in Images : Available(f) \in Semaphores /\ Finished(f) \in Semaphores
    /\ \A s \in Semaphores : \E f \in Images : s = Available(f) \/ s = Finished(f)
BY DEF Available, Finished, Semaphores

LEMMA PresentsLengths ==
    ASSUME ChainTyped
    PROVE  \A i \in Images : /\ presents[i] \in Seq(Semaphores) /\ Len(presents[i]) \in Nat
                             /\ presents[i] = <<>> <=> Len(presents[i]) = 0
                             /\ DOMAIN presents[i] = 1..Len(presents[i])
BY LenProperties, EmptySeq DEF ChainTyped

LEMMA NoneIsNoImage == SurfacesConstants => None \notin Images
BY ImagesInOrder DEF None

LEMMA DrawsTyped ==
    ASSUME ChainTyped
    PROVE  \A i : Draws(i) \subseteq 1..Len(queue) /\ Len(queue) \in Nat
BY LenProperties DEF ChainTyped, Draws

LEMMA DrawsGrow ==
    ASSUME ChainTyped, NEW e \in Submissions, queue' = Append(queue, e)
    PROVE  /\ \A i, n : n \in Draws(i)' <=> n \in Draws(i) \/ (n = Len(queue) + 1 /\ e.image = i)
           /\ \A i : Draws(i) \subseteq 1..Len(queue)
           /\ Len(queue) \in Nat
           /\ DOMAIN queue' = 1..(Len(queue) + 1) /\ DOMAIN queue = 1..Len(queue)
           /\ \A n \in 1..Len(queue) : queue'[n] = queue[n]
           /\ queue'[Len(queue) + 1] = e
<1>1. /\ Len(queue) \in Nat
      /\ DOMAIN queue = 1..Len(queue) /\ DOMAIN queue' = 1..(Len(queue) + 1)
      /\ \A n \in 1..Len(queue) : queue'[n] = queue[n]
      /\ queue'[Len(queue) + 1] = e
  BY QueueGrows
<1>2. \A n : n \in 1..(Len(queue) + 1) <=> n \in 1..Len(queue) \/ n = Len(queue) + 1
  BY <1>1
<1>3. QED
  BY <1>1, <1>2 DEF Draws

LEMMA DrawsShrink ==
    ASSUME ChainTyped, queue # <<>>, queue' = Tail(queue)
    PROVE  /\ \A i : \A n : n \in Draws(i)' <=> n \in 1..(Len(queue) - 1) /\ n + 1 \in Draws(i)
           /\ \A i : \A n \in Draws(i) : n \in 1..Len(queue) /\ (n = 1 \/ n - 1 \in Draws(i)')
           /\ Len(queue) \in Nat /\ Len(queue) >= 1
           /\ DOMAIN queue' = 1..(Len(queue) - 1) /\ DOMAIN queue = 1..Len(queue)
           /\ \A n \in 1..(Len(queue) - 1) : queue'[n] = queue[n + 1]
           /\ \A n \in DOMAIN queue' : n + 1 \in DOMAIN queue /\ queue'[n] = queue[n + 1]
           /\ Head(queue) = queue[1] /\ 1 \in DOMAIN queue
<1>1. /\ Head(queue) = queue[1]
      /\ Len(queue) \in Nat /\ Len(queue) >= 1
      /\ DOMAIN queue = 1..Len(queue) /\ DOMAIN queue' = 1..(Len(queue) - 1)
      /\ \A n \in 1..(Len(queue) - 1) : queue'[n] = queue[n + 1]
  BY QueueShrinks
<1>2. ASSUME NEW i, NEW n
      PROVE  n \in Draws(i)' <=> n \in 1..(Len(queue) - 1) /\ n + 1 \in Draws(i)
  <2>1. n \in 1..(Len(queue) - 1) => n + 1 \in 1..Len(queue)
    BY <1>1
  <2>2. QED
    BY <1>1, <2>1 DEF Draws
<1>3. ASSUME NEW i, NEW n \in Draws(i)
      PROVE  n \in 1..Len(queue) /\ (n = 1 \/ n - 1 \in Draws(i)')
  <2>1. n \in 1..Len(queue)
    BY <1>1 DEF Draws
  <2>2. n # 1 => n - 1 \in 1..(Len(queue) - 1) /\ (n - 1) + 1 = n
    BY <1>1, <2>1
  <2>3. QED
    BY <1>2, <2>1, <2>2
<1>4. \A n \in DOMAIN queue' : n + 1 \in DOMAIN queue
  BY <1>1
<1>5. QED
  BY <1>1, <1>2, <1>3, <1>4

(* The device executes what draws nothing, or what draws an image that is  *)
(* available and of which nothing is left to show.                         *)
LEMMA Executes ==
    ASSUME SurfacesConstants, ChainTyped, ShapeInv, AcquiredInv, PromiseInv, LateInv, DueInv, Execute
    PROVE  LET e == queue[1]
               f == queue[1].fence
               i == queue[1].image
           IN  /\ queue # <<>> /\ queue' = Tail(queue)
               /\ UNCHANGED <<backend, client, indices, image, acquiring, presents>>
               /\ \/ Ordinary(e) /\ UNCHANGED <<semaphore, fence, layout>>
                  \/ /\ Drawing(e) /\ f \in Images /\ i \in Images /\ 1 \in Draws(i)
                     /\ semaphore[Available(f)] = 1 /\ ~Coming(f)
                     /\ semaphore[Finished(i)] = 0 /\ \A n \in Draws(i) : n # 1 => Late(i, queue[n].fence)
                     /\ semaphore' = [semaphore EXCEPT ![Available(f)] = 0, ![Finished(i)] = 1]
                     /\ fence' = [fence EXCEPT ![f] = TRUE]
                     /\ layout' = [layout EXCEPT ![i] = "present"]
<1> DEFINE e == queue[1]
           f == queue[1].fence
           i == queue[1].image
<1>1. queue # <<>> /\ queue' = Tail(queue) /\ UNCHANGED <<backend, client, indices, image, acquiring, presents>>
  BY DEF Execute, Executable
<1>2. Head(queue) = e /\ 1 \in DOMAIN queue /\ Len(queue) \in Nat /\ DOMAIN queue = 1..Len(queue)
  BY <1>1, DrawsShrink
<1>3. /\ \A s \in e.waits : semaphore[s] >= 1
      /\ semaphore' = [s \in Semaphores |->
             semaphore[s] - (IF s \in e.waits THEN 1 ELSE 0) + (IF s \in e.signals THEN 1 ELSE 0)]
      /\ fence' = [g \in Images |-> fence[g] \/ g = f]
      /\ layout' = [j \in Images |-> IF j = i THEN "present" ELSE layout[j]]
  BY <1>2 DEF Execute, Executable, Ready
<1>4. semaphore \in [Semaphores -> Int] /\ fence \in [Images -> BOOLEAN] /\ layout \in [Images -> Layouts]
  BY DEF ChainTyped
<1>5. CASE Ordinary(e)
  <2>1. \A s \in Semaphores : semaphore'[s] = semaphore[s]
    BY <1>3, <1>4, <1>5 DEF Ordinary
  <2>2. semaphore' = semaphore
    BY <1>3, <1>4, <2>1
  <2>3. fence' = fence /\ layout' = layout
    BY <1>3, <1>4, <1>5, NoneIsNoImage DEF Ordinary
  <2>4. QED
    BY <1>1, <1>5, <2>2, <2>3
<1>6. CASE Drawing(e)
  <2>1. /\ f \in Images /\ i \in Images /\ e.waits = {Available(f)} /\ e.signals = {Finished(i)}
        /\ Available(f) \in Semaphores /\ Finished(i) \in Semaphores /\ Available(f) # Finished(i)
    BY <1>6, NamesApart DEF Drawing
  <2>2. semaphore[Available(f)] = 1
    <3>1. semaphore[Available(f)] \in {0, 1} /\ semaphore[Available(f)] >= 1
      BY <1>3, <2>1 DEF PromiseInv
    <3>2. QED
      BY <3>1
  <2>3. ~Coming(f)
    BY <2>2 DEF Coming, AcquiredInv
  <2>4. 1 \in Draws(i)
    BY <1>2 DEF Draws
  <2>5. semaphore[Finished(i)] = 0
    <3>1. ~Late(i, f)
      BY <2>3 DEF Late, Coming
    <3>2. semaphore[Finished(i)] # 1
      BY <2>1, <2>4, <3>1 DEF LateInv, LateOf
    <3>3. QED
      BY <2>1, <3>2 DEF DueInv, DueOf
  <2>6. \A n \in Draws(i) : n # 1 => Late(i, queue[n].fence)
    <3>1. \A n \in Draws(i) : n # 1 => 1 < n
      BY DrawsTyped
    <3>2. \A n \in Draws(i) : queue[n].fence \in Images
      BY <2>1, NoneIsNoImage DEF Draws, ShapeInv, Ordinary, Drawing
    <3>3. QED
      BY <2>1, <2>4, <3>1, <3>2 DEF LateInv, LateOf
  <2>7. semaphore' = [semaphore EXCEPT ![Available(f)] = 0, ![Finished(i)] = 1]
    <3>1. semaphore'[Available(f)] = 0 /\ semaphore'[Finished(i)] = 1
      BY <1>3, <2>1, <2>2, <2>5
    <3>2. \A s \in Semaphores : s # Available(f) /\ s # Finished(i) => semaphore'[s] = semaphore[s]
      BY <1>3, <1>4, <2>1
    <3>3. DOMAIN semaphore' = Semaphores
      BY <1>3
    <3>4. QED
      BY <1>3, <1>4, <2>1, <3>1, <3>2, <3>3
  <2>8. fence' = [fence EXCEPT ![f] = TRUE] /\ layout' = [layout EXCEPT ![i] = "present"]
    <3>1. fence' = [fence EXCEPT ![f] = TRUE]
      BY <1>3, <1>4, <2>1
    <3>2. layout' = [layout EXCEPT ![i] = "present"]
      BY <1>3, <1>4, <2>1
    <3>3. QED
      BY <3>1, <3>2
  <2>9. QED
    BY <1>1, <1>6, <2>1, <2>2, <2>3, <2>4, <2>5, <2>6, <2>7, <2>8
<1>7. Ordinary(e) \/ Drawing(e)
  BY <1>2 DEF ShapeInv
<1>8. QED
  BY <1>5, <1>6, <1>7

(* The engine shows what was drawn and is presented.                       *)
LEMMA Shows ==
    ASSUME SurfacesConstants, ChainTyped, ShapeInv, AcquiredInv, LateInv, DueInv,
           NEW i \in Images, Show(i)
    PROVE  /\ UNCHANGED <<backend, client, indices, fence, layout, queue>>
           /\ semaphore[Finished(i)] = 1
           /\ semaphore' = [semaphore EXCEPT ![Finished(i)] = 0]
           /\ Len(presents[i]) \in Nat /\ Len(presents[i]) >= 1
           /\ presents'[i] = Tail(presents[i]) /\ presents'[i] \in Seq(Semaphores)
           /\ Len(presents'[i]) = Len(presents[i]) - 1
           /\ \A k \in DOMAIN presents'[i] : presents'[i][k] = Finished(i)
           /\ \A j \in Images : j # i => presents'[j] = presents[j] /\ image'[j] = image[j]
           /\ image'[i] = IF image[i] = "queued" /\ Len(presents[i]) = 1 THEN "free" ELSE image[i]
           /\ \A a \in acquiring : a.image = i => a.ahead = 1
           /\ acquiring' = {IF a.image = i THEN [a EXCEPT !.ahead = 0] ELSE a : a \in acquiring}
<1>1. /\ presents[i] \in Seq(Semaphores) /\ Len(presents[i]) \in Nat
      /\ presents[i] = <<>> <=> Len(presents[i]) = 0
      /\ DOMAIN presents[i] = 1..Len(presents[i])
  BY PresentsLengths
<1>2. presents[i] # <<>> /\ Len(presents[i]) >= 1
  BY <1>1 DEF Show, Showable
<1>3. Head(presents[i]) = Finished(i)
  BY <1>1, <1>2 DEF ShapeInv
<1>4. semaphore[Finished(i)] = 1
  BY <1>3 DEF Show, Showable, Ready, DueInv, DueOf
<1>5. semaphore' = [semaphore EXCEPT ![Finished(i)] = 0]
  <2>1. semaphore' = [semaphore EXCEPT ![Finished(i)] = semaphore[Finished(i)] - 1]
    BY <1>3 DEF Show
  <2>2. semaphore[Finished(i)] - 1 = 0
    BY <1>4
  <2>3. QED
    BY <2>1, <2>2
<1>6. /\ Tail(presents[i]) \in Seq(Semaphores) /\ Len(Tail(presents[i])) = Len(presents[i]) - 1
      /\ \A k \in 1..(Len(presents[i]) - 1) : Tail(presents[i])[k] = presents[i][k + 1]
  BY <1>1, <1>2, HeadTailProperties
<1>7. DOMAIN Tail(presents[i]) = 1..(Len(presents[i]) - 1)
  BY <1>6, LenProperties
<1>8. \A k \in DOMAIN Tail(presents[i]) : Tail(presents[i])[k] = Finished(i)
  <2>1. \A k \in 1..(Len(presents[i]) - 1) : k + 1 \in DOMAIN presents[i]
    BY <1>1
  <2>2. QED
    BY <1>6, <1>7, <2>1 DEF ShapeInv
<1>9. Tail(presents[i]) = <<>> <=> Len(presents[i]) = 1
  <2>1. Tail(presents[i]) = <<>> <=> Len(Tail(presents[i])) = 0
    BY <1>6, EmptySeq
  <2>2. QED
    BY <1>1, <1>6, <2>1
<1>10. /\ presents' = [presents EXCEPT ![i] = Tail(presents[i])]
       /\ image' = [image EXCEPT ![i] = IF @ = "queued" /\ Tail(presents[i]) = <<>> THEN "free" ELSE @]
       /\ acquiring' = {IF a.image = i /\ a.ahead > 0 THEN [a EXCEPT !.ahead = @ - 1] ELSE a : a \in acquiring}
       /\ UNCHANGED <<backend, client, indices, fence, layout, queue>>
  BY DEF Show
<1>11. presents \in [Images -> Seq(Semaphores)] /\ image \in [Images -> {"free", "acquired", "queued"}]
  BY DEF ChainTyped
<1>12. \A a \in acquiring : a.image = i => a.ahead = 1
  BY <1>4 DEF AcquiredInv, LateInv, LateOf
<1>13. acquiring' = {IF a.image = i THEN [a EXCEPT !.ahead = 0] ELSE a : a \in acquiring}
  <2>1. \A a \in acquiring : (IF a.image = i /\ a.ahead > 0 THEN [a EXCEPT !.ahead = @ - 1] ELSE a)
                              = (IF a.image = i THEN [a EXCEPT !.ahead = 0] ELSE a)
    BY <1>12
  <2>2. QED
    BY <1>10, <2>1
<1>14. QED
  BY <1>1, <1>2, <1>4, <1>5, <1>6, <1>8, <1>9, <1>10, <1>11, <1>12, <1>13

LEMMA Comes ==
    ASSUME SurfacesConstants, ChainTyped, AcquiredInv, NEW a \in acquiring, BecomeAvailable(a)
    PROVE  /\ a.ahead = 0 /\ acquiring' = acquiring \ {a}
           /\ \E f \in Images : a.signals = Available(f)
           /\ semaphore[a.signals] = 0
           /\ semaphore' = [semaphore EXCEPT ![a.signals] = 1]
           /\ UNCHANGED <<backend, client, indices, fence, image, layout, queue, presents>>
<1>1. semaphore[a.signals] = 0 /\ \E f \in Images : a.signals = Available(f)
  BY DEF AcquiredInv
<1>2. semaphore' = [semaphore EXCEPT ![a.signals] = 1]
  BY <1>1 DEF BecomeAvailable
<1>3. QED
  BY <1>1, <1>2 DEF BecomeAvailable

LEMMA ShapeNext ==
    ASSUME SurfacesConstants, SurfaceInv, HandInv, Move
    PROVE  ShapeInv'
<1> USE DEF SurfaceInv, TypeInv, HandInv, device
<1>1. ASSUME Quiet PROVE ShapeInv'
  <2>1. sync' # NoSync => sync # NoSync /\ frame' = frame
    BY <1>1 DEF Quiet, FencePending
  <2>2. backend' = backend
    BY DEF Move
  <2>3. QED
    BY <1>1, <2>1, <2>2 DEF Quiet, ShapeInv, Ordinary, Drawing
<1>2. ASSUME Destroys PROVE ShapeInv'
  BY <1>2 DEF Destroys, ShapeInv, FrameOpen, Ordinary, Drawing
<1>3. ASSUME Creates PROVE ShapeInv'
  BY <1>3 DEF Creates, ShapeInv, Ordinary, Drawing
<1>4. ASSUME NEW i \in Images, Acquires(i) PROVE ShapeInv'
  <2>1. current' = i /\ image' = [image EXCEPT ![i] = "acquired"] /\ frame' = frame
    BY <1>4 DEF Acquires, AcquireImage
  <2>2. image'[i] = "acquired"
    BY <2>1 DEF ChainTyped
  <2>3. sync' # NoSync => sync'.waits = {Available(frame)} /\ sync'.signals = {Finished(i)}
    BY <1>4 DEF Acquires
  <2>4. Finished(current)' = Finished(i) /\ Available(frame)' = Available(frame)
    BY <2>1 DEF Finished, Available
  <2>5. QED
    BY <1>4, <2>1, <2>2, <2>3, <2>4 DEF Acquires, ShapeInv, Ordinary, Drawing
<1>5. ASSUME Misses PROVE ShapeInv'
  BY <1>5 DEF Misses, ShapeInv, Ordinary, Drawing
<1>6. ASSUME NEW e \in Submissions, queue' = Append(queue, e), Ordinary(e) \/ Drawing(e)
      PROVE  \A n \in DOMAIN queue' : Ordinary(queue'[n]) \/ Drawing(queue'[n])
  <2>1. /\ DOMAIN queue' = 1..(Len(queue) + 1) /\ DOMAIN queue = 1..Len(queue)
        /\ \A n \in 1..Len(queue) : queue'[n] = queue[n]
        /\ queue'[Len(queue) + 1] = e /\ Len(queue) \in Nat
    BY <1>6, DrawsGrow
  <2>2. \A n \in 1..(Len(queue) + 1) : n \in 1..Len(queue) \/ n = Len(queue) + 1
    BY <2>1
  <2>3. QED
    BY <1>6, <2>1, <2>2 DEF ShapeInv
<1>7. ASSUME \A n \in DOMAIN queue' : Ordinary(queue'[n]) \/ Drawing(queue'[n])
      PROVE  (\A n \in DOMAIN queue : Ordinary(queue[n]) \/ Drawing(queue[n]))'
  BY <1>7 DEF Ordinary, Drawing
<1>8. ASSUME NEW e \in Submissions, SubmitsMore(e) PROVE ShapeInv'
  <2>1. \A n \in DOMAIN queue' : Ordinary(queue'[n]) \/ Drawing(queue'[n])
    BY <1>6, <1>8 DEF SubmitsMore
  <2>2. FrameOpen' = FrameOpen /\ backend' = backend
    BY <1>8 DEF SubmitsMore, FrameOpen, client, Move
  <2>3. QED
    BY <1>7, <1>8, <2>1, <2>2 DEF SubmitsMore, ShapeInv
<1>9. ASSUME NEW e \in Submissions, SubmitsFrame(e)
      PROVE  \A n \in DOMAIN queue' : Ordinary(queue'[n]) \/ Drawing(queue'[n])
  <2>1. Drawing(e)
    BY <1>9 DEF SubmitsFrame, Drawing, ChainTyped
  <2>2. QED
    BY <1>6, <1>9, <2>1 DEF SubmitsFrame
<1>10. ASSUME NEW e \in Submissions, Draw(e) PROVE ShapeInv'
  <2>1. FrameOpen' = FrameOpen /\ backend' = backend
    BY <1>10 DEF Draw, FrameOpen, client, Move
  <2>2. \A n \in DOMAIN queue' : Ordinary(queue'[n]) \/ Drawing(queue'[n])
    BY <1>9, <1>10 DEF Draw
  <2>3. QED
    BY <1>7, <1>10, <2>1, <2>2 DEF Draw, SubmitsFrame, ShapeInv
<1>11. ASSUME QueuePresent, current \in Images
       PROVE  \A i \in Images : \A k \in DOMAIN presents'[i] : presents'[i][k] = Finished(i)
  <2>1. /\ \A i \in Images : i # current => presents'[i] = presents[i]
        /\ presents'[current] = Append(presents[current], Finished(current))
    BY <1>11, PresentTyped
  <2>2. presents[current] \in Seq(Semaphores) /\ Finished(current) \in Semaphores
    BY <1>11, PresentsLengths, NamesApart
  <2>3. /\ DOMAIN presents'[current] = 1..(Len(presents[current]) + 1) /\ Len(presents[current]) \in Nat
        /\ DOMAIN presents[current] = 1..Len(presents[current])
        /\ \A k \in 1..Len(presents[current]) : presents'[current][k] = presents[current][k]
        /\ presents'[current][Len(presents[current]) + 1] = Finished(current)
    BY <2>1, <2>2, AppendProperties, LenProperties
  <2>4. \A k \in 1..(Len(presents[current]) + 1) :
           k \in 1..Len(presents[current]) \/ k = Len(presents[current]) + 1
    BY <2>3
  <2>5. \A k \in DOMAIN presents'[current] : presents'[current][k] = Finished(current)
    BY <1>11, <2>3, <2>4 DEF ShapeInv
  <2>6. QED
    BY <2>1, <2>5 DEF ShapeInv
<1>12. ASSUME NEW e \in Submissions, DrawAndPresent(e) PROVE ShapeInv'
  <2>1. sync' = NoSync /\ ~FrameOpen' /\ current \in Images /\ QueuePresent
    BY <1>12 DEF DrawAndPresent, SubmitsFrame
  <2>2. \A i \in Images : \A k \in DOMAIN presents'[i] : presents'[i][k] = Finished(i)
    BY <1>11, <2>1
  <2>3. \A n \in DOMAIN queue' : Ordinary(queue'[n]) \/ Drawing(queue'[n])
    BY <1>9, <1>12 DEF DrawAndPresent
  <2>4. QED
    BY <1>7, <2>1, <2>2, <2>3 DEF ShapeInv, Finished
<1>13. ASSUME Present PROVE ShapeInv'
  <2>1. sync = NoSync /\ sync' = NoSync /\ ~FrameOpen' /\ current \in Images /\ QueuePresent
    BY <1>13 DEF Present, Open
  <2>2. \A i \in Images : \A k \in DOMAIN presents'[i] : presents'[i][k] = Finished(i)
    BY <1>11, <2>1
  <2>3. QED
    BY <1>13, <2>1, <2>2 DEF Present, ShapeInv, Finished, Ordinary, Drawing
<1>14. ASSUME Execute, EngineStep PROVE ShapeInv'
  <2>1. /\ queue # <<>> /\ queue' = Tail(queue)
        /\ UNCHANGED <<backend, client, indices, image, acquiring, presents>>
    BY <1>14, Executes
  <2>2. \A n \in DOMAIN queue' : n + 1 \in DOMAIN queue /\ queue'[n] = queue[n + 1]
    BY <2>1, DrawsShrink
  <2>3. \A n \in DOMAIN queue' : Ordinary(queue'[n]) \/ Drawing(queue'[n])
    BY <2>2 DEF ShapeInv
  <2>4. FrameOpen' = FrameOpen /\ sync' = sync
    BY <1>14, <2>1 DEF FrameOpen, client, EngineStep
  <2>5. QED
    BY <1>7, <2>1, <2>3, <2>4 DEF ShapeInv, indices
<1>15. ASSUME NEW i \in Images, Show(i), EngineStep PROVE ShapeInv'
  <2>1. /\ UNCHANGED <<backend, client, indices, fence, layout, queue>>
        /\ \A k \in DOMAIN presents'[i] : presents'[i][k] = Finished(i)
        /\ \A j \in Images : j # i => presents'[j] = presents[j] /\ image'[j] = image[j]
        /\ image'[i] = IF image[i] = "queued" /\ Len(presents[i]) = 1 THEN "free" ELSE image[i]
    BY <1>15, Shows
  <2>2. \A j \in Images : \A k \in DOMAIN presents'[j] : presents'[j][k] = Finished(j)
    BY <2>1 DEF ShapeInv
  <2>3. \A j \in Images : image[j] = "acquired" => image'[j] = "acquired"
    BY <2>1
  <2>4. FrameOpen' = FrameOpen /\ sync' = sync /\ frame' = frame /\ current' = current
    BY <1>15, <2>1 DEF FrameOpen, client, indices, EngineStep
  <2>5. QED
    BY <2>1, <2>2, <2>3, <2>4 DEF ShapeInv, Ordinary, Drawing
<1>16. ASSUME NEW a \in acquiring, BecomeAvailable(a), EngineStep PROVE ShapeInv'
  <2>1. UNCHANGED <<backend, client, indices, fence, image, layout, queue, presents>>
    BY <1>16, Comes
  <2>2. FrameOpen' = FrameOpen /\ sync' = sync /\ frame' = frame /\ current' = current
    BY <1>16, <2>1 DEF FrameOpen, client, indices, EngineStep
  <2>3. QED
    BY <2>1, <2>2 DEF ShapeInv, Ordinary, Drawing
<1>17. QED
  BY <1>1, <1>2, <1>3, <1>4, <1>5, <1>8, <1>10, <1>12, <1>13, <1>14, <1>15, <1>16 DEF Move

LEMMA SwapchainNext ==
    ASSUME SurfacesConstants, SurfaceInv, HandInv, Move
    PROVE  SwapchainInv'
<1> USE DEF SurfaceInv, TypeInv, HandInv, device
<1>0. backend' = backend /\ Pristine' = Pristine
  BY DEF Move, Pristine, Semaphores
<1>1. ASSUME Quiet PROVE SwapchainInv'
  BY <1>0, <1>1 DEF Quiet, SwapchainInv
<1>2. ASSUME Destroys PROVE SwapchainInv'
  <2>1. \A n \in DOMAIN queue' : FALSE
    BY <1>2 DEF Destroys
  <2>2. QED
    BY <1>0, <1>2, <2>1 DEF Destroys, SwapchainInv
<1>3. ASSUME Creates PROVE SwapchainInv'
  BY <1>0, <1>3 DEF Creates, SwapchainInv
<1>4. ASSUME NEW i \in Images, Acquires(i) PROVE SwapchainInv'
  BY <1>0, <1>4 DEF Acquires, SwapchainInv
<1>5. ASSUME Misses PROVE SwapchainInv'
  BY <1>0, <1>5 DEF Misses, SwapchainInv
<1>6. ASSUME NEW e \in Submissions, SubmitsMore(e) PROVE SwapchainInv'
  <2>1. /\ DOMAIN queue' = 1..(Len(queue) + 1) /\ DOMAIN queue = 1..Len(queue)
        /\ \A n \in 1..Len(queue) : queue'[n] = queue[n]
        /\ queue'[Len(queue) + 1] = e /\ Len(queue) \in Nat
    BY <1>6, DrawsGrow DEF SubmitsMore
  <2>2. \A n \in 1..(Len(queue) + 1) : n \in 1..Len(queue) \/ n = Len(queue) + 1
    BY <2>1
  <2>3. ~swapchain => \A n \in DOMAIN queue' : queue'[n].fence = None
    BY <1>6, <2>1, <2>2 DEF SubmitsMore, Ordinary, SwapchainInv
  <2>4. QED
    BY <1>0, <1>6, <2>3 DEF SubmitsMore, SwapchainInv, client
<1>7. ASSUME NEW e \in Submissions, Draw(e) PROVE SwapchainInv'
  BY <1>0, <1>7 DEF Draw, SubmitsFrame, SwapchainInv, client
<1>8. ASSUME NEW e \in Submissions, DrawAndPresent(e) PROVE SwapchainInv'
  BY <1>0, <1>8 DEF DrawAndPresent, SubmitsFrame, SwapchainInv
<1>9. ASSUME Present PROVE SwapchainInv'
  BY <1>0, <1>9 DEF Present, SwapchainInv
<1>10. ASSUME Execute, EngineStep PROVE SwapchainInv'
  <2>1. /\ queue # <<>> /\ queue' = Tail(queue)
        /\ UNCHANGED <<backend, client, indices, image, acquiring, presents>>
    BY <1>10, Executes
  <2>2. \A n \in DOMAIN queue' : n + 1 \in DOMAIN queue /\ queue'[n] = queue[n + 1]
    BY <2>1, DrawsShrink
  <2>3. QED
    BY <1>0, <1>10, <2>1, <2>2 DEF SwapchainInv, client, indices, EngineStep
<1>11. ASSUME NEW i \in Images, Show(i), EngineStep PROVE SwapchainInv'
  <2>1. UNCHANGED <<client, swapchain, queue, known>> /\ presents[i] # <<>>
    BY <1>11 DEF Show, Showable, EngineStep, indices
  <2>2. swapchain
    BY <2>1 DEF SwapchainInv
  <2>3. QED
    BY <1>0, <2>1, <2>2 DEF SwapchainInv, client
<1>12. ASSUME NEW a \in acquiring, BecomeAvailable(a), EngineStep PROVE SwapchainInv'
  <2>1. UNCHANGED <<client, swapchain, queue, known>>
    BY <1>12 DEF BecomeAvailable, EngineStep, indices
  <2>2. swapchain
    BY DEF SwapchainInv
  <2>3. QED
    BY <1>0, <2>1, <2>2 DEF SwapchainInv, client
<1>13. QED
  BY <1>1, <1>2, <1>3, <1>4, <1>5, <1>6, <1>7, <1>8, <1>9, <1>10, <1>11, <1>12 DEF Move

LEMMA AcquiredKept ==
    ASSUME AcquiredInv, UNCHANGED <<acquiring, semaphore, image, presents>>
    PROVE  AcquiredInv'
BY DEF AcquiredInv, Available

(* The image of the frame is presented.                                    *)
LEMMA Presents ==
    ASSUME SurfacesConstants, ChainTyped, ShapeInv, backend # "D3D12", FrameOpen, QueuePresent
    PROVE  /\ current \in Images /\ image[current] = "acquired" /\ image'[current] = "queued"
           /\ Len(presents[current]) \in Nat /\ Len(presents'[current]) = Len(presents[current]) + 1
           /\ \A i \in Images : i # current => presents'[i] = presents[i] /\ image'[i] = image[i]
<1>1. current \in Images /\ image[current] = "acquired"
  BY DEF ShapeInv
<1>2. /\ presents'[current] = Append(presents[current], Finished(current))
      /\ image'[current] = "queued"
      /\ \A i \in Images : i # current => presents'[i] = presents[i] /\ image'[i] = image[i]
  BY <1>1, PresentTyped
<1>3. presents[current] \in Seq(Semaphores) /\ Finished(current) \in Semaphores
  BY <1>1, PresentsLengths, NamesApart
<1>4. Len(presents[current]) \in Nat /\ Len(presents'[current]) = Len(presents[current]) + 1
  BY <1>2, <1>3, AppendProperties, LenProperties
<1>5. QED
  BY <1>1, <1>2, <1>4

LEMMA AcquiredPresents ==
    ASSUME SurfacesConstants, ChainTyped, ShapeInv, AcquiredInv, backend # "D3D12", FrameOpen,
           QueuePresent, UNCHANGED <<acquiring, semaphore>>
    PROVE  AcquiredInv'
<1>1. /\ current \in Images /\ image[current] = "acquired" /\ image'[current] = "queued"
      /\ Len(presents[current]) \in Nat /\ Len(presents'[current]) = Len(presents[current]) + 1
      /\ \A i \in Images : i # current => presents'[i] = presents[i] /\ image'[i] = image[i]
  BY Presents
<1>2. acquiring \subseteq [image : Images, signals : Semaphores, ahead : Nat]
  BY DEF ChainTyped
<1>3. ASSUME NEW a \in acquiring
      PROVE  \/ image'[a.image] = "acquired" /\ Len(presents'[a.image]) = a.ahead
             \/ image'[a.image] = "queued" /\ Len(presents'[a.image]) = a.ahead + 1
  <2>1. a.image \in Images
    BY <1>2
  <2>2. CASE a.image = current
    BY <1>1, <2>2 DEF AcquiredInv
  <2>3. CASE a.image # current
    BY <1>1, <2>1, <2>3 DEF AcquiredInv
  <2>4. QED
    BY <2>2, <2>3
<1>4. ASSUME NEW i \in Images, \A a \in acquiring : a.image # i
      PROVE  Len(presents'[i]) <= 1 /\ (image'[i] = "acquired" => Len(presents'[i]) = 0)
  <2>1. CASE i = current
    BY <1>1, <1>4, <2>1 DEF AcquiredInv
  <2>2. CASE i # current
    BY <1>1, <1>4, <2>2 DEF AcquiredInv
  <2>3. QED
    BY <2>1, <2>2
<1>5. QED
  BY <1>3, <1>4 DEF AcquiredInv, Available

LEMMA AcquiredNext ==
    ASSUME SurfacesConstants, SurfaceInv, HandInv, Move
    PROVE  AcquiredInv'
<1> USE DEF SurfaceInv, TypeInv, HandInv, device
<1>0. acquiring \subseteq [image : Images, signals : Semaphores, ahead : Nat]
  BY DEF ChainTyped
<1>1. ASSUME Quiet PROVE AcquiredInv'
  BY <1>1, AcquiredKept DEF Quiet
<1>2. ASSUME Destroys PROVE AcquiredInv'
  <2>1. \A i \in Images : Len(presents'[i]) = 0
    BY <1>2, PresentsLengths DEF Destroys
  <2>2. QED
    BY <1>2, <2>1 DEF Destroys, AcquiredInv
<1>3. ASSUME Creates PROVE AcquiredInv'
  <2>1. \A i \in Images : Len(presents'[i]) = 0
    BY <1>3, PresentsLengths DEF Creates, SwapchainInv
  <2>2. acquiring' = {}
    BY <1>3 DEF Creates, SwapchainInv
  <2>3. QED
    BY <2>1, <2>2 DEF AcquiredInv
<1>4. ASSUME NEW i \in Images, Acquires(i) PROVE AcquiredInv'
  <2> DEFINE new == [image |-> i, signals |-> Available(frame), ahead |-> Len(presents[i])]
  <2>1. /\ acquiring' = acquiring \cup {new} /\ image' = [image EXCEPT ![i] = "acquired"]
        /\ image[i] # "acquired" /\ \A a \in acquiring : a.image # i
        /\ UNCHANGED <<presents, semaphore>>
        /\ fence[frame] /\ frame \in Images
    BY <1>4 DEF Acquires, AcquireImage, Acquirable, ChainTyped
  <2>2. semaphore[Available(frame)] = 0 /\ \A a \in acquiring : a.signals # Available(frame)
    BY <2>1 DEF PromiseInv, Promised, Coming
  <2>3. Len(presents[i]) \in {0, 1}
    <3>1. Len(presents[i]) \in Nat /\ Len(presents[i]) <= 1
      BY <2>1, PresentsLengths DEF AcquiredInv
    <3>2. \A l \in Nat : l <= 1 => l = 0 \/ l = 1
      OBVIOUS
    <3>3. Len(presents[i]) = 0 \/ Len(presents[i]) = 1
      BY <3>1, <3>2
    <3>4. QED
      BY <3>3
  <2>4. /\ image'[i] = "acquired" /\ \A j \in Images : j # i => image'[j] = image[j]
    BY <2>1 DEF ChainTyped
  <2>5. \A a \in acquiring' : a = new \/ a \in acquiring
    BY <2>1
  <2>6. new.image = i /\ new.signals = Available(frame) /\ new.ahead = Len(presents[i])
    OBVIOUS
  <2> HIDE DEF new
  <2>7. ASSUME NEW a \in acquiring'
        PROVE  /\ \E f \in Images : a.signals = Available(f)
               /\ semaphore[a.signals] = 0
               /\ a.ahead \in {0, 1}
               /\ \/ image'[a.image] = "acquired" /\ Len(presents[a.image]) = a.ahead
                  \/ image'[a.image] = "queued" /\ Len(presents[a.image]) = a.ahead + 1
    <3>1. CASE a = new
      BY <2>1, <2>2, <2>3, <2>4, <2>6, <3>1
    <3>2. CASE a \in acquiring
      <4>1. a.image \in Images /\ a.image # i
        BY <1>0, <2>1, <3>2
      <4>2. QED
        BY <2>4, <3>2, <4>1 DEF AcquiredInv
    <3>3. QED
      BY <2>5, <3>1, <3>2
  <2>8. \A a, b \in acquiring' : a.signals = b.signals \/ a.image = b.image => a = b
    BY <2>1, <2>2, <2>5, <2>6 DEF AcquiredInv
  <2>9. ASSUME NEW j \in Images, \A a \in acquiring' : a.image # j
        PROVE  Len(presents[j]) <= 1 /\ (image'[j] = "acquired" => Len(presents[j]) = 0)
    <3>1. j # i /\ \A a \in acquiring : a.image # j
      BY <2>1, <2>6, <2>9
    <3>2. QED
      BY <2>4, <3>1 DEF AcquiredInv
  <2>10. QED
    BY <2>1, <2>7, <2>8, <2>9 DEF AcquiredInv, Available
<1>5. ASSUME Misses PROVE AcquiredInv'
  BY <1>5, AcquiredKept DEF Misses
<1>6. ASSUME NEW e \in Submissions, SubmitsMore(e) PROVE AcquiredInv'
  BY <1>6, AcquiredKept DEF SubmitsMore
<1>7. ASSUME NEW e \in Submissions, Draw(e) PROVE AcquiredInv'
  BY <1>7, AcquiredKept DEF Draw, SubmitsFrame
<1>8. ASSUME NEW e \in Submissions, DrawAndPresent(e) PROVE AcquiredInv'
  <2>1. backend # "D3D12" /\ FrameOpen
    BY <1>8 DEF DrawAndPresent, SubmitsFrame, FencePending, SyncInv
  <2>2. QED
    BY <1>8, <2>1, AcquiredPresents DEF DrawAndPresent, SubmitsFrame
<1>9. ASSUME Present PROVE AcquiredInv'
  <2>1. backend # "D3D12" /\ FrameOpen
    BY <1>9 DEF Present, Open
  <2>2. semaphore' = semaphore /\ acquiring' = acquiring
    BY <1>9 DEF Present
  <2>3. QED
    BY <1>9, <2>1, <2>2, AcquiredPresents DEF Present
<1>10. ASSUME Execute, EngineStep PROVE AcquiredInv'
  <2>1. UNCHANGED <<image, acquiring, presents>>
    BY <1>10, Executes
  <2>2. CASE semaphore' = semaphore
    BY <2>1, <2>2, AcquiredKept
  <2>3. ASSUME NEW f \in Images, NEW i \in Images, ~Coming(f),
               semaphore' = [semaphore EXCEPT ![Available(f)] = 0, ![Finished(i)] = 1]
        PROVE  AcquiredInv'
    <3>1. \A a \in acquiring : semaphore'[a.signals] = semaphore[a.signals]
      <4> SUFFICES ASSUME NEW a \in acquiring PROVE semaphore'[a.signals] = semaphore[a.signals]
        OBVIOUS
      <4>1. PICK g \in Images : a.signals = Available(g)
        BY DEF AcquiredInv
      <4>2. Available(g) # Available(f) /\ Available(g) # Finished(i)
        BY <2>3, <4>1, NamesApart DEF Coming
      <4>3. Available(g) \in Semaphores /\ semaphore \in [Semaphores -> Int]
        BY NamesApart DEF ChainTyped
      <4>4. QED
        BY <2>3, <4>1, <4>2, <4>3
    <3>2. QED
      BY <2>1, <3>1 DEF AcquiredInv, Available
  <2>4. QED
    BY <1>10, <2>2, <2>3, Executes
<1>11. ASSUME NEW i \in Images, Show(i), EngineStep PROVE AcquiredInv'
  <2> DEFINE shown(a) == IF a.image = i THEN [a EXCEPT !.ahead = 0] ELSE a
  <2>1. /\ semaphore' = [semaphore EXCEPT ![Finished(i)] = 0]
        /\ Len(presents[i]) \in Nat /\ Len(presents[i]) >= 1
        /\ Len(presents'[i]) = Len(presents[i]) - 1
        /\ \A j \in Images : j # i => presents'[j] = presents[j] /\ image'[j] = image[j]
        /\ image'[i] = IF image[i] = "queued" /\ Len(presents[i]) = 1 THEN "free" ELSE image[i]
        /\ \A a \in acquiring : a.image = i => a.ahead = 1
        /\ acquiring' = {shown(a) : a \in acquiring}
    BY <1>11, Shows
  <2>2. ASSUME NEW a \in acquiring
        PROVE  /\ shown(a).image = a.image /\ shown(a).signals = a.signals
               /\ shown(a).ahead = IF a.image = i THEN 0 ELSE a.ahead
    BY <1>0
  <2> HIDE DEF shown
  <2>3. ASSUME NEW a \in acquiring
        PROVE  /\ \E f \in Images : a.signals = Available(f)
               /\ semaphore'[a.signals] = 0
               /\ shown(a).ahead \in {0, 1}
               /\ \/ image'[a.image] = "acquired" /\ Len(presents'[a.image]) = shown(a).ahead
                  \/ image'[a.image] = "queued" /\ Len(presents'[a.image]) = shown(a).ahead + 1
    <3>1. PICK f \in Images : a.signals = Available(f)
      BY DEF AcquiredInv
    <3>2. semaphore'[a.signals] = 0
      BY <2>1, <3>1, NamesApart DEF AcquiredInv, ChainTyped
    <3>3. a.image \in Images
      BY <1>0
    <3>4. CASE a.image = i
      <4>1. a.ahead = 1 /\ shown(a).ahead = 0
        BY <2>1, <2>2, <3>4
      <4>2. \/ image[i] = "acquired" /\ Len(presents[i]) = 1
            \/ image[i] = "queued" /\ Len(presents[i]) = 2
        <5>1. \/ image[a.image] = "acquired" /\ Len(presents[a.image]) = a.ahead
              \/ image[a.image] = "queued" /\ Len(presents[a.image]) = a.ahead + 1
          BY DEF AcquiredInv
        <5>2. QED
          BY <3>4, <4>1, <5>1
      <4>3. \/ image'[i] = "acquired" /\ Len(presents'[i]) = 0
            \/ image'[i] = "queued" /\ Len(presents'[i]) = 1
        BY <2>1, <4>2, SMTT(20)
      <4>4. QED
        BY <3>1, <3>2, <3>4, <4>1, <4>3
    <3>5. CASE a.image # i
      BY <2>1, <2>2, <3>1, <3>2, <3>3, <3>5 DEF AcquiredInv
    <3>6. QED
      BY <3>4, <3>5
  <2>4. ASSUME NEW j \in Images, \A a \in acquiring' : a.image # j
        PROVE  Len(presents'[j]) <= 1 /\ (image'[j] = "acquired" => Len(presents'[j]) = 0)
    <3>1. \A a \in acquiring : a.image # j
      BY <2>1, <2>2, <2>4
    <3>2. CASE j = i
      BY <2>1, <3>1, <3>2 DEF AcquiredInv
    <3>3. CASE j # i
      BY <2>1, <3>1, <3>3 DEF AcquiredInv
    <3>4. QED
      BY <3>2, <3>3
  <2>5. ASSUME NEW a \in acquiring'
        PROVE  /\ \E f \in Images : a.signals = Available(f)
               /\ semaphore'[a.signals] = 0
               /\ a.ahead \in {0, 1}
               /\ \/ image'[a.image] = "acquired" /\ Len(presents'[a.image]) = a.ahead
                  \/ image'[a.image] = "queued" /\ Len(presents'[a.image]) = a.ahead + 1
    <3>1. PICK b \in acquiring : a = shown(b)
      BY <2>1
    <3>2. QED
      BY <2>2, <2>3, <3>1
  <2>6. ASSUME NEW a \in acquiring', NEW b \in acquiring', a.signals = b.signals \/ a.image = b.image
        PROVE  a = b
    <3>1. PICK c \in acquiring : a = shown(c)
      BY <2>1
    <3>2. PICK d \in acquiring : b = shown(d)
      BY <2>1
    <3>3. c = d
      BY <2>2, <2>6, <3>1, <3>2 DEF AcquiredInv
    <3>4. QED
      BY <3>1, <3>2, <3>3
  <2>7. QED
    BY <2>4, <2>5, <2>6 DEF AcquiredInv, Available
<1>12. ASSUME NEW a \in acquiring, BecomeAvailable(a), EngineStep PROVE AcquiredInv'
  <2>1. /\ a.ahead = 0 /\ acquiring' = acquiring \ {a}
        /\ \E f \in Images : a.signals = Available(f)
        /\ semaphore' = [semaphore EXCEPT ![a.signals] = 1]
        /\ UNCHANGED <<image, presents>>
    BY <1>12, Comes
  <2>2. \A b \in acquiring' : b \in acquiring /\ b.signals # a.signals /\ b.signals \in Semaphores
    BY <1>0, <2>1 DEF AcquiredInv
  <2>3. \A b \in acquiring' : semaphore'[b.signals] = 0
    BY <2>1, <2>2 DEF AcquiredInv, ChainTyped
  <2>4. ASSUME NEW i \in Images, \A b \in acquiring' : b.image # i
        PROVE  Len(presents[i]) <= 1 /\ (image[i] = "acquired" => Len(presents[i]) = 0)
    <3>1. CASE a.image = i
      BY <2>1, <3>1, PresentsLengths DEF AcquiredInv
    <3>2. CASE a.image # i
      BY <2>1, <2>4, <3>2 DEF AcquiredInv
    <3>3. QED
      BY <3>1, <3>2
  <2>5. QED
    BY <2>1, <2>2, <2>3, <2>4 DEF AcquiredInv, Available
<1>13. QED
  BY <1>1, <1>2, <1>3, <1>4, <1>5, <1>6, <1>7, <1>8, <1>9, <1>10, <1>11, <1>12 DEF Move

LEMMA PromiseKept ==
    ASSUME PromiseInv, UNCHANGED <<semaphore, acquiring, fence>>,
           \A f \in Images : \A n \in DOMAIN queue' : queue'[n].fence = f =>
              \/ \E m \in DOMAIN queue : queue[m].fence = f
              \/ FencePending /\ frame = f,
           FencePending' => FencePending /\ frame' = frame
    PROVE  PromiseInv'
BY DEF PromiseInv, Promised, Coming, Available

LEMMA PromiseSubmitted ==
    ASSUME SurfacesConstants, ChainTyped, PromiseInv, UNCHANGED <<semaphore, acquiring, fence>>,
           NEW e \in Submissions, queue' = Append(queue, e),
           e.fence # None => FencePending /\ e.fence = frame,
           FencePending' => FencePending /\ frame' = frame
    PROVE  PromiseInv'
<1>1. /\ DOMAIN queue' = 1..(Len(queue) + 1) /\ DOMAIN queue = 1..Len(queue)
      /\ \A n \in 1..Len(queue) : queue'[n] = queue[n]
      /\ queue'[Len(queue) + 1] = e /\ Len(queue) \in Nat
  BY DrawsGrow
<1>2. \A n \in 1..(Len(queue) + 1) : n \in 1..Len(queue) \/ n = Len(queue) + 1
  BY <1>1
<1>3. QED
  BY <1>1, <1>2, NoneIsNoImage, PromiseKept

LEMMA PromiseNext ==
    ASSUME SurfacesConstants, SurfaceInv, HandInv, Move
    PROVE  PromiseInv'
<1> USE DEF SurfaceInv, TypeInv, HandInv, device
<1>1. ASSUME Quiet PROVE PromiseInv'
  BY <1>1, PromiseKept DEF Quiet
<1>2. ASSUME Destroys PROVE PromiseInv'
  <2>1. ~FencePending'
    BY <1>2 DEF Destroys, FencePending, FrameOpen
  <2>2. \A f \in Images : Coming(f)' => FALSE
    BY <1>2 DEF Destroys, Coming
  <2>3. \A n \in DOMAIN queue' : FALSE
    BY <1>2 DEF Destroys
  <2>4. QED
    BY <1>2, <2>1, <2>2, <2>3 DEF Destroys, PromiseInv, Promised, Available
<1>3. ASSUME Creates PROVE PromiseInv'
  <2>1. ~FencePending'
    BY <1>3 DEF Creates, FencePending
  <2>2. acquiring' = {}
    BY <1>3 DEF Creates, SwapchainInv
  <2>4. \A f \in Images : semaphore'[Available(f)] = 0
    BY <1>3, NamesApart DEF Creates, Pristine
  <2>5. \A n \in DOMAIN queue' : FALSE
    BY <1>3 DEF Creates
  <2>6. ASSUME NEW f \in Images PROVE ~Promised(f)'
    <3>1. ~Coming(f)'
      BY <2>2 DEF Coming
    <3>2. semaphore'[Available(f)] # 1 /\ Available(f)' = Available(f)
      BY <2>4 DEF Available
    <3>3. QED
      BY <3>1, <3>2 DEF Promised
  <2>7. QED
    BY <2>1, <2>4, <2>5, <2>6 DEF PromiseInv, Available
<1>4. ASSUME NEW i \in Images, Acquires(i) PROVE PromiseInv'
  <2> DEFINE new == [image |-> i, signals |-> Available(frame), ahead |-> Len(presents[i])]
  <2>1. /\ acquiring' = acquiring \cup {new}
        /\ UNCHANGED <<queue, semaphore, frame>>
        /\ fence' = [fence EXCEPT ![frame] = FALSE] /\ frame \in Images
        /\ fence \in [Images -> BOOLEAN]
    BY <1>4 DEF Acquires, AcquireImage, ChainTyped
  <2>2. new.signals = Available(frame)
    OBVIOUS
  <2> HIDE DEF new
  <2>3. \A f \in Images : Available(f)' = Available(f)
    BY DEF Available
  <2>4. \A f \in Images : Coming(f)' <=> Coming(f) \/ f = frame
    BY <2>1, <2>2, <2>3, NamesApart DEF Coming
  <2>5. fence'[frame] = FALSE /\ \A f \in Images : f # frame => fence'[f] = fence[f]
    BY <2>1
  <2>6. \A f \in Images : Promised(f)' <=> Promised(f) \/ f = frame
    BY <2>1, <2>3, <2>4 DEF Promised
  <2>8. /\ \A f \in Images : semaphore'[Available(f)] \in {0, 1}
        /\ \A f \in Images : Promised(f)' => ~fence'[f]
    BY <2>1, <2>5, <2>6 DEF PromiseInv
  <2>9. \A f \in Images : (\E n \in DOMAIN queue' : queue'[n].fence = f) => Promised(f)'
    BY <2>1, <2>6 DEF PromiseInv
  <2>10. \A f \in Images : frame' = f => Promised(f)'
    BY <2>1, <2>6
  <2>11. QED
    BY <2>3, <2>8, <2>9, <2>10 DEF PromiseInv
<1>5. ASSUME Misses PROVE PromiseInv'
  <2>1. ~FencePending'
    BY <1>5 DEF Misses, FencePending
  <2>2. \A f \in Images : ~fence[f] => ~fence'[f]
    BY <1>5 DEF Misses, ChainTyped
  <2>3. QED
    BY <1>5, <2>1, <2>2 DEF Misses, PromiseInv, Promised, Coming, Available
<1>6. ASSUME NEW e \in Submissions, SubmitsMore(e) PROVE PromiseInv'
  <2>1. FencePending' = FencePending
    BY <1>6 DEF SubmitsMore, FencePending, FrameOpen, client, Move
  <2>2. QED
    BY <1>6, <2>1, PromiseSubmitted DEF SubmitsMore, Ordinary
<1>7. ASSUME NEW e \in Submissions, SubmitsFrame(e) PROVE PromiseInv'
  BY <1>7, PromiseSubmitted DEF SubmitsFrame
<1>8. ASSUME Present PROVE PromiseInv'
  <2>1. ~FencePending'
    BY <1>8 DEF Present, Open, FencePending
  <2>2. UNCHANGED <<semaphore, acquiring, fence, queue>>
    BY <1>8 DEF Present
  <2>3. QED
    BY <2>1, <2>2, PromiseKept
<1>9. ASSUME Execute, EngineStep PROVE PromiseInv'
  <2>1. /\ queue # <<>> /\ queue' = Tail(queue)
        /\ UNCHANGED <<backend, client, indices, image, acquiring, presents>>
    BY <1>9, Executes
  <2>2. /\ \A n \in DOMAIN queue' : n + 1 \in DOMAIN queue /\ queue'[n] = queue[n + 1] /\ n + 1 # 1
        /\ 1 \in DOMAIN queue
    BY <2>1, DrawsShrink
  <2>3. FencePending' = FencePending /\ frame' = frame
    BY <1>9, <2>1 DEF FencePending, FrameOpen, client, indices, EngineStep
  <2>4. CASE UNCHANGED <<semaphore, fence>>
    <3>1. \A n \in DOMAIN queue' : \E m \in DOMAIN queue : queue[m].fence = queue'[n].fence
      BY <2>2
    <3>2. QED
      BY <2>1, <2>3, <2>4, <3>1, PromiseKept
  <2>5. ASSUME NEW f \in Images, NEW i \in Images, queue[1].fence = f, ~Coming(f),
               semaphore' = [semaphore EXCEPT ![Available(f)] = 0, ![Finished(i)] = 1],
               fence' = [fence EXCEPT ![f] = TRUE]
        PROVE  PromiseInv'
    <3>1. /\ \A g \in Images : g # f => semaphore'[Available(g)] = semaphore[Available(g)]
          /\ semaphore'[Available(f)] = 0
      BY <2>5, NamesApart DEF ChainTyped
    <3>2. \A g \in Images : g # f => fence'[g] = fence[g]
      BY <2>5 DEF ChainTyped
    <3>3. \A g \in Images : (Coming(g)' <=> Coming(g)) /\ Available(g)' = Available(g)
      BY <2>1 DEF Coming, Available
    <3>4. \A g \in Images : Promised(g)' <=> Promised(g) /\ g # f
      <4>1. ~Promised(f)'
        <5>1. ~Coming(f)'
          BY <2>5, <3>3
        <5>2. QED
          BY <3>1, <5>1 DEF Promised, Available
      <4>2. \A g \in Images : g # f => (Promised(g)' <=> Promised(g))
        BY <3>1, <3>3 DEF Promised
      <4>3. QED
        BY <4>1, <4>2
    <3>5. f # None
      BY NoneIsNoImage
    <3>6. \A n \in DOMAIN queue' : queue'[n].fence # f
      BY <2>2, <2>5, <3>5 DEF FenceInv
    <3>7. FencePending => frame # f
      BY <2>2, <2>5 DEF FenceInv
    <3>9. \A g \in Images : (\E n \in DOMAIN queue' : queue'[n].fence = g) => Promised(g)'
      BY <2>2, <3>4, <3>6 DEF PromiseInv
    <3>11. \A g \in Images : FencePending' /\ frame' = g => Promised(g)'
      BY <2>3, <3>4, <3>7 DEF PromiseInv
    <3>12. \A g \in Images : semaphore'[Available(g)] \in {0, 1} /\ (Promised(g)' => ~fence'[g])
      BY <3>1, <3>2, <3>4 DEF PromiseInv
    <3>13. QED
      BY <3>3, <3>9, <3>11, <3>12 DEF PromiseInv
  <2>6. QED
    BY <1>9, <2>4, <2>5, Executes
<1>10. ASSUME NEW i \in Images, Show(i), EngineStep PROVE PromiseInv'
  <2> DEFINE shown(a) == IF a.image = i THEN [a EXCEPT !.ahead = 0] ELSE a
  <2>1. /\ UNCHANGED <<backend, client, indices, fence, queue>>
        /\ semaphore' = [semaphore EXCEPT ![Finished(i)] = 0]
        /\ acquiring' = {shown(a) : a \in acquiring}
    BY <1>10, Shows
  <2>2. \A a \in acquiring : shown(a).signals = a.signals
    BY DEF ChainTyped
  <2> HIDE DEF shown
  <2>3. \A f \in Images : (Coming(f)' <=> Coming(f)) /\ Available(f)' = Available(f)
    BY <2>1, <2>2 DEF Coming, Available
  <2>4. \A f \in Images : semaphore'[Available(f)] = semaphore[Available(f)]
    BY <2>1, NamesApart DEF ChainTyped
  <2>5. \A f \in Images : Promised(f)' <=> Promised(f)
    BY <2>3, <2>4 DEF Promised
  <2>6. FencePending' = FencePending /\ frame' = frame
    BY <1>10, <2>1 DEF FencePending, FrameOpen, client, indices, EngineStep
  <2>7. QED
    BY <2>1, <2>3, <2>4, <2>5, <2>6 DEF PromiseInv
<1>11. ASSUME NEW a \in acquiring, BecomeAvailable(a), EngineStep PROVE PromiseInv'
  <2>1. /\ acquiring' = acquiring \ {a}
        /\ semaphore' = [semaphore EXCEPT ![a.signals] = 1]
        /\ UNCHANGED <<backend, client, indices, fence, queue>>
    BY <1>11, Comes
  <2>2. PICK f \in Images : a.signals = Available(f)
    BY <1>11, Comes
  <2>3. semaphore'[Available(f)] = 1 /\ Coming(f)
    BY <2>1, <2>2, NamesApart DEF ChainTyped, Coming
  <2>4. \A g \in Images : g # f => semaphore'[Available(g)] = semaphore[Available(g)]
    BY <2>1, <2>2, NamesApart DEF ChainTyped
  <2>5. \A g \in Images : g # f => (Coming(g)' <=> Coming(g))
    BY <2>1, <2>2, NamesApart DEF Coming, Available
  <2>6. \A g \in Images : Promised(g)' <=> Promised(g)
    <3>1. Promised(f) /\ Promised(f)'
      BY <2>3 DEF Promised, Available
    <3>2. \A g \in Images : g # f => (Promised(g)' <=> Promised(g))
      BY <2>4, <2>5 DEF Promised, Available
    <3>3. QED
      BY <3>1, <3>2
  <2>7. FencePending' = FencePending /\ frame' = frame
    BY <1>11, <2>1 DEF FencePending, FrameOpen, client, indices, EngineStep
  <2>10. \A g \in Images : semaphore'[Available(g)] \in {0, 1} /\ Available(g)' = Available(g)
    BY <2>3, <2>4 DEF PromiseInv, Available
  <2>11. QED
    BY <2>1, <2>6, <2>7, <2>10 DEF PromiseInv
<1>12. QED
  BY <1>1, <1>2, <1>3, <1>4, <1>5, <1>6, <1>7, <1>8, <1>9, <1>10, <1>11
  DEF Move, Draw, DrawAndPresent

LEMMA LateKept ==
    ASSUME NEW i \in Images, LateOf(i), UNCHANGED <<semaphore, acquiring>>,
           \A n : n \in Draws(i)' <=> n \in Draws(i),
           \A n \in Draws(i) : queue'[n].fence = queue[n].fence,
           Len(presents[i]) >= 1 \/ image[i] = "acquired" =>
              Len(presents'[i]) >= 1 \/ image'[i] = "acquired",
           \A f \in Images : FencePending' /\ frame' = f /\ current' = i =>
              FencePending /\ frame = f /\ current = i
    PROVE  LateOf(i)'
<1>1. Finished(i)' = Finished(i) /\ \A f \in Images : Available(f)' = Available(f)
  BY DEF Finished, Available
<1>2. Drawn(i)' <=> Drawn(i)
  BY <1>1 DEF Drawn
<1>3. \A f \in Images : Late(i, f)' <=> Late(i, f)
  BY <1>1 DEF Late
<1>4. QED
  BY <1>1, <1>2, <1>3 DEF LateOf

(* The image of the frame is drawn again only if the frame waits for it.   *)
LEMMA LateSubmitted ==
    ASSUME SurfacesConstants, ChainTyped, LateInv, NEW e \in Submissions, SubmitsFrame(e),
           NEW i \in Images,
           Len(presents[i]) >= 1 \/ image[i] = "acquired" =>
              Len(presents'[i]) >= 1 \/ image'[i] = "acquired",
           i = current => Len(presents'[i]) >= 1 \/ image'[i] = "acquired"
    PROVE  LateOf(i)'
<1>1. /\ queue' = Append(queue, e) /\ e.fence = frame /\ e.image = current
      /\ FencePending /\ ~FencePending' /\ UNCHANGED <<semaphore, acquiring>>
  BY DEF SubmitsFrame
<1>2. /\ \A n : n \in Draws(i)' <=> n \in Draws(i) \/ (n = Len(queue) + 1 /\ current = i)
      /\ Draws(i) \subseteq 1..Len(queue) /\ Len(queue) \in Nat
      /\ \A n \in 1..Len(queue) : queue'[n] = queue[n]
      /\ queue'[Len(queue) + 1] = e
  BY <1>1, DrawsGrow
<1>3. LateOf(i)
  BY DEF LateInv
<1>4. CASE current # i
  <2>1. /\ \A n : n \in Draws(i)' <=> n \in Draws(i)
        /\ \A n \in Draws(i) : queue'[n].fence = queue[n].fence
    BY <1>2, <1>4
  <2>2. QED
    BY <1>1, <1>3, <2>1, LateKept
<1>5. CASE current = i
  <2>1. Finished(i)' = Finished(i) /\ \A f \in Images : Available(f)' = Available(f)
    BY DEF Finished, Available
  <2>2. \A f \in Images : Late(i, f)' <=> Late(i, f)
    BY <1>1, <2>1 DEF Late
  <2>3. \A n \in Draws(i) : n < Len(queue) + 1 /\ queue'[n] = queue[n] /\ n # Len(queue) + 1
    BY <1>2
  <2>4. ASSUME NEW f \in Images, NEW n, n \in Draws(i)', queue'[n].fence = f,
               semaphore'[Finished(i)] = 1 \/ \E m : m \in Draws(i)' /\ m < n
        PROVE  Late(i, f)
    <3>1. CASE n \in Draws(i)
      <4>1. \A m : m \in Draws(i)' /\ m < n => m \in Draws(i)
        BY <1>2, <2>3, <3>1
      <4>2. QED
        BY <1>1, <1>3, <2>3, <2>4, <3>1, <4>1 DEF LateOf
    <3>2. CASE n = Len(queue) + 1
      <4>1. frame = f
        BY <1>1, <1>2, <2>4, <3>2
      <4>2. \A m : m \in Draws(i)' /\ m < n => m \in Draws(i)
        BY <1>2, <3>2
      <4>3. Drawn(i)
        BY <1>1, <2>4, <4>2 DEF Drawn
      <4>4. QED
        BY <1>1, <1>3, <1>5, <4>1, <4>3 DEF LateOf
    <3>3. QED
      BY <1>2, <2>4, <3>1, <3>2
  <2>5. ASSUME NEW a \in acquiring, a.image = i, NEW f \in Images, a.ahead = 0,
               NEW n, n \in Draws(i)', queue'[n].fence = f
        PROVE  a.signals = Available(f)
    <3>1. CASE n \in Draws(i)
      BY <1>3, <2>3, <2>5, <3>1 DEF LateOf
    <3>2. CASE n = Len(queue) + 1
      <4>1. frame = f
        BY <1>1, <1>2, <2>5, <3>2
      <4>2. QED
        BY <1>1, <1>3, <1>5, <2>5, <4>1 DEF LateOf
    <3>3. QED
      BY <1>2, <2>5, <3>1, <3>2
  <2>6. \A a \in acquiring : a.image = i /\ a.ahead = 0 => semaphore[Finished(i)] # 1
    BY <1>3 DEF LateOf
  <2>7. QED
    BY <1>1, <1>5, <2>1, <2>2, <2>4, <2>5, <2>6 DEF LateOf
<1>6. QED
  BY <1>4, <1>5

LEMMA LateExecutes ==
    ASSUME SurfacesConstants, SurfaceInv, HandInv, Execute, EngineStep, NEW i \in Images
    PROVE  LateOf(i)'
<1> USE DEF SurfaceInv, TypeInv, HandInv, device
<1> DEFINE e == queue[1]
<1>1. /\ queue # <<>> /\ queue' = Tail(queue)
      /\ UNCHANGED <<backend, client, indices, image, acquiring, presents>>
  BY Executes
<1>2. /\ \A n : n \in Draws(i)' <=> n \in 1..(Len(queue) - 1) /\ n + 1 \in Draws(i)
      /\ \A n \in Draws(i) : n \in 1..Len(queue) /\ (n = 1 \/ n - 1 \in Draws(i)')
      /\ Len(queue) \in Nat /\ Len(queue) >= 1
      /\ \A n \in 1..(Len(queue) - 1) : queue'[n] = queue[n + 1]
  BY <1>1, DrawsShrink
<1>3. /\ FencePending' = FencePending /\ frame' = frame /\ current' = current
      /\ Finished(i)' = Finished(i) /\ \A f \in Images : Available(f)' = Available(f)
  BY <1>1 DEF FencePending, FrameOpen, client, indices, EngineStep, Finished, Available
<1>4. LateOf(i) /\ \A f \in Images : Late(i, f)' <=> Late(i, f)
  BY <1>1, <1>3 DEF LateInv, Late
<1>5. \A n : n \in Draws(i)' => n + 1 \in Draws(i) /\ queue'[n].fence = queue[n + 1].fence /\ n \in Nat /\ n + 1 # 1
  BY <1>2
<1>6. ASSUME semaphore'[Finished(i)] = semaphore[Finished(i)] PROVE LateOf(i)'
  <2>1. Drawn(i)' => Drawn(i)
    BY <1>3, <1>5, <1>6 DEF Drawn
  <2>2. ASSUME NEW f \in Images, NEW n, n \in Draws(i)', queue'[n].fence = f,
               semaphore'[Finished(i)] = 1 \/ \E m : m \in Draws(i)' /\ m < n
        PROVE  Late(i, f)
    <3>1. \A m : m \in Draws(i)' /\ m < n => m + 1 \in Draws(i) /\ m + 1 < n + 1
      BY <1>5, <2>2
    <3>2. QED
      BY <1>4, <1>5, <1>6, <2>2, <3>1 DEF LateOf
  <2>3. ASSUME NEW f \in Images, NEW a \in acquiring, a.image = i, NEW n, n \in Draws(i)',
               a.ahead = 0, queue'[n].fence = f
        PROVE  a.signals = Available(f)
    BY <1>4, <1>5, <2>3 DEF LateOf
  <2>4. \A a \in acquiring : a.image = i /\ a.ahead = 0 => semaphore'[Finished(i)] # 1
    BY <1>4, <1>6 DEF LateOf
  <2>5. QED
    BY <1>1, <1>3, <1>4, <2>1, <2>2, <2>3, <2>4 DEF LateOf
<1>7. ASSUME 1 \in Draws(i), ~Coming(e.fence), e.fence \in Images,
             \A n \in Draws(i) : n # 1 => Late(i, queue[n].fence)
      PROVE  LateOf(i)'
  <2>1. Drawn(i)
    BY <1>7 DEF Drawn
  <2>2. \A f \in Images : \A n : n \in Draws(i)' /\ queue'[n].fence = f => Late(i, f)
    BY <1>5, <1>7
  <2>3. \A a \in acquiring : ~(a.image = i /\ a.ahead = 0)
    BY <1>4, <1>7 DEF LateOf, Coming
  <2>4. QED
    BY <1>1, <1>3, <1>4, <2>1, <2>2, <2>3 DEF LateOf
<1>8. CASE UNCHANGED <<semaphore, fence, layout>>
  BY <1>6, <1>8
<1>9. ASSUME NEW j \in Images, e.fence \in Images, e.image = j, 1 \in Draws(j), ~Coming(e.fence),
             \A n \in Draws(j) : n # 1 => Late(j, queue[n].fence),
             semaphore' = [semaphore EXCEPT ![Available(e.fence)] = 0, ![Finished(j)] = 1]
      PROVE  LateOf(i)'
  <2>1. CASE j = i
    BY <1>7, <1>9, <2>1
  <2>2. CASE j # i
    <3>1. semaphore'[Finished(i)] = semaphore[Finished(i)]
      BY <1>9, <2>2, NamesApart DEF ChainTyped
    <3>2. QED
      BY <1>6, <3>1
  <2>3. QED
    BY <2>1, <2>2
<1>10. QED
  BY <1>8, <1>9, Executes

(* The frames of an image's submissions differ, and only one of them can   *)
(* be who waits for the image.                                             *)
LEMMA OneWaits ==
    ASSUME SurfaceInv, HandInv, SurfacesConstants, NEW i \in Images
    PROVE  /\ \A f, g \in Images : Late(i, f) /\ Late(i, g) => f = g
           /\ \A n, m \in Draws(i) : queue[n].fence = queue[m].fence => n = m
           /\ \A n \in Draws(i) : queue[n].fence \in Images
           /\ FencePending => \A n \in Draws(i) : queue[n].fence # frame
<1>1. \A f, g \in Images : Late(i, f) /\ Late(i, g) => f = g
  BY NamesApart DEF Late, HandInv, AcquiredInv
<1>2. \A n \in Draws(i) : queue[n].fence \in Images /\ n \in DOMAIN queue
  BY NoneIsNoImage DEF Draws, HandInv, ShapeInv, Ordinary, Drawing
<1>3. \A n, m \in Draws(i) : queue[n].fence = queue[m].fence => n = m
  BY <1>2, NoneIsNoImage DEF SurfaceInv, FenceInv
<1>4. FencePending => \A n \in Draws(i) : queue[n].fence # frame
  BY <1>2 DEF SurfaceInv, FenceInv
<1>5. QED
  BY <1>1, <1>2, <1>3, <1>4

LEMMA LateShows ==
    ASSUME SurfacesConstants, SurfaceInv, HandInv, NEW j \in Images, Show(j), EngineStep,
           NEW i \in Images
    PROVE  LateOf(i)'
<1> USE DEF SurfaceInv, TypeInv, HandInv, device
<1> DEFINE shown(a) == IF a.image = j THEN [a EXCEPT !.ahead = 0] ELSE a
<1>1. /\ UNCHANGED <<backend, client, indices, fence, layout, queue>>
      /\ semaphore[Finished(j)] = 1
      /\ semaphore' = [semaphore EXCEPT ![Finished(j)] = 0]
      /\ Len(presents[j]) \in Nat /\ Len(presents[j]) >= 1
      /\ Len(presents'[j]) = Len(presents[j]) - 1
      /\ \A k \in Images : k # j => presents'[k] = presents[k] /\ image'[k] = image[k]
      /\ image'[j] = IF image[j] = "queued" /\ Len(presents[j]) = 1 THEN "free" ELSE image[j]
      /\ \A a \in acquiring : a.image = j => a.ahead = 1
      /\ acquiring' = {shown(a) : a \in acquiring}
  BY Shows
<1>2. ASSUME NEW a \in acquiring
      PROVE  /\ shown(a).image = a.image /\ shown(a).signals = a.signals
             /\ shown(a).ahead = IF a.image = j THEN 0 ELSE a.ahead
  BY DEF ChainTyped
<1> HIDE DEF shown
<1>3. /\ FencePending' = FencePending /\ frame' = frame /\ current' = current
      /\ Finished(i)' = Finished(i) /\ (\A f \in Images : Available(f)' = Available(f))
      /\ Draws(i)' = Draws(i)
  BY <1>1 DEF FencePending, FrameOpen, client, indices, EngineStep, Finished, Available, Draws
<1>4. LateOf(i)
  BY DEF LateInv
<1>5. \A a \in acquiring, f \in Images : a.image = i /\ FencePending /\ current = i /\ frame = f =>
         a.signals = Available(f)
  BY <1>4 DEF LateOf
<1>6. \A a \in acquiring' : \E b \in acquiring : a = shown(b)
  BY <1>1
<1>7. \A a \in acquiring', f \in Images : a.image = i /\ FencePending /\ current = i /\ frame = f =>
         a.signals = Available(f)
  BY <1>2, <1>5, <1>6
<1>8. CASE i # j
  <2>1. semaphore'[Finished(i)] = semaphore[Finished(i)]
    BY <1>1, <1>8, NamesApart DEF ChainTyped
  <2>2. Drawn(i)' <=> Drawn(i)
    BY <1>3, <2>1 DEF Drawn
  <2>3. \A f \in Images : Late(i, f) => Late(i, f)'
    <3>1. \A a \in acquiring : shown(a) \in acquiring'
      BY <1>1
    <3>2. QED
      BY <1>2, <1>3, <1>8, <3>1 DEF Late
  <2>4. \A a \in acquiring' : a.image = i => \E b \in acquiring : b.image = i /\ b.ahead = a.ahead
                                                          /\ b.signals = a.signals
    BY <1>2, <1>6, <1>8
  <2>5. presents'[i] = presents[i] /\ image'[i] = image[i]
    BY <1>1, <1>8
  <2>6. ASSUME NEW a \in acquiring', a.image = i, a.ahead = 0
        PROVE  /\ semaphore[Finished(i)] # 1
               /\ \A f \in Images : \A n \in Draws(i) : queue[n].fence = f => a.signals = Available(f)
    <3>1. PICK b \in acquiring : b.image = i /\ b.ahead = a.ahead /\ b.signals = a.signals
      BY <2>4, <2>6
    <3>2. QED
      BY <1>4, <2>6, <3>1 DEF LateOf
  <2>7. QED
    BY <1>1, <1>3, <1>4, <1>7, <2>1, <2>2, <2>3, <2>5, <2>6 DEF LateOf
<1>9. CASE i = j
  <2>1. semaphore'[Finished(i)] = 0 /\ semaphore[Finished(i)] = 1 /\ Drawn(i)
    BY <1>1, <1>9, NamesApart DEF ChainTyped, Drawn
  <2>2. \A n \in Draws(i) : Late(i, queue[n].fence)
    BY <1>4, <2>1, OneWaits DEF LateOf
  <2>3. \A n, m \in Draws(i) : n = m
    BY <2>2, OneWaits
  <2>4. Drawn(i)' => Draws(i) # {}
    BY <1>3, <2>1 DEF Drawn
  <2>5. Drawn(i)' => Len(presents'[i]) >= 1 \/ image'[i] = "acquired"
    <3> SUFFICES ASSUME Drawn(i)' PROVE Len(presents'[i]) >= 1 \/ image'[i] = "acquired"
      OBVIOUS
    <3>1. PICK a \in acquiring : a.image = i
      BY <2>2, <2>4 DEF Late
    <3>2. a.ahead = 1
      BY <1>1, <1>9, <3>1
    <3>3. \/ image[a.image] = "acquired" /\ Len(presents[a.image]) = a.ahead
          \/ image[a.image] = "queued" /\ Len(presents[a.image]) = a.ahead + 1
      BY DEF AcquiredInv
    <3>4. image[i] = "acquired" \/ (image[i] = "queued" /\ Len(presents[i]) = 2)
      BY <3>1, <3>2, <3>3
    <3>5. QED
      BY <1>1, <1>9, <3>4, SMTT(20)
  <2>6. FencePending /\ current = i => ~Drawn(i)'
    <3> SUFFICES ASSUME FencePending, current = i, Drawn(i)' PROVE FALSE
      OBVIOUS
    <3>1. frame \in Images
      BY DEF ChainTyped
    <3>2. Late(i, frame)
      BY <1>4, <2>1, <3>1 DEF LateOf
    <3>3. QED
      BY <2>2, <2>4, <3>1, <3>2, OneWaits
  <2>7. ASSUME NEW a \in acquiring', a.image = i, NEW f \in Images, NEW n \in Draws(i), queue[n].fence = f
        PROVE  a.signals = Available(f)
    <3>1. PICK b \in acquiring : a = shown(b)
      BY <1>6
    <3>2. b.image = i /\ a.signals = b.signals
      BY <1>2, <2>7, <3>1
    <3>3. Late(i, f)
      BY <2>2, <2>7
    <3>4. QED
      BY <3>2, <3>3 DEF Late, AcquiredInv
  <2>8. \A n, m \in Draws(i) : ~(m < n)
    BY <2>3, DrawsTyped
  <2>9. QED
    BY <1>1, <1>3, <1>7, <2>1, <2>5, <2>6, <2>7, <2>8 DEF LateOf
<1>10. QED
  BY <1>8, <1>9

LEMMA LateComes ==
    ASSUME SurfacesConstants, SurfaceInv, HandInv, NEW c \in acquiring, BecomeAvailable(c), EngineStep,
           NEW i \in Images
    PROVE  LateOf(i)'
<1> USE DEF SurfaceInv, TypeInv, HandInv, device
<1>1. /\ c.ahead = 0 /\ acquiring' = acquiring \ {c}
      /\ \E f \in Images : c.signals = Available(f)
      /\ semaphore' = [semaphore EXCEPT ![c.signals] = 1]
      /\ UNCHANGED <<backend, client, indices, fence, image, layout, queue, presents>>
  BY Comes
<1>2. /\ FencePending' = FencePending /\ frame' = frame /\ current' = current
      /\ Finished(i)' = Finished(i) /\ (\A f \in Images : Available(f)' = Available(f))
      /\ Draws(i)' = Draws(i)
  BY <1>1 DEF FencePending, FrameOpen, client, indices, EngineStep, Finished, Available, Draws
<1>3. semaphore'[Finished(i)] = semaphore[Finished(i)]
  BY <1>1, NamesApart DEF ChainTyped
<1>4. Drawn(i)' <=> Drawn(i)
  BY <1>2, <1>3 DEF Drawn
<1>5. \A f \in Images : Late(i, f) => Late(i, f)'
  BY <1>1, <1>2 DEF Late
<1>6. LateOf(i)
  BY DEF LateInv
<1>7. QED
  BY <1>1, <1>2, <1>3, <1>4, <1>5, <1>6 DEF LateOf

(* Who acquires an image that is drawn waits until it is shown.            *)
LEMMA LateAcquires ==
    ASSUME SurfacesConstants, SurfaceInv, HandInv, NEW j \in Images, Acquires(j), NEW i \in Images
    PROVE  LateOf(i)'
<1> USE DEF SurfaceInv, TypeInv, HandInv, device
<1> DEFINE new == [image |-> j, signals |-> Available(frame), ahead |-> Len(presents[j])]
<1>1. /\ acquiring' = acquiring \cup {new} /\ image' = [image EXCEPT ![j] = "acquired"]
      /\ image[j] # "acquired" /\ \A a \in acquiring : a.image # j
      /\ UNCHANGED <<queue, presents, semaphore, frame>> /\ current' = j /\ frame \in Images
  BY DEF Acquires, AcquireImage, Acquirable, ChainTyped
<1>2. new.image = j /\ new.signals = Available(frame) /\ new.ahead = Len(presents[j])
  OBVIOUS
<1> HIDE DEF new
<1>3. /\ Finished(i)' = Finished(i) /\ (\A f \in Images : Available(f)' = Available(f))
      /\ Draws(i)' = Draws(i)
  BY <1>1 DEF Finished, Available, Draws
<1>4. Drawn(i)' <=> Drawn(i)
  BY <1>1, <1>3 DEF Drawn
<1>5. \A f \in Images : Late(i, f) => Late(i, f)'
  BY <1>1, <1>3 DEF Late
<1>6. LateOf(i)
  BY DEF LateInv
<1>7. image'[j] = "acquired" /\ (i # j => image'[i] = image[i])
  BY <1>1 DEF ChainTyped
<1>8. Drawn(i)' => Len(presents'[i]) >= 1 \/ image'[i] = "acquired"
  BY <1>1, <1>4, <1>6, <1>7 DEF LateOf
<1>9. Drawn(j) => Len(presents[j]) >= 1
  BY <1>1 DEF LateInv, LateOf
<1>10. \A f \in Images : frame = f /\ i = j /\ Drawn(i) => Late(i, f)'
  <2>1. new \in acquiring'
    BY <1>1
  <2>2. Len(presents[j]) >= 1 => new.ahead > 0
    BY <1>2, PresentsLengths
  <2>3. QED
    BY <1>2, <1>3, <1>9, <2>1, <2>2 DEF Late
<1>11. \A f \in Images : current' = i /\ frame' = f /\ Drawn(i)' => Late(i, f)'
  BY <1>1, <1>4, <1>10
<1>12. new.ahead = 0 => ~Drawn(j)
  BY <1>2, <1>9
<1>13. \A a \in acquiring' : a = new \/ a \in acquiring
  BY <1>1
<1>14. ASSUME NEW a \in acquiring', a.image = i
       PROVE  /\ a.ahead = 0 => semaphore[Finished(i)] # 1
              /\ \A f \in Images : \A n \in Draws(i) :
                    a.ahead = 0 /\ queue[n].fence = f => a.signals = Available(f)
              /\ \A f \in Images : current' = i /\ frame = f => a.signals = Available(f)
  <2>1. CASE a = new
    BY <1>2, <1>12, <1>14, <2>1 DEF Drawn
  <2>2. CASE a \in acquiring
    <3>1. i # j
      BY <1>1, <1>14, <2>2
    <3>2. QED
      BY <1>1, <1>6, <1>14, <2>2, <3>1 DEF LateOf
  <2>3. QED
    BY <1>13, <2>1, <2>2
<1>15. QED
  BY <1>1, <1>3, <1>5, <1>6, <1>8, <1>11, <1>14 DEF LateOf

LEMMA LateNext ==
    ASSUME SurfacesConstants, SurfaceInv, HandInv, Move
    PROVE  LateInv'
<1> USE DEF SurfaceInv, TypeInv, HandInv, device
<1> SUFFICES ASSUME NEW i \in Images PROVE LateOf(i)'
  BY DEF LateInv
<1>0. LateOf(i)
  BY DEF LateInv
<1>1. ASSUME Quiet PROVE LateOf(i)'
  <2>1. Draws(i)' = Draws(i) /\ queue' = queue
    BY <1>1 DEF Quiet, Draws
  <2>2. QED
    BY <1>0, <1>1, <2>1, LateKept DEF Quiet
<1>2. ASSUME Destroys PROVE LateOf(i)'
  <2>1. ~FencePending' /\ Draws(i) = {} /\ Draws(i)' = {} /\ Finished(i)' = Finished(i)
    BY <1>2 DEF Destroys, FencePending, FrameOpen, Draws, Finished
  <2>2. Drawn(i)' => Drawn(i)
    BY <1>2, <2>1 DEF Destroys, Drawn
  <2>3. QED
    BY <1>0, <1>2, <2>1, <2>2 DEF Destroys, LateOf
<1>3. ASSUME Creates PROVE LateOf(i)'
  <2>1. ~FencePending' /\ Draws(i)' = {} /\ acquiring' = {}
    BY <1>3 DEF Creates, FencePending, Draws, SwapchainInv
  <2>2. semaphore'[Finished(i)] = 0 /\ Finished(i)' = Finished(i)
    BY <1>3, NamesApart DEF Creates, Pristine, Finished
  <2>3. ~Drawn(i)'
    BY <2>1, <2>2 DEF Drawn
  <2>4. QED
    BY <2>1, <2>3 DEF LateOf
<1>4. ASSUME NEW j \in Images, Acquires(j) PROVE LateOf(i)'
  BY <1>4, LateAcquires
<1>5. ASSUME Misses PROVE LateOf(i)'
  <2>1. ~FencePending' /\ Draws(i)' = Draws(i) /\ queue' = queue
    BY <1>5 DEF Misses, FencePending, Draws
  <2>2. QED
    BY <1>0, <1>5, <2>1, LateKept DEF Misses
<1>6. ASSUME NEW e \in Submissions, SubmitsMore(e) PROVE LateOf(i)'
  <2>1. /\ \A n : n \in Draws(i)' <=> n \in Draws(i) \/ (n = Len(queue) + 1 /\ e.image = i)
        /\ Draws(i) \subseteq 1..Len(queue)
        /\ \A n \in 1..Len(queue) : queue'[n] = queue[n]
    BY <1>6, DrawsGrow DEF SubmitsMore
  <2>2. e.image # i
    BY <1>6, NoneIsNoImage DEF SubmitsMore, Ordinary
  <2>3. FencePending' = FencePending
    BY <1>6 DEF SubmitsMore, FencePending, FrameOpen, client, Move
  <2>4. QED
    BY <1>0, <1>6, <2>1, <2>2, <2>3, LateKept DEF SubmitsMore
<1>7. ASSUME NEW e \in Submissions, Draw(e) PROVE LateOf(i)'
  <2>1. SubmitsFrame(e) /\ image' = image /\ presents' = presents
    BY <1>7 DEF Draw
  <2>2. i = current => image[i] = "acquired"
    BY <1>7, <2>1 DEF Draw, SubmitsFrame, ShapeInv
  <2>3. QED
    BY <2>1, <2>2, LateSubmitted
<1>8. ASSUME backend # "D3D12", FrameOpen, QueuePresent
      PROVE  /\ Len(presents[i]) >= 1 \/ image[i] = "acquired" =>
                   Len(presents'[i]) >= 1 \/ image'[i] = "acquired"
             /\ i = current => Len(presents'[i]) >= 1
  <2>1. /\ Len(presents[current]) \in Nat /\ Len(presents'[current]) = Len(presents[current]) + 1
        /\ \A k \in Images : k # current => presents'[k] = presents[k] /\ image'[k] = image[k]
    BY <1>8, Presents
  <2>2. QED
    BY <2>1
<1>9. ASSUME NEW e \in Submissions, DrawAndPresent(e) PROVE LateOf(i)'
  <2>1. backend # "D3D12" /\ FrameOpen
    BY <1>9 DEF DrawAndPresent, SubmitsFrame, FencePending, SyncInv
  <2>2. SubmitsFrame(e) /\ QueuePresent
    BY <1>9 DEF DrawAndPresent
  <2>3. QED
    BY <1>8, <2>1, <2>2, LateSubmitted
<1>10. ASSUME Present PROVE LateOf(i)'
  <2>1. backend # "D3D12" /\ FrameOpen /\ QueuePresent /\ ~FencePending'
    BY <1>10 DEF Present, Open, FencePending
  <2>2. Draws(i)' = Draws(i) /\ queue' = queue /\ UNCHANGED <<semaphore, acquiring>>
    BY <1>10 DEF Present, Draws
  <2>3. QED
    BY <1>0, <1>8, <2>1, <2>2, LateKept
<1>11. ASSUME Execute, EngineStep PROVE LateOf(i)'
  BY <1>11, LateExecutes
<1>12. ASSUME NEW j \in Images, Show(j), EngineStep PROVE LateOf(i)'
  BY <1>12, LateShows
<1>13. ASSUME NEW a \in acquiring, BecomeAvailable(a), EngineStep PROVE LateOf(i)'
  BY <1>13, LateComes
<1>14. QED
  BY <1>1, <1>2, <1>3, <1>4, <1>5, <1>6, <1>7, <1>9, <1>10, <1>11, <1>12, <1>13 DEF Move

(* No more than two presentations of an image are submitted or due.        *)
LEMMA DueAtMostTwo ==
    ASSUME ChainTyped, ShapeInv, AcquiredInv, NEW i \in Images
    PROVE  Due(i) \in Nat /\ Due(i) <= 2 /\ Len(presents[i]) \in Nat
<1>1. Len(presents[i]) \in Nat
  BY PresentsLengths
<1>2. Len(presents[i]) <= 1 \/ (Len(presents[i]) = 2 /\ image[i] # "acquired")
  <2>1. CASE \A a \in acquiring : a.image # i
    BY <2>1 DEF AcquiredInv
  <2>2. ASSUME NEW a \in acquiring, a.image = i
        PROVE  Len(presents[i]) <= 1 \/ (Len(presents[i]) = 2 /\ image[i] # "acquired")
    <3>1. /\ a.ahead = 0 \/ a.ahead = 1
          /\ \/ image[a.image] = "acquired" /\ Len(presents[a.image]) = a.ahead
             \/ image[a.image] = "queued" /\ Len(presents[a.image]) = a.ahead + 1
      BY DEF AcquiredInv
    <3>2. \/ image[i] = "acquired" /\ Len(presents[i]) = a.ahead
          \/ image[i] = "queued" /\ Len(presents[i]) = a.ahead + 1
      BY <2>2, <3>1
    <3>3. \A l, h : (h = 0 \/ h = 1) /\ (l = h \/ l = h + 1) => l <= 1 \/ l = 2
      OBVIOUS
    <3>4. \A h : (h = 0 \/ h = 1) => h <= 1
      OBVIOUS
    <3>5. Len(presents[i]) <= 1 \/ Len(presents[i]) = 2
      BY <3>1, <3>2, <3>3
    <3>6. image[i] = "acquired" => Len(presents[i]) <= 1
      BY <3>1, <3>2, <3>4
    <3>7. QED
      BY <3>5, <3>6
  <2>3. QED
    BY <2>1, <2>2
<1>3. Open(i) => image[i] = "acquired"
  BY DEF Open, ShapeInv
<1>4. CASE Open(i)
  <2>1. Due(i) = Len(presents[i]) + 1 /\ Len(presents[i]) <= 1
    BY <1>2, <1>3, <1>4 DEF Due
  <2>2. QED
    BY <1>1, <2>1
<1>5. CASE ~Open(i)
  <2>1. Due(i) = Len(presents[i])
    BY <1>5 DEF Due
  <2>2. Len(presents[i]) <= 1 \/ Len(presents[i]) = 2
    BY <1>2
  <2>3. \A l \in Nat : l <= 1 \/ l = 2 => l <= 2
    OBVIOUS
  <2>4. QED
    BY <1>1, <2>1, <2>2, <2>3
<1>6. QED
  BY <1>4, <1>5

LEMMA DueKept ==
    ASSUME NEW i \in Images, DueOf(i), semaphore' = semaphore, Due(i) \in Nat, Due(i)' \in Nat,
           Due(i)' <= Due(i), \A n : n \in Draws(i)' <=> n \in Draws(i)
    PROVE  DueOf(i)'
<1>1. Finished(i)' = Finished(i)
  BY DEF Finished
<1>2. Drawn(i)' <=> Drawn(i)
  BY <1>1 DEF Drawn
<1>3. \A k \in {1, 2} : Due(i)' >= k => Due(i) >= k
  OBVIOUS
<1>4. QED
  BY <1>1, <1>2, <1>3 DEF DueOf

(* With the frame's submission the image is drawn once more.               *)
LEMMA DueSubmitted ==
    ASSUME SurfacesConstants, ChainTyped, NEW e \in Submissions, SubmitsFrame(e), NEW i \in Images,
           DueOf(i), Due(i) \in Nat, Due(i)' \in Nat,
           Due(i)' = IF i = current THEN Due(i) + 1 ELSE Due(i)
    PROVE  DueOf(i)'
<1>1. queue' = Append(queue, e) /\ e.image = current /\ semaphore' = semaphore
  BY DEF SubmitsFrame
<1>2. /\ \A n : n \in Draws(i)' <=> n \in Draws(i) \/ (n = Len(queue) + 1 /\ current = i)
      /\ Draws(i) \subseteq 1..Len(queue) /\ Len(queue) \in Nat
  BY <1>1, DrawsGrow
<1>3. CASE current # i
  <2>1. \A n : n \in Draws(i)' <=> n \in Draws(i)
    BY <1>2, <1>3
  <2>2. QED
    BY <1>1, <1>3, <2>1, DueKept
<1>4. CASE current = i
  <2>1. Finished(i)' = Finished(i)
    BY DEF Finished
  <2>2. Len(queue) + 1 \in Draws(i)' /\ \A n \in Draws(i) : n \in Draws(i)' /\ n < Len(queue) + 1
    BY <1>2, <1>4
  <2>3. Due(i)' >= 2 => Due(i) >= 1
    BY <1>4
  <2>4. Due(i)' >= 2 => \/ semaphore'[Finished(i)] = 1
                        \/ \E n : n \in Draws(i)' /\ n < Len(queue) + 1
    BY <1>1, <2>2, <2>3 DEF DueOf, Drawn
  <2>5. QED
    BY <1>1, <2>1, <2>2, <2>4 DEF DueOf, Drawn
<1>5. QED
  BY <1>3, <1>4

LEMMA DueExecutes ==
    ASSUME SurfacesConstants, SurfaceInv, HandInv, Execute, EngineStep, NEW i \in Images
    PROVE  DueOf(i)'
<1> USE DEF SurfaceInv, TypeInv, HandInv, device
<1> DEFINE e == queue[1]
<1>1. /\ queue # <<>> /\ queue' = Tail(queue)
      /\ UNCHANGED <<backend, client, indices, image, acquiring, presents>>
      /\ \/ Ordinary(e) /\ UNCHANGED <<semaphore, fence, layout>>
         \/ /\ e.image \in Images /\ 1 \in Draws(e.image)
            /\ semaphore[Finished(e.image)] = 0 /\ e.fence \in Images
            /\ semaphore' = [semaphore EXCEPT ![Available(e.fence)] = 0, ![Finished(e.image)] = 1]
  BY Executes
<1>2. /\ \A n : n \in Draws(i)' <=> n \in 1..(Len(queue) - 1) /\ n + 1 \in Draws(i)
      /\ \A n \in Draws(i) : n \in 1..Len(queue) /\ (n = 1 \/ n - 1 \in Draws(i)')
  BY <1>1, DrawsShrink
<1>3. Finished(i)' = Finished(i) /\ Due(i)' = Due(i)
  BY <1>1 DEF Finished, Due, Open, FrameOpen, client, indices, EngineStep
<1>4. DueOf(i)
  BY DEF DueInv
<1>5. 1 \in Draws(i) => e.image = i
  BY DEF Draws
<1>6. CASE e.image = i
  <2>1. semaphore[Finished(i)] = 0 /\ semaphore'[Finished(i)] = 1
    BY <1>1, <1>6, NoneIsNoImage, NamesApart DEF ChainTyped, Ordinary
  <2>2. Due(i) >= 2 => Draws(i)' # {}
    <3>1. Due(i) >= 2 => \E n, m \in Draws(i) : n < m
      BY <1>4, <2>1 DEF DueOf
    <3>2. \A n, m \in Draws(i) : n < m => m # 1
      BY <1>2
    <3>3. QED
      BY <1>2, <3>1, <3>2
  <2>3. QED
    BY <1>3, <2>1, <2>2 DEF DueOf, Drawn
<1>7. CASE e.image # i
  <2>1. semaphore'[Finished(i)] = semaphore[Finished(i)]
    <3>1. CASE semaphore' = semaphore
      BY <3>1
    <3>2. CASE /\ e.image \in Images /\ e.fence \in Images
               /\ semaphore' = [semaphore EXCEPT ![Available(e.fence)] = 0, ![Finished(e.image)] = 1]
      <4>1. Available(e.fence) # Finished(i) /\ Finished(e.image) # Finished(i)
        BY ONLY <1>7, <3>2, NamesApart, i \in Images
      <4>2. Finished(i) \in DOMAIN semaphore
        BY NamesApart DEF ChainTyped
      <4>3. QED
        BY ONLY <3>2, <4>1, <4>2
    <3>3. QED
      BY <1>1, <3>1, <3>2
  <2>2. \A n \in Draws(i) : n - 1 \in Draws(i)' /\ n \in Nat
    BY <1>2, <1>5, <1>7
  <2>3. \A n, m \in Draws(i) : n < m => n - 1 < m - 1
    BY <2>2
  <2>4. (Draws(i) # {} => Draws(i)' # {})
    BY <2>2
  <2>5. (\E n, m \in Draws(i) : n < m) => \E n, m \in Draws(i)' : n < m
    BY <2>2, <2>3
  <2>6. QED
    BY <1>3, <1>4, <2>1, <2>4, <2>5 DEF DueOf, Drawn
<1>8. QED
  BY <1>6, <1>7

LEMMA DueNext ==
    ASSUME SurfacesConstants, SurfaceInv, HandInv, Move, ChainTyped', ShapeInv', AcquiredInv'
    PROVE  DueInv'
<1> USE DEF SurfaceInv, TypeInv, HandInv, device
<1> SUFFICES ASSUME NEW i \in Images PROVE DueOf(i)'
  BY DEF DueInv
<1>0. /\ DueOf(i) /\ Due(i) \in Nat /\ Due(i) <= 2 /\ Len(presents[i]) \in Nat
      /\ Due(i)' \in Nat /\ Len(presents'[i]) \in Nat
  <2>1. Due(i) \in Nat /\ Due(i) <= 2 /\ Len(presents[i]) \in Nat
    BY DueAtMostTwo
  <2>2. Len(presents'[i]) \in Nat
    BY LenProperties DEF ChainTyped
  <2>3. Due(i)' \in Nat
    BY <2>2 DEF Due
  <2>4. QED
    BY <2>1, <2>2, <2>3 DEF DueInv
<1>b. backend' = backend
  BY DEF Move
<1>1. ASSUME presents'[i] = presents[i], Open(i)' => Open(i) PROVE Due(i)' <= Due(i)
  BY <1>0, <1>1 DEF Due
<1>2. ASSUME Quiet PROVE DueOf(i)'
  <2>1. Draws(i)' = Draws(i) /\ Open(i)' => Open(i)
    BY <1>2, <1>b DEF Quiet, Draws, Open
  <2>2. QED
    BY <1>0, <1>1, <1>2, <2>1, DueKept DEF Quiet, Draws
<1>3. ASSUME Destroys PROVE DueOf(i)'
  <2>1. Draws(i)' = Draws(i) /\ ~Open(i)'
    BY <1>3 DEF Destroys, Draws, Open, FrameOpen
  <2>2. QED
    BY <1>0, <1>1, <1>3, <2>1, DueKept DEF Destroys
<1>4. ASSUME Creates PROVE DueOf(i)'
  <2>1. semaphore'[Finished(i)] = 0 /\ Finished(i)' = Finished(i)
    BY <1>4, NamesApart DEF Creates, Pristine, Finished
  <2>2. ~Open(i)' /\ presents'[i] = <<>>
    BY <1>4 DEF Creates, Open, SwapchainInv
  <2>3. Due(i)' = 0
    BY <1>4, <2>2, PresentsLengths DEF Due, Creates
  <2>4. QED
    BY <2>1, <2>3 DEF DueOf
<1>5. ASSUME NEW j \in Images, Acquires(j) PROVE DueOf(i)'
  <2>1. Draws(i)' = Draws(i) /\ ~Open(i)'
    BY <1>5, <1>b DEF Acquires, Draws, Open, NoSync
  <2>2. QED
    BY <1>0, <1>1, <1>5, <2>1, DueKept DEF Acquires
<1>6. ASSUME Misses PROVE DueOf(i)'
  <2>1. Draws(i)' = Draws(i) /\ ~Open(i)'
    BY <1>6 DEF Misses, Draws, Open
  <2>2. QED
    BY <1>0, <1>1, <1>6, <2>1, DueKept DEF Misses
<1>7. ASSUME NEW e \in Submissions, SubmitsMore(e) PROVE DueOf(i)'
  <2>1. \A n : n \in Draws(i)' <=> n \in Draws(i) \/ (n = Len(queue) + 1 /\ e.image = i)
    BY <1>7, DrawsGrow DEF SubmitsMore
  <2>2. e.image # i
    BY <1>7, NoneIsNoImage DEF SubmitsMore, Ordinary
  <2>3. Open(i)' => Open(i)
    BY <1>7, <1>b DEF SubmitsMore, Open, FrameOpen, client
  <2>4. QED
    BY <1>0, <1>1, <1>7, <2>1, <2>2, <2>3, DueKept DEF SubmitsMore
<1>8. ASSUME NEW e \in Submissions, Draw(e) PROVE DueOf(i)'
  <2>1. SubmitsFrame(e) /\ presents' = presents /\ ~Open(i)
    BY <1>8 DEF Draw, Open, SubmitsFrame, FencePending
  <2>2. Open(i)' <=> i = current
    BY <1>8, <1>b DEF Draw, Open, SubmitsFrame, FrameOpen, client
  <2>3. Due(i)' = IF i = current THEN Due(i) + 1 ELSE Due(i)
    BY <1>0, <2>1, <2>2 DEF Due
  <2>4. QED
    BY <1>0, <2>1, <2>3, DueSubmitted
<1>9. ASSUME backend # "D3D12", FrameOpen, QueuePresent
      PROVE  Len(presents'[i]) = IF i = current THEN Len(presents[i]) + 1 ELSE Len(presents[i])
  BY <1>9, Presents
<1>10. ASSUME NEW e \in Submissions, DrawAndPresent(e) PROVE DueOf(i)'
  <2>1. backend # "D3D12" /\ FrameOpen
    BY <1>10 DEF DrawAndPresent, SubmitsFrame, FencePending, SyncInv
  <2>2. SubmitsFrame(e) /\ QueuePresent /\ ~Open(i)'
    BY <1>10 DEF DrawAndPresent, Open
  <2>3. ~Open(i)
    BY <2>2 DEF Open, SubmitsFrame, FencePending
  <2>4. Due(i)' = IF i = current THEN Due(i) + 1 ELSE Due(i)
    BY <1>0, <1>9, <2>1, <2>2, <2>3 DEF Due
  <2>5. QED
    BY <1>0, <2>2, <2>4, DueSubmitted
<1>11. ASSUME Present PROVE DueOf(i)'
  <2>1. backend # "D3D12" /\ FrameOpen /\ QueuePresent /\ ~Open(i)' /\ Open(current)
    BY <1>11 DEF Present, Open
  <2>2. Draws(i)' = Draws(i) /\ UNCHANGED semaphore
    BY <1>11 DEF Present, Draws
  <2>3. Open(i) <=> i = current
    BY <2>1 DEF Open
  <2>4. Due(i)' = Due(i)
    BY <1>0, <1>9, <2>1, <2>3 DEF Due
  <2>5. QED
    BY <1>0, <2>2, <2>4, DueKept
<1>12. ASSUME Execute, EngineStep PROVE DueOf(i)'
  BY <1>12, DueExecutes
<1>13. ASSUME NEW j \in Images, Show(j), EngineStep PROVE DueOf(i)'
  <2>1. /\ UNCHANGED <<backend, client, indices, queue>>
        /\ semaphore[Finished(j)] = 1
        /\ semaphore' = [semaphore EXCEPT ![Finished(j)] = 0]
        /\ Len(presents'[j]) = Len(presents[j]) - 1
        /\ \A k \in Images : k # j => presents'[k] = presents[k]
    BY <1>13, Shows
  <2>2. Draws(i)' = Draws(i) /\ Finished(i)' = Finished(i) /\ (Open(i)' <=> Open(i))
    BY <1>13, <2>1 DEF Draws, Finished, Open, FrameOpen, client, indices, EngineStep
  <2>3. CASE i = j
    <3>1. Due(i)' = Due(i) - 1
      BY <1>0, <2>1, <2>2, <2>3 DEF Due
    <3>2. semaphore'[Finished(i)] = 0
      BY <2>1, <2>3, NamesApart DEF ChainTyped
    <3>3. Due(i)' >= 1 => Draws(i) # {}
      BY <1>0, <3>1 DEF DueOf
    <3>4. ~(Due(i)' >= 2)
      BY <1>0, <3>1
    <3>5. QED
      BY <2>2, <3>2, <3>3, <3>4 DEF DueOf, Drawn
  <2>4. CASE i # j
    <3>1. semaphore'[Finished(i)] = semaphore[Finished(i)]
      BY <2>1, <2>4, NamesApart DEF ChainTyped
    <3>2. Due(i)' = Due(i)
      BY <2>1, <2>2, <2>4 DEF Due
    <3>3. QED
      BY <1>0, <2>2, <3>1, <3>2 DEF DueOf, Drawn
  <2>5. QED
    BY <2>3, <2>4
<1>14. ASSUME NEW a \in acquiring, BecomeAvailable(a), EngineStep PROVE DueOf(i)'
  <2>1. /\ UNCHANGED <<backend, client, indices, queue, presents>>
        /\ \E f \in Images : a.signals = Available(f)
        /\ semaphore' = [semaphore EXCEPT ![a.signals] = 1]
    BY <1>14, Comes
  <2>2. Draws(i)' = Draws(i) /\ Finished(i)' = Finished(i) /\ Due(i)' = Due(i)
    BY <1>14, <2>1 DEF Draws, Finished, Due, Open, FrameOpen, client, indices, EngineStep
  <2>3. semaphore'[Finished(i)] = semaphore[Finished(i)]
    BY <2>1, NamesApart DEF ChainTyped
  <2>4. QED
    BY <1>0, <2>2, <2>3 DEF DueOf, Drawn
<1>15. QED
  BY <1>2, <1>3, <1>4, <1>5, <1>6, <1>7, <1>8, <1>10, <1>11, <1>12, <1>13, <1>14 DEF Move

LEMMA LayoutKept ==
    ASSUME NEW i \in Images, LayoutOf(i), UNCHANGED <<known, layout>>,
           semaphore'[Finished(i)] = 1 => semaphore[Finished(i)] = 1,
           \A n : n \in Draws(i)' <=> n \in Draws(i),
           \A n \in Draws(i) : queue'[n].from = queue[n].from
    PROVE  LayoutOf(i)'
<1>1. Finished(i)' = Finished(i)
  BY DEF Finished
<1>2. QED
  BY <1>1 DEF LayoutOf

(* A copy takes its image to be as presented only behind an earlier draw.  *)
LEMMA LayoutSubmitted ==
    ASSUME SurfacesConstants, ChainTyped, NEW e \in Submissions, SubmitsFrame(e), NEW i \in Images,
           LayoutOf(i), known' = known \/ known' = [known EXCEPT ![current] = "present"]
    PROVE  LayoutOf(i)'
<1>1. /\ queue' = Append(queue, e) /\ e.image = current /\ UNCHANGED <<semaphore, layout>>
      /\ e.from \in {"undefined", known[current]}
  BY DEF SubmitsFrame
<1>2. /\ \A n : n \in Draws(i)' <=> n \in Draws(i) \/ (n = Len(queue) + 1 /\ current = i)
      /\ Draws(i) \subseteq 1..Len(queue) /\ Len(queue) \in Nat
      /\ \A n \in 1..Len(queue) : queue'[n] = queue[n]
      /\ queue'[Len(queue) + 1] = e
  BY <1>1, DrawsGrow
<1>3. Finished(i)' = Finished(i)
  BY DEF Finished
<1>4. known'[i] = "present" => known[i] = "present" \/ current = i
  BY DEF ChainTyped
<1>5. known'[i] = "present" => layout[i] = "present" \/ Draws(i)' # {}
  BY <1>2, <1>4 DEF LayoutOf
<1>6. ASSUME NEW n, n \in Draws(i)', queue'[n].from = "present"
      PROVE  layout[i] = "present" \/ \E m : m \in Draws(i)' /\ m < n
  <2>1. CASE n \in Draws(i)
    <3>1. queue[n].from = "present"
      BY <1>2, <1>6, <2>1
    <3>2. QED
      BY <1>2, <2>1, <3>1 DEF LayoutOf
  <2>2. CASE n = Len(queue) + 1
    <3>1. current = i
      BY <1>2, <1>6, <2>2
    <3>2. known[i] = "present"
      BY <1>1, <1>2, <1>6, <2>2, <3>1
    <3>3. \A m \in Draws(i) : m \in Draws(i)' /\ m < n
      BY <1>2, <2>2
    <3>4. QED
      BY <3>2, <3>3 DEF LayoutOf
  <2>3. QED
    BY <1>2, <1>6, <2>1, <2>2
<1>7. QED
  BY <1>1, <1>3, <1>5, <1>6 DEF LayoutOf

LEMMA LayoutNext ==
    ASSUME SurfacesConstants, SurfaceInv, HandInv, Move
    PROVE  LayoutInv'
<1> USE DEF SurfaceInv, TypeInv, HandInv, device
<1> SUFFICES ASSUME NEW i \in Images PROVE LayoutOf(i)'
  BY DEF LayoutInv
<1>0. LayoutOf(i)
  BY DEF LayoutInv
<1>1. ASSUME UNCHANGED <<known, layout, semaphore, queue>> PROVE LayoutOf(i)'
  <2>1. Draws(i)' = Draws(i)
    BY <1>1 DEF Draws
  <2>2. QED
    BY <1>0, <1>1, <2>1, LayoutKept
<1>2. ASSUME Quiet PROVE LayoutOf(i)'
  BY <1>1, <1>2 DEF Quiet
<1>3. ASSUME Destroys PROVE LayoutOf(i)'
  <2>1. Draws(i)' = {} /\ Finished(i)' = Finished(i)
    BY <1>3 DEF Destroys, Draws, Finished
  <2>2. known'[i] = "undefined"
    BY <1>3 DEF Destroys, Pristine
  <2>3. QED
    BY <1>0, <1>3, <2>1, <2>2 DEF Destroys, LayoutOf
<1>4. ASSUME Creates PROVE LayoutOf(i)'
  <2>1. Draws(i)' = {} /\ Finished(i)' = Finished(i)
    BY <1>4 DEF Creates, Draws, Finished
  <2>2. known'[i] = "undefined" /\ semaphore'[Finished(i)] = 0
    BY <1>4, NamesApart DEF Creates, Pristine, SwapchainInv
  <2>3. QED
    BY <2>1, <2>2 DEF LayoutOf
<1>5. ASSUME NEW j \in Images, Acquires(j) PROVE LayoutOf(i)'
  BY <1>1, <1>5 DEF Acquires
<1>6. ASSUME Misses PROVE LayoutOf(i)'
  BY <1>1, <1>6 DEF Misses
<1>7. ASSUME NEW e \in Submissions, SubmitsMore(e) PROVE LayoutOf(i)'
  <2>1. /\ \A n : n \in Draws(i)' <=> n \in Draws(i) \/ (n = Len(queue) + 1 /\ e.image = i)
        /\ Draws(i) \subseteq 1..Len(queue)
        /\ \A n \in 1..Len(queue) : queue'[n] = queue[n]
    BY <1>7, DrawsGrow DEF SubmitsMore
  <2>2. e.image # i
    BY <1>7, NoneIsNoImage DEF SubmitsMore, Ordinary
  <2>3. QED
    BY <1>0, <1>7, <2>1, <2>2, LayoutKept DEF SubmitsMore
<1>8. ASSUME NEW e \in Submissions, Draw(e) PROVE LayoutOf(i)'
  BY <1>0, <1>8, LayoutSubmitted DEF Draw
<1>9. ASSUME NEW e \in Submissions, DrawAndPresent(e) PROVE LayoutOf(i)'
  BY <1>0, <1>9, LayoutSubmitted DEF DrawAndPresent
<1>10. ASSUME Present PROVE LayoutOf(i)'
  BY <1>1, <1>10 DEF Present
<1>11. ASSUME Execute, EngineStep PROVE LayoutOf(i)'
  <2> DEFINE e == queue[1]
  <2>1. /\ queue # <<>> /\ queue' = Tail(queue)
        /\ \/ Ordinary(e) /\ UNCHANGED <<semaphore, fence, layout>>
           \/ /\ e.image \in Images /\ e.fence \in Images
              /\ semaphore' = [semaphore EXCEPT ![Available(e.fence)] = 0, ![Finished(e.image)] = 1]
              /\ layout' = [layout EXCEPT ![e.image] = "present"]
    BY <1>11, Executes
  <2>2. /\ \A n : n \in Draws(i)' <=> n \in 1..(Len(queue) - 1) /\ n + 1 \in Draws(i)
        /\ \A n \in Draws(i) : n \in 1..Len(queue) /\ (n = 1 \/ n - 1 \in Draws(i)')
        /\ \A n \in 1..(Len(queue) - 1) : queue'[n] = queue[n + 1]
    BY <2>1, DrawsShrink
  <2>3. known' = known /\ Finished(i)' = Finished(i)
    BY <1>11 DEF EngineStep, Finished
  <2>4. CASE e.image = i
    <3>1. layout'[i] = "present"
      BY <2>1, <2>4, NoneIsNoImage DEF ChainTyped, Ordinary
    <3>2. QED
      BY <2>3, <3>1 DEF LayoutOf
  <2>5. CASE e.image # i
    <3>1. semaphore'[Finished(i)] = semaphore[Finished(i)] /\ layout'[i] = layout[i]
      <4>1. CASE UNCHANGED <<semaphore, layout>>
        BY <4>1
      <4>2. ASSUME NEW j \in Images, NEW f \in Images, j # i,
                   semaphore' = [semaphore EXCEPT ![Available(f)] = 0, ![Finished(j)] = 1],
                   layout' = [layout EXCEPT ![j] = "present"]
            PROVE  semaphore'[Finished(i)] = semaphore[Finished(i)] /\ layout'[i] = layout[i]
        BY <4>2, NamesApart DEF ChainTyped
      <4>3. QED
        BY <2>1, <2>5, <4>1, <4>2
    <3>2. 1 \notin Draws(i)
      BY <2>5 DEF Draws
    <3>3. \A n \in Draws(i) : n - 1 \in Draws(i)' /\ n \in Nat
      BY <2>2, <3>2
    <3>4. Draws(i) # {} => Draws(i)' # {}
      BY <3>3
    <3>5. ASSUME NEW n, n \in Draws(i)', queue'[n].from = "present"
          PROVE  layout[i] = "present" \/ \E m : m \in Draws(i)' /\ m < n
      <4>1. n + 1 \in Draws(i) /\ queue[n + 1].from = "present" /\ n \in Nat
        BY <2>2, <3>5
      <4>2. ASSUME NEW m \in Draws(i), m < n + 1 PROVE m - 1 \in Draws(i)' /\ m - 1 < n
        BY <3>3, <4>1, <4>2
      <4>3. QED
        BY <1>0, <4>1, <4>2 DEF LayoutOf
    <3>6. QED
      BY <1>0, <2>3, <3>1, <3>4, <3>5 DEF LayoutOf
  <2>6. QED
    BY <2>4, <2>5
<1>12. ASSUME UNCHANGED <<known, layout, queue>>, semaphore'[Finished(i)] = 1 => semaphore[Finished(i)] = 1
       PROVE  LayoutOf(i)'
  <2>1. Draws(i)' = Draws(i)
    BY <1>12 DEF Draws
  <2>2. QED
    BY <1>0, <1>12, <2>1, LayoutKept
<1>13. ASSUME NEW j \in Images, Show(j), EngineStep PROVE LayoutOf(i)'
  <2>1. /\ UNCHANGED <<layout, queue>> /\ semaphore' = [semaphore EXCEPT ![Finished(j)] = 0]
    BY <1>13, Shows
  <2>2. semaphore'[Finished(i)] = 1 => semaphore[Finished(i)] = 1
    BY <2>1, NamesApart DEF ChainTyped
  <2>3. QED
    BY <1>12, <1>13, <2>1, <2>2 DEF EngineStep
<1>14. ASSUME NEW a \in acquiring, BecomeAvailable(a), EngineStep PROVE LayoutOf(i)'
  <2>1. /\ UNCHANGED <<layout, queue>> /\ \E f \in Images : a.signals = Available(f)
        /\ semaphore' = [semaphore EXCEPT ![a.signals] = 1]
    BY <1>14, Comes
  <2>2. semaphore'[Finished(i)] = semaphore[Finished(i)]
    BY <2>1, NamesApart DEF ChainTyped
  <2>3. QED
    BY <1>12, <1>14, <2>1, <2>2 DEF EngineStep
<1>15. QED
  BY <1>2, <1>3, <1>4, <1>5, <1>6, <1>7, <1>8, <1>9, <1>10, <1>11, <1>13, <1>14 DEF Move

LEMMA TextureNext ==
    ASSUME SurfacesConstants, SurfaceInv, HandInv, Move
    PROVE  TextureInv'
<1> USE DEF SurfaceInv, TypeInv, HandInv, device
<1>1. /\ \A m \in DOMAIN stream : stream[m] \in Images
      /\ None \notin Images /\ frame \in Images
  BY NoneIsNoImage, ElementOfSeq, LenProperties DEF ChainTyped
<1>2. ASSUME UNCHANGED <<queue, stream>> PROVE TextureInv'
  BY <1>2 DEF TextureInv
<1>3. ASSUME Quiet PROVE TextureInv'
  <2>1. \A n \in DOMAIN queue : FencePending => queue[n].reads # frame
    BY <1>1 DEF ShapeInv, Ordinary, Drawing, FenceInv
  <2>2. QED
    BY <1>3, <2>1 DEF Quiet, TextureInv
<1>4. ASSUME NEW e \in Submissions, queue' = Append(queue, e), stream' = stream,
             \A m \in DOMAIN stream : e.reads # stream[m]
      PROVE  TextureInv'
  <2>1. /\ DOMAIN queue' = 1..(Len(queue) + 1) /\ DOMAIN queue = 1..Len(queue)
        /\ \A n \in 1..Len(queue) : queue'[n] = queue[n]
        /\ queue'[Len(queue) + 1] = e /\ Len(queue) \in Nat
    BY <1>4, DrawsGrow
  <2>2. \A n \in 1..(Len(queue) + 1) : n \in 1..Len(queue) \/ n = Len(queue) + 1
    BY <2>1
  <2>3. QED
    BY <1>4, <2>1, <2>2 DEF TextureInv
<1>5. ASSUME NEW e \in Submissions, SubmitsMore(e) PROVE TextureInv'
  BY <1>1, <1>4, <1>5 DEF SubmitsMore, Ordinary
<1>6. ASSUME NEW e \in Submissions, SubmitsFrame(e) PROVE TextureInv'
  <2>1. stream = <<>> \/ e.reads = None
    BY <1>6 DEF SubmitsFrame
  <2>2. \A m \in DOMAIN stream : e.reads # stream[m]
    BY <1>1, <2>1
  <2>3. QED
    BY <1>4, <1>6, <2>2 DEF SubmitsFrame
<1>7. ASSUME Execute, EngineStep PROVE TextureInv'
  <2>1. queue # <<>> /\ queue' = Tail(queue) /\ stream' = stream
    BY <1>7, Executes DEF EngineStep
  <2>2. \A n \in DOMAIN queue' : n + 1 \in DOMAIN queue /\ queue'[n] = queue[n + 1]
    BY <2>1, DrawsShrink
  <2>3. QED
    BY <2>1, <2>2 DEF TextureInv
<1>8. ASSUME NEW j \in Images, Show(j), EngineStep PROVE TextureInv'
  BY <1>2, <1>8, Shows DEF EngineStep
<1>9. ASSUME NEW a \in acquiring, BecomeAvailable(a), EngineStep PROVE TextureInv'
  BY <1>2, <1>9, Comes DEF EngineStep
<1>10. QED
  BY <1>2, <1>3, <1>5, <1>6, <1>7, <1>8, <1>9
  DEF Move, Destroys, Creates, Acquires, Misses, Draw, DrawAndPresent, Present

LEMMA HandInit == SurfacesConstants /\ Init => HandInv
<1> SUFFICES ASSUME SurfacesConstants, Init PROVE HandInv
  OBVIOUS
<1>1. /\ acquiring = {} /\ sync = NoSync /\ swapchain = FALSE /\ ~FrameOpen /\ host = "idle"
      /\ ~configured /\ known = Pristine.layout
  BY DEF Init, SwapchainInit, ClientInit, FrameOpen
<1>2. queue = <<>> /\ DOMAIN queue = {} /\ \A i \in Images : presents[i] = <<>>
  BY EmptySeq, LenProperties DEF Init, SwapchainInit
<1>3. \A i \in Images : presents[i] = <<>> /\ Len(presents[i]) = 0 /\ DOMAIN presents[i] = {}
  BY <1>2, EmptySeq, LenProperties
<1>4. \A s \in Semaphores : semaphore[s] = 0
  BY DEF Init, SwapchainInit, Pristine
<1>5. \A i \in Images : semaphore[Finished(i)] = 0 /\ semaphore[Available(i)] = 0
  BY <1>4, NamesApart
<1>6. \A i \in Images : image[i] = "free" /\ known[i] = "undefined"
  BY <1>1 DEF Init, SwapchainInit, Pristine
<1>7. \A i \in Images : Draws(i) = {} /\ ~Drawn(i) /\ ~Promised(i) /\ Due(i) = 0
  BY <1>1, <1>2, <1>3, <1>5 DEF Draws, Drawn, Promised, Coming, Due, Open
<1>8. ~FencePending
  BY <1>1 DEF FencePending
<1>9. ShapeInv /\ SwapchainInv
  BY <1>1, <1>2, <1>3 DEF ShapeInv, SwapchainInv
<1>10. AcquiredInv
  BY <1>1, <1>3 DEF AcquiredInv
<1>11. PromiseInv
  BY <1>2, <1>5, <1>7, <1>8 DEF PromiseInv
<1>12. LateInv /\ DueInv /\ LayoutInv /\ TextureInv
  BY <1>1, <1>2, <1>5, <1>6, <1>7, <1>8
  DEF LateInv, LateOf, DueInv, DueOf, LayoutInv, LayoutOf, TextureInv
<1>13. QED
  BY <1>9, <1>10, <1>11, <1>12 DEF HandInv

LEMMA HandSafe == SurfacesConstants => (Spec => [](SurfaceInv /\ HandInv))
<1> SUFFICES ASSUME SurfacesConstants PROVE Spec => [](SurfaceInv /\ HandInv)
  OBVIOUS
<1>1. Init => SurfaceInv /\ HandInv
  BY SurfaceInit, HandInit
<1>2. SurfaceInv /\ HandInv /\ [Next]_vars => SurfaceInv' /\ HandInv'
  <2> SUFFICES ASSUME SurfaceInv, HandInv, [Next]_vars PROVE SurfaceInv' /\ HandInv'
    OBVIOUS
  <2>1. SurfaceInv'
    BY ClientNext, ChainNext, EventsNext, SyncNext, FenceNext, EventNext DEF SurfaceInv, TypeInv
  <2>2. Move
    BY Moves DEF HandInv
  <2>3. ShapeInv' /\ SwapchainInv' /\ AcquiredInv' /\ PromiseInv' /\ LateInv' /\ LayoutInv' /\ TextureInv'
    BY <2>2, ShapeNext, SwapchainNext, AcquiredNext, PromiseNext, LateNext, LayoutNext, TextureNext
  <2>4. DueInv'
    BY <2>1, <2>2, <2>3, DueNext DEF SurfaceInv, TypeInv
  <2>5. QED
    BY <2>1, <2>3, <2>4 DEF HandInv
<1>3. QED
  BY <1>1, <1>2, PTL DEF Spec

LEMMA PairedInState ==
    ASSUME SurfacesConstants, SurfaceInv, HandInv
    PROVE  SyncObjectsPaired
<1> USE DEF SurfaceInv, TypeInv, HandInv
<1>1. \A n \in DOMAIN queue : Ordinary(queue[n]) \/ Drawing(queue[n])
  BY DEF ShapeInv
<1>2. ASSUME NEW f \in Images, Waiting(Available(f)) # {}
      PROVE  semaphore[Available(f)] = 1 \/ Signalling(Available(f)) # {}
  <2>1. ASSUME NEW n \in DOMAIN queue, Available(f) \in queue[n].waits PROVE Promised(f)
    <3>1. queue[n].fence = f
      BY <1>1, <2>1, NamesApart DEF Ordinary, Drawing
    <3>2. QED
      BY <3>1 DEF PromiseInv
  <2>2. ASSUME NEW i \in Images, NEW k \in DOMAIN presents[i], presents[i][k] = Available(f)
        PROVE  FALSE
    BY <2>2, NamesApart DEF ShapeInv
  <2>3. Promised(f)
    BY <1>2, <2>1, <2>2 DEF Waiting
  <2>4. QED
    BY <2>3 DEF Promised, Coming, Signalling
<1>3. ASSUME NEW i \in Images, Waiting(Finished(i)) # {}
      PROVE  semaphore[Finished(i)] = 1 \/ Signalling(Finished(i)) # {}
  <2>1. ASSUME NEW n \in DOMAIN queue, Finished(i) \in queue[n].waits PROVE FALSE
    BY <1>1, <2>1, NamesApart DEF Ordinary, Drawing
  <2>2. ASSUME NEW j \in Images, NEW k \in DOMAIN presents[j], presents[j][k] = Finished(i)
        PROVE  Due(i) >= 1
    <3>1. j = i
      BY <2>2, NamesApart DEF ShapeInv
    <3>2. Len(presents[i]) \in Nat /\ Len(presents[i]) >= 1
      BY <2>2, <3>1, PresentsLengths
    <3>3. QED
      BY <3>2 DEF Due
  <2>3. Due(i) >= 1
    BY <1>3, <2>1, <2>2 DEF Waiting
  <2>4. Drawn(i)
    BY <2>3 DEF DueInv, DueOf
  <2>5. \A n \in Draws(i) : n \in Signalling(Finished(i))
    BY <1>1, NoneIsNoImage DEF Draws, Ordinary, Drawing, Signalling
  <2>6. QED
    BY <2>4, <2>5 DEF Drawn
<1>4. \A f \in Images : semaphore[Available(f)] \in {0, 1} /\ semaphore[Finished(f)] \in {0, 1}
  BY DEF PromiseInv, DueInv, DueOf
<1>5. \A s \in Semaphores :
         /\ semaphore[s] \in {0, 1}
         /\ Waiting(s) # {} => semaphore[s] = 1 \/ Signalling(s) # {}
         /\ \A a \in acquiring : a.signals = s => semaphore[s] = 0
  <2> SUFFICES ASSUME NEW s \in Semaphores
               PROVE  /\ semaphore[s] \in {0, 1}
                      /\ Waiting(s) # {} => semaphore[s] = 1 \/ Signalling(s) # {}
                      /\ \A a \in acquiring : a.signals = s => semaphore[s] = 0
    OBVIOUS
  <2>1. PICK f \in Images : s = Available(f) \/ s = Finished(f)
    BY NamesApart
  <2>2. \A a \in acquiring : a.signals = s => semaphore[s] = 0
    BY DEF AcquiredInv
  <2>3. QED
    BY <1>2, <1>3, <1>4, <2>1, <2>2
<1>6. ASSUME NEW f \in Images
      PROVE  LET of == {n \in DOMAIN queue : queue[n].fence = f} IN
                Cardinality(of) <= 1 /\ (of # {} => ~fence[f])
  <2> DEFINE of == {n \in DOMAIN queue : queue[n].fence = f}
  <2>1. f # None
    BY NoneIsNoImage
  <2>2. \A n, m \in of : n = m
    BY <2>1 DEF FenceInv
  <2> SUFFICES Cardinality(of) <= 1 /\ (of # {} => ~fence[f])
    OBVIOUS
  <2> HIDE DEF of
  <2>3. CASE of = {}
    <3>1. Cardinality(of) = 0
      BY <2>3, FS_EmptySet
    <3>2. QED
      BY <2>3, <3>1
  <2>4. ASSUME NEW n \in of PROVE Cardinality(of) <= 1 /\ ~fence[f]
    <3>1. of = {n}
      BY <2>2, <2>4
    <3>2. Cardinality(of) = 1
      BY <3>1, FS_Singleton
    <3>3. QED
      BY <2>1, <2>4, <3>2 DEF FenceInv, of
  <2>5. QED
    BY <2>3, <2>4
<1>7. swapchain \/ \A i \in Images : presents[i] = <<>>
  BY DEF SwapchainInv
<1>8. swapchain \/ \A n \in DOMAIN queue : queue[n].fence = None /\ queue[n].image = None
  BY <1>1, NoneIsNoImage DEF SwapchainInv, Ordinary, Drawing
<1>9. QED
  BY <1>5, <1>6, <1>7, <1>8 DEF SyncObjectsPaired

LEMMA HandedOverInState ==
    ASSUME SurfacesConstants, SurfaceInv, HandInv
    PROVE  ImagesHandedOver
<1> USE DEF SurfaceInv, TypeInv, HandInv
<1>1. ASSUME Executable, Head(queue).image # None
      PROVE  /\ \A a \in acquiring : a.signals # Available(Head(queue).fence)
             /\ Head(queue).from \in {"undefined", layout[Head(queue).image]}
  <2>1. Head(queue) = queue[1] /\ 1 \in DOMAIN queue /\ queue[1] \in Submissions
    <3>1. queue # <<>> /\ queue \in Seq(Submissions)
      BY <1>1 DEF Executable, ChainTyped
    <3>2. Len(queue) \in Nat /\ Len(queue) # 0 /\ DOMAIN queue = 1..Len(queue)
      BY <3>1, EmptySeq, LenProperties
    <3>3. Head(queue) = queue[1] /\ 1 \in DOMAIN queue
      BY <3>1, <3>2, HeadTailProperties
    <3>4. QED
      BY <3>1, <3>2, <3>3, ElementOfSeq
  <2> DEFINE f == queue[1].fence
             i == queue[1].image
  <2>2. Drawing(queue[1])
    BY <1>1, <2>1 DEF ShapeInv, Ordinary
  <2>3. f \in Images /\ i \in Images /\ semaphore[Available(f)] >= 1
    BY <1>1, <2>1, <2>2 DEF Drawing, Executable, Ready
  <2>4. semaphore[Available(f)] # 0
    BY <2>3
  <2>5. \A a \in acquiring : a.signals # Available(f)
    BY <2>4 DEF AcquiredInv
  <2>6. 1 \in Draws(i) /\ \A m \in Draws(i) : ~(m < 1)
    BY <2>1, DrawsTyped DEF Draws
  <2>7. queue[1].from = "present" => layout[i] = "present"
    BY <2>3, <2>6 DEF LayoutInv, LayoutOf
  <2>8. queue[1].from \in {"undefined", "present"}
    BY <2>1 DEF Submissions, Layouts
  <2>9. QED
    BY <2>1, <2>5, <2>7, <2>8
<1>2. ASSUME NEW i \in Images, Showable(i)
      PROVE  /\ layout[i] = "present"
             /\ (\E n \in DOMAIN queue : queue[n].image = i) =>
                   \E a \in acquiring : a.image = i /\ a.ahead > 0
  <2>1. Head(presents[i]) = Finished(i) /\ semaphore[Head(presents[i])] >= 1
    <3>1. /\ presents[i] \in Seq(Semaphores) /\ presents[i] # <<>> /\ 1 \in DOMAIN presents[i]
      BY <1>2, PresentsLengths DEF Showable
    <3>2. Head(presents[i]) = presents[i][1]
      BY <3>1, HeadTailProperties
    <3>3. QED
      BY <1>2, <3>1, <3>2 DEF ShapeInv, Showable, Ready
  <2>2. semaphore[Finished(i)] = 1
    <3>1. semaphore[Finished(i)] \in {0, 1} /\ semaphore[Finished(i)] >= 1
      BY <2>1 DEF DueInv, DueOf
    <3>2. QED
      BY <3>1
  <2>3. layout[i] = "present"
    BY <2>2 DEF LayoutInv, LayoutOf
  <2>4. ASSUME NEW n \in DOMAIN queue, queue[n].image = i
        PROVE  \E a \in acquiring : a.image = i /\ a.ahead > 0
    <3>1. n \in Draws(i) /\ queue[n].fence \in Images
      BY <2>4, OneWaits DEF Draws
    <3>2. Late(i, queue[n].fence)
      BY <2>2, <3>1 DEF LateInv, LateOf
    <3>3. QED
      BY <3>2 DEF Late
  <2>5. QED
    BY <2>3, <2>4
<1>3. QED
  BY <1>1, <1>2 DEF ImagesHandedOver, TextureInv

(* Semaphores and fences are used in pairs, whatever order the images come *)
(* back in and however many frames there are: what waits is signalled,     *)
(* nothing is signalled twice, a fence is of one submission, and nothing   *)
(* of a destroyed swapchain is in hand (vk-surface.cpp:495-585,            *)
(* vk-command.cpp:2072-2132, cuda-surface.cpp:926-1190).                   *)
THEOREM Paired == SurfacesConstants => (Spec => []SyncObjectsPaired)
<1> SUFFICES ASSUME SurfacesConstants PROVE Spec => []SyncObjectsPaired
  OBVIOUS
<1>1. SurfaceInv /\ HandInv => SyncObjectsPaired
  BY PairedInState
<1>2. QED
  BY <1>1, HandSafe, PTL

(* An image is drawn only once the engine gave it back and shown only once *)
(* it is drawn, in the layout for presentation; no kernel and no copy have *)
(* a shared texture at a time (vk-surface.cpp:543-585,                     *)
(* cuda-surface.cpp:963-1190).                                             *)
THEOREM HandedOver == SurfacesConstants => (Spec => []ImagesHandedOver)
<1> SUFFICES ASSUME SurfacesConstants PROVE Spec => []ImagesHandedOver
  OBVIOUS
<1>1. SurfaceInv /\ HandInv => ImagesHandedOver
  BY HandedOverInState
<1>2. QED
  BY <1>1, HandSafe, PTL
=============================================================================
