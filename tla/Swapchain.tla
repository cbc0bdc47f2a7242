------------------------------ MODULE Swapchain -----------------------------
(***************************************************************************)
(* A Vulkan swapchain with the synchronization objects of its frames, as   *)
(* vulkan/vk-surface.cpp and cuda/cuda-surface.cpp both create and destroy *)
(* them, and the device and presentation engine that use them.             *)
(*                                                                         *)
(* There is a frame for each image.  A frame has a fence and a binary      *)
(* semaphore signalled when an image becomes available; an image has the   *)
(* semaphore its presentation waits for.                                   *)
(***************************************************************************)
EXTENDS SurfaceClient

VARIABLES swapchain,  \* there is one
          frame,      \* m_currentFrameIndex
          current,    \* m_currentTextureIndex, m_currentSwapchainImageIndex
          fence,      \* the fence of a frame is signalled
          semaphore,  \* signals less waits of a semaphore
          image,      \* who has an image: "free", "acquired", "queued"
          layout,     \* the layout an image is in
          acquiring,  \* acquired images that are still to become available
          queue,      \* submissions the device has not finished
          presents    \* of each image: what its presentations still wait for

indices == <<swapchain, frame, current>>
device == <<fence, semaphore, image, layout, acquiring, queue, presents>>

Semaphores == {"available", "finished"} \X Images

Available(f) == <<"available", f>>

(* Mutant: the semaphore of the frame that is rendered.                    *)
FinishedOfFrame(i) == <<"finished", frame>>

Finished(i) == <<"finished", i>>

Pristine ==
    [fence |-> [f \in Images |-> TRUE],
     semaphore |-> [s \in Semaphores |-> 0],
     image |-> [i \in Images |-> "free"],
     layout |-> [i \in Images |-> "undefined"]]

SwapchainInit ==
    /\ swapchain = FALSE /\ frame = 0 /\ current = None
    /\ fence = Pristine.fence /\ semaphore = Pristine.semaphore
    /\ image = Pristine.image /\ layout = Pristine.layout
    /\ acquiring = {} /\ queue = <<>>
    /\ presents = [i \in Images |-> <<>>]

-----------------------------------------------------------------------------
(* vkQueueWaitIdle: what was submitted is finished, and the semaphores of  *)
(* presentations are consumed.                                             *)
(* Mutant: does not wait.                                                  *)
NeverWaits == TRUE

WaitIdle == queue = <<>> /\ \A i \in Images : presents[i] = <<>>

(* destroySwapchain() of configure() and unconfigure().  The semaphores go *)
(* with the frames, and with them the signals of acquisitions that         *)
(* vkQueueWaitIdle() does not wait for.                                    *)
DestroySwapchain ==
    /\ host \in {"configure", "unconfigure"}
    /\ WaitIdle
    /\ swapchain' = FALSE
    /\ current' = None
    /\ acquiring' = {}
    /\ IF host = "configure" THEN Enter("create") ELSE Unconfigured
    /\ UNCHANGED <<backend, frame, fence, semaphore, image, layout, queue, presents>>

(* createSwapchain().  When it fails, what it made so far is destroyed by  *)
(* the next configure().                                                   *)
CreateSwapchain ==
    /\ host = "create"
    /\ \/ /\ swapchain' = TRUE
          /\ frame' = 0
          /\ fence' = Pristine.fence /\ semaphore' = Pristine.semaphore
          /\ image' = Pristine.image /\ layout' = Pristine.layout
          /\ Configured(TRUE)
       \/ /\ Configured(FALSE)
          /\ UNCHANGED <<swapchain, frame, fence, semaphore, image, layout>>
    /\ UNCHANGED <<backend, current, acquiring, queue, presents>>

(* The engine names an image the client does not have.  It may still have  *)
(* presentations ahead; the semaphore tells when they are over.            *)
Acquirable(i) == image[i] # "acquired" /\ \A a \in acquiring : a.image # i

AcquireImage(i) ==
    /\ Acquirable(i)
    /\ image' = [image EXCEPT ![i] = "acquired"]
    /\ acquiring' = acquiring \cup
          {[image |-> i, signals |-> Available(frame), ahead |-> Len(presents[i])]}
    /\ current' = i

(* The fence of the current frame, waited for and reset.                   *)
FrameFinished == fence[frame]
ResetFence == fence' = [fence EXCEPT ![frame] = FALSE]

(* The swapchain is out of date.  That it is does not help a client that   *)
(* waits for an image in vain.                                             *)
AcquireFails ==
    /\ \E i \in Images : Acquirable(i)
    /\ current' = None
    /\ UNCHANGED <<image, acquiring>>

(* vkQueuePresentKHR: its wait happens even when it reports that the       *)
(* swapchain is out of date.                                               *)
QueuePresent ==
    /\ presents' = [presents EXCEPT ![current] = Append(@, Finished(current))]
    /\ image' = [image EXCEPT ![current] = "queued"]

-----------------------------------------------------------------------------
(* The device and the engine.                                              *)
Ready(waits) == \A s \in waits : semaphore[s] >= 1

Executable == queue # <<>> /\ Ready(Head(queue).waits)

Execute ==
    /\ Executable
    /\ LET e == Head(queue) IN
          /\ semaphore' = [s \in Semaphores |->
                 semaphore[s] - (IF s \in e.waits THEN 1 ELSE 0)
                              + (IF s \in e.signals THEN 1 ELSE 0)]
          /\ fence' = [f \in Images |-> fence[f] \/ f = e.fence]
          /\ layout' = [i \in Images |-> IF i = e.image THEN "present" ELSE layout[i]]
    /\ queue' = Tail(queue)
    /\ UNCHANGED <<backend, client, indices, image, acquiring, presents>>

(* The engine shows images in the order it likes, as it may in mailbox     *)
(* mode; those of one image come one after the other.                      *)
Showable(i) == presents[i] # <<>> /\ Ready({Head(presents[i])})

Show(i) ==
    /\ Showable(i)
    /\ LET waits == Head(presents[i])
           rest == Tail(presents[i])
       IN /\ semaphore' = [semaphore EXCEPT ![waits] = @ - 1]
          /\ presents' = [presents EXCEPT ![i] = rest]
          /\ image' = [image EXCEPT ![i] = IF @ = "queued" /\ rest = <<>> THEN "free" ELSE @]
          /\ acquiring' = {IF a.image = i /\ a.ahead > 0 THEN [a EXCEPT !.ahead = @ - 1] ELSE a : a \in acquiring}
    /\ UNCHANGED <<backend, client, indices, fence, layout, queue>>

BecomeAvailable(a) ==
    /\ a \in acquiring
    /\ a.ahead = 0
    /\ semaphore' = [semaphore EXCEPT ![a.signals] = @ + 1]
    /\ acquiring' = acquiring \ {a}
    /\ UNCHANGED <<backend, client, indices, fence, image, layout, queue, presents>>

Engine == Execute \/ (\E i \in Images : Show(i)) \/ (\E a \in acquiring : BecomeAvailable(a))
=============================================================================
