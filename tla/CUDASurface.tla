----------------------------- MODULE CUDASurface ----------------------------
(***************************************************************************)
(* The surface of the CUDA backend (cuda/cuda-surface.cpp): a Vulkan       *)
(* swapchain, and for each frame a texture shared with CUDA that the       *)
(* client gets instead of the image.  present() waits for the CUDA stream  *)
(* and submits the frame's command buffer, which copies the texture to the *)
(* image.  The timeline semaphore the copy waits for as well was signalled *)
(* by the host before and is left out.                                     *)
(***************************************************************************)
EXTENDS Swapchain

CONSTANT MaxWrites  \* bound: kernels on the stream

VARIABLES stream,  \* kernels that are not finished, each with the frame it writes
          known    \* m_swapchainImageLayouts

cuda == <<stream, known>>

CudaBeginAcquire ==
    /\ MayAcquire
    /\ Enter("acquire")
    /\ UNCHANGED <<backend, indices, device, cuda>>

CudaAcquire ==
    /\ host = "acquire"
    /\ FrameFinished
    /\ ResetFence
    /\ \/ (\E i \in Images : AcquireImage(i)) /\ Returns("ImageAcquired", TRUE)
       \/ AcquireFails /\ Returns("ImageAcquired", FALSE)
    /\ UNCHANGED <<backend, swapchain, frame, semaphore, layout, queue, presents, cuda>>

(* A submit() of the client: a kernel writes the texture it acquired.      *)
LaunchKernel ==
    /\ InFrame
    /\ Len(stream) < MaxWrites
    /\ stream' = Append(stream, frame)
    /\ UNCHANGED <<backend, client, indices, device, known>>

KernelFinishes ==
    /\ stream # <<>>
    /\ stream' = Tail(stream)
    /\ UNCHANGED <<backend, client, indices, device, known>>

CudaBeginPresent ==
    /\ InFrame
    /\ current # None
    /\ Enter("present")
    /\ UNCHANGED <<backend, indices, device, cuda>>

(* Mutant: does not wait for the stream.                                   *)
StreamIgnored == TRUE

StreamSynchronized == stream = <<>>

CopyToImage ==
    [waits |-> {Available(frame)}, signals |-> {Finished(current)}, fence |-> frame,
     image |-> current, reads |-> frame, from |-> known[current]]

(* present() goes to the next frame before anything can fail.              *)
CudaPresent ==
    /\ host = "present"
    /\ StreamSynchronized
    /\ frame' = Following(frame)
    /\ \/ /\ queue' = Append(queue, CopyToImage)
          /\ QueuePresent
          /\ \/ known' = [known EXCEPT ![current] = "present"] /\ Returns("ImagePresented", TRUE)
             \/ UNCHANGED known /\ Returns("ImagePresented", FALSE)
       \/ /\ Returns("ImagePresented", FALSE)
          /\ UNCHANGED <<queue, presents, image, known>>
    /\ UNCHANGED <<backend, swapchain, current, fence, semaphore, layout, acquiring, stream>>

(* With the swapchain the layouts that are known of its images go; a new   *)
(* one comes with a shared texture, its command buffer and its semaphores  *)
(* for each frame.                                                         *)
CudaDestroySwapchain ==
    /\ DestroySwapchain
    /\ known' = Pristine.layout
    /\ UNCHANGED stream

CudaCreateSwapchain == CreateSwapchain /\ UNCHANGED cuda

CudaCalls == CudaBeginAcquire \/ LaunchKernel \/ CudaBeginPresent
=============================================================================
