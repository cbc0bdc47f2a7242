------------------------------ MODULE MetalQueue ----------------------------
(***************************************************************************)
(* The command queue of Metal (src/src/metal/metal-command.cpp:1132-1450). *)
(* There is no pool: each encoder makes a new buffer.  Each command buffer *)
(* is committed by itself, the last of a submission signals the ID through *)
(* m_trackingEvent, and its status says that it is completed some time     *)
(* later.  Buffers are retired by status, resources deleted by the event.  *)
(***************************************************************************)
EXTENDS CommandQueue

(* The command buffers of a submission, in the order they were put in      *)
(* flight, or an empty one.                                                *)
Committed(bs) ==
    LET s == EntriesIn(inFlight, bs)
    IN  IF bs = {} THEN << Work(lastSubmitted, {}, TRUE, Default) >>
        ELSE [i \in DOMAIN s |-> Work(lastSubmitted, {s[i]}, i = Len(s), Default)]

(* Without command buffers submit() makes one to signal the ID, which may  *)
(* fail after the ID was taken.                                            *)
Commit ==
    /\ pc = "send"
    /\ \/ /\ gpu' = gpu \o Committed(sending)
          /\ pc' = "retire"
       \/ SubmitMayFail /\ sending = {} /\ pc' = "idle" /\ UNCHANGED gpu
    /\ sending' = {}
    /\ UNCHANGED <<lists, submissionID, lastSubmitted, lastFinished, deferred,
                   recording, tracked, owned, resource, stream, semaphore, events,
                   sinceEvent, device>>

Completed(b) == \A i \in DOMAIN gpu : b \notin gpu[i].buffers

(* waitOnHost(): for the event first, then for each buffer in flight.      *)
MetalWaitOnHost ==
    /\ pc = "idle"
    /\ deviceHeld
    /\ semaphore >= lastSubmitted
    /\ \A b \in Range(inFlight) : Completed(b)
    /\ pc' = "retire"
    /\ UNCHANGED <<lists, submissionID, lastSubmitted, lastFinished, deferred,
                   recording, tracked, owned, resource, sending, stream,
                   timeline, device>>

MetalRetireCommandBuffers ==
    LET done == EntriesIn(inFlight, {b \in Buffers : Completed(b)}) IN
    /\ pc = "retire"
    /\ pc' = "idle"
    /\ Retire(done, semaphore, pool)
    /\ UNCHANGED <<lastSubmitted, encoding, handles, unsubmitted, owned, sending,
                   stream, timeline, device>>

(* The GPU has executed the oldest command buffer, which signals its ID if *)
(* it is the last of its submission ...                                    *)
GpuSignal ==
    /\ gpu # <<>>
    /\ Head(gpu).signals
    /\ gpu' = [gpu EXCEPT ![1].signals = FALSE, ![1].uses = {}]
    /\ semaphore' = Head(gpu).id
    /\ UNCHANGED <<lists, submissionID, lastSubmitted, lastFinished, deferred,
                   recording, tracked, owned, resource, submitter, events,
                   sinceEvent, device>>

(* ... and is then completed.                                              *)
GpuComplete ==
    /\ gpu # <<>>
    /\ ~Head(gpu).signals
    /\ gpu' = Tail(gpu)
    /\ UNCHANGED <<lists, submissionID, lastSubmitted, lastFinished, deferred,
                   recording, tracked, owned, resource, submitter, semaphore,
                   events, sinceEvent, device>>

MetalDestroyDevice ==
    /\ gpu = <<>>
    /\ semaphore >= lastSubmitted
    /\ ShutDown(semaphore)
    /\ UNCHANGED <<lastSubmitted, timeline>>

MetalClientStep ==
    \/ \E b \in Buffers : CreateEncoder(b) \/ DropEncoder(b)
    \/ \E bs \in SUBSET Buffers : BeginSubmit(bs)
    \/ MetalWaitOnHost

MetalSubmitterStep == Commit \/ MetalRetireCommandBuffers

MetalGpuStep == GpuSignal \/ GpuComplete
=============================================================================
