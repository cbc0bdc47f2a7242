---------------------------- MODULE CommandQueue ----------------------------
(***************************************************************************)
(* What the command queues of Vulkan, D3D12, Metal and CUDA have in        *)
(* common: command buffers that are recorded, submitted, retired and, but  *)
(* for Metal, reused; resources whose deletion waits for the GPU; the      *)
(* device that lives as long as somebody holds a strong reference to it.   *)
(* VulkanQueue, D3D12Queue, MetalQueue and CUDAQueue add how each submits, *)
(* waits and retires; CommandQueues has them side by side.                 *)
(*                                                                         *)
(* Actors: one thread that submits and waits (the in-flight list and the   *)
(* IDs are not synchronised, so clients serialise those calls), any number *)
(* of threads that encode and release, and the GPU.  deferDelete() is      *)
(* split after the queue's mutex is dropped.                               *)
(*                                                                         *)
(* A command records a use of a resource in one of two ways: the encoder   *)
(* tracks it (m_trackedObjects), or the shader reaches it through a        *)
(* bindless handle or an address, and then the client keeps it alive until *)
(* the work is submitted.                                                  *)
(***************************************************************************)
EXTENDS Integers, SequencesExt, FiniteSets

CONSTANTS Backends,        \* which of the four queues
          Buffers, Resources,
          Streams,         \* CUDA: streams of clients
          StreamsBlock,    \* CUDA: they synchronise with the default stream
          LastID,          \* bound: the IDs a queue hands out
          Made,            \* bound: how many resources the client makes
          MaxHandles,      \* bound: handles of one buffer a client holds
          MaxWithoutEvent, \* CUDA: kMaxSubmitsWithoutEvent
          SubmitMayFail    \* driver calls of a submission may fail

Default == "default"       \* the queue's own stream

ASSUME CommandQueueAssumption ==
    /\ Backends \subseteq {"Vulkan", "D3D12", "Metal", "CUDA"}
    /\ IsFiniteSet(Buffers) /\ IsFiniteSet(Resources)
    /\ LastID \in [Backends -> Nat]
    /\ Made \in [Backends -> 0..Cardinality(Resources)]
    /\ MaxHandles \in Nat \ {0}
    /\ MaxWithoutEvent \in Nat
    /\ Default \notin Streams
    /\ {StreamsBlock, SubmitMayFail} \subseteq BOOLEAN

VARIABLES backend,       \* the queue's backend, which never changes
          pool,          \* m_commandBuffersPool
          inFlight,      \* m_commandBuffersInFlight
          submissionID,  \* CommandBufferImpl::m_submissionID
          lastSubmitted, \* m_lastSubmittedID
          lastFinished,  \* m_lastFinishedID
          deferred,      \* m_deferredDeleteQueue
          encoding,      \* buffers an encoder holds
          handles,       \* client references to a buffer
          unsubmitted,   \* finished and not yet given to submit()
          tracked,       \* m_trackedObjects of a buffer
          recorded,      \* every resource its commands use
          owned,         \* resources a client holds
          resource,      \* "live", "pushed", "deferred" or "deleted"
          pc,            \* where the submitting thread is
          sending,       \* buffers of the submit() in progress, to be sent
          stream,        \* CUDA: the stream of the submit() in progress
          gpu,           \* what the GPU has to do
          semaphore,     \* value of the semaphore, fence or event it signals
          events,        \* CUDA: IDs in m_submitEvents
          sinceEvent,    \* CUDA: m_submitsSinceEvent
          deviceHeld,    \* a client holds the device or its queue
          destroyed      \* ~DeviceImpl ran

lists == <<pool, inFlight>>
recording == <<encoding, handles, unsubmitted, recorded>>
submitter == <<pc, sending, stream>>
timeline == <<gpu, semaphore, events, sinceEvent>>
device == <<backend, deviceHeld, destroyed>>
vars == <<lists, submissionID, lastSubmitted, lastFinished, deferred, recording,
          tracked, owned, resource, submitter, timeline, device>>

-----------------------------------------------------------------------------
Alive(b) == b \in encoding \cup Range(pool) \cup Range(inFlight) \/ handles[b] > 0

(* Used without being tracked.                                             *)
Raw(b) == recorded[b] \ tracked[b]

(* Mutant: the references of clients are not counted.                      *)
LastTracked(bs) ==
    {r \in UNION {tracked[b] : b \in bs} : \A b \in Buffers \ bs : r \notin tracked[b]}

(* Resources whose last reference goes when the buffers bs let go of what  *)
(* they track.                                                             *)
LastReferenced(bs) ==
    {r \in UNION {tracked[b] : b \in bs} :
        /\ r \notin owned
        /\ \A b \in Buffers \ bs : r \notin tracked[b]}

(* Mutant: tagged with what has finished instead of what was submitted.    *)
DeferIDFinished == lastFinished

DeferID == lastSubmitted

(* deferDelete() of a set of resources, in any order.                      *)
Deferred(rs) ==
    {[i \in DOMAIN s |-> [id |-> DeferID, res |-> s[i]]] : s \in SetToSeqs(rs)}

(* Metal counts its submissions from 1.                                    *)
FirstID(q) == IF q = "Metal" THEN 1 ELSE 0

Init ==
    /\ backend \in Backends
    /\ pool = <<>>
    /\ inFlight = <<>>
    /\ submissionID = [b \in Buffers |-> 0]
    /\ lastSubmitted = FirstID(backend)
    /\ lastFinished = FirstID(backend)
    /\ deferred = <<>>
    /\ encoding = {}
    /\ handles = [b \in Buffers |-> 0]
    /\ unsubmitted = {}
    /\ tracked = [b \in Buffers |-> {}]
    /\ recorded = [b \in Buffers |-> {}]
    /\ owned \in kSubset(Made[backend], Resources)
    /\ resource = [r \in Resources |-> IF r \in owned THEN "live" ELSE "deleted"]
    /\ pc = "idle"
    /\ sending = {}
    /\ stream = Default
    /\ gpu = <<>>
    /\ semaphore = FirstID(backend)
    /\ events = <<>>
    /\ sinceEvent = 0
    /\ deviceHeld = TRUE
    /\ destroyed = FALSE

-----------------------------------------------------------------------------
(* Mutant: handed out and left in the pool.                                *)
PoolNotPopped == pool

PoolAfterTake == IF pool = <<>> THEN pool ELSE Tail(pool)

(* createCommandEncoder(): a buffer from the front of the pool, or a new   *)
(* one.                                                                    *)
CreateEncoder(b) ==
    /\ deviceHeld
    /\ IF pool = <<>> THEN ~Alive(b) ELSE b = Head(pool)
    /\ pool' = PoolAfterTake
    /\ encoding' = encoding \cup {b}
    /\ UNCHANGED <<inFlight, submissionID, lastSubmitted, lastFinished, deferred,
                   handles, unsubmitted, tracked, recorded, owned, resource,
                   submitter, timeline, device>>

RecordTracked(b, r) ==
    /\ b \in encoding
    /\ r \in owned
    /\ r \notin recorded[b]
    /\ tracked' = [tracked EXCEPT ![b] = @ \cup {r}]
    /\ recorded' = [recorded EXCEPT ![b] = @ \cup {r}]
    /\ UNCHANGED <<lists, submissionID, lastSubmitted, lastFinished, deferred,
                   encoding, handles, unsubmitted, owned, resource, submitter,
                   timeline, device>>

RecordRaw(b, r) ==
    /\ b \in encoding
    /\ r \in owned
    /\ r \notin recorded[b]
    /\ recorded' = [recorded EXCEPT ![b] = @ \cup {r}]
    /\ UNCHANGED <<lists, submissionID, lastSubmitted, lastFinished, deferred,
                   encoding, handles, unsubmitted, tracked, owned, resource,
                   submitter, timeline, device>>

FinishEncoder(b) ==
    /\ b \in encoding
    /\ handles[b] < MaxHandles
    /\ encoding' = encoding \ {b}
    /\ handles' = [handles EXCEPT ![b] = @ + 1]
    /\ unsubmitted' = unsubmitted \cup {b}
    /\ UNCHANGED <<lists, submissionID, lastSubmitted, lastFinished, deferred,
                   tracked, recorded, owned, resource, submitter, timeline, device>>

(* The resets of buffers that may be done: with Vulkan and D3D12 a call of *)
(* the driver may fail, and then the buffer keeps what it tracks.          *)
Resets(bs) == IF backend \in {"Vulkan", "D3D12"} THEN SUBSET bs ELSE {bs}

(* CommandBufferImpl::reset() of the buffers in ok, deferring the          *)
(* resources nobody else holds.                                            *)
ResetBuffers(ok) ==
    LET gone == LastReferenced(ok) IN
    /\ tracked' = [b \in Buffers |-> IF b \in ok THEN {} ELSE tracked[b]]
    /\ submissionID' = [b \in Buffers |-> IF b \in ok /\ backend = "CUDA" THEN 0
                                          ELSE submissionID[b]]
    /\ \E d \in Deferred(gone) : deferred' = deferred \o d
    /\ resource' = [r \in Resources |-> IF r \in gone THEN "deferred" ELSE resource[r]]

(* ~CommandEncoderImpl() of an encoder that was not finished: its buffer   *)
(* goes back into the pool.  Metal has none and deletes it.                *)
DropEncoder(b) ==
    /\ b \in encoding
    /\ \E ok \in Resets({b}) : ResetBuffers(ok)
    /\ encoding' = encoding \ {b}
    /\ recorded' = [recorded EXCEPT ![b] = {}]
    /\ pool' = IF backend = "Metal" THEN pool ELSE Append(pool, b)
    /\ UNCHANGED <<inFlight, lastSubmitted, lastFinished, handles, unsubmitted,
                   owned, submitter, timeline, device>>

(* A client drops a command buffer.  If nobody else holds it, it is        *)
(* deleted with everything it tracks.                                      *)
ReleaseBuffer(b) ==
    LET last == handles[b] = 1 /\ b \notin Range(pool) \cup Range(inFlight) \cup encoding
    IN
    /\ handles[b] > 0
    /\ b \notin sending
    /\ handles' = [handles EXCEPT ![b] = @ - 1]
    /\ IF last
       THEN /\ ResetBuffers({b})
            /\ unsubmitted' = unsubmitted \ {b}
            /\ recorded' = [recorded EXCEPT ![b] = {}]
       ELSE UNCHANGED <<tracked, submissionID, deferred, resource, unsubmitted, recorded>>
    /\ UNCHANGED <<lists, lastSubmitted, lastFinished, encoding, owned,
                   submitter, timeline, device>>

(* A client drops a resource: not before work that reaches it untracked    *)
(* is submitted.  The last reference pushes it on the deferred queue ...   *)
ReleaseResource(r) ==
    LET last == \A b \in Buffers : r \notin tracked[b] IN
    /\ r \in owned
    /\ \A b \in encoding \cup unsubmitted \cup sending : r \notin Raw(b)
    /\ owned' = owned \ {r}
    /\ \E d \in Deferred({r}) : deferred' = IF last THEN deferred \o d ELSE deferred
    /\ resource' = IF last THEN [resource EXCEPT ![r] = "pushed"] ELSE resource
    /\ UNCHANGED <<lists, submissionID, lastSubmitted, lastFinished, recording,
                   tracked, submitter, timeline, device>>

(* ... and then breaks the resource's reference to the device.             *)
BreakDeviceReference(r) ==
    /\ resource[r] = "pushed"
    /\ resource' = [resource EXCEPT ![r] = "deferred"]
    /\ UNCHANGED <<lists, submissionID, lastSubmitted, lastFinished, deferred,
                   recording, tracked, owned, submitter, timeline, device>>

(* The client drops its last device and queue references; from here on it  *)
(* only drops what else it holds.                                          *)
ReleaseDevice ==
    /\ deviceHeld
    /\ pc = "idle"
    /\ deviceHeld' = FALSE
    /\ UNCHANGED <<lists, submissionID, lastSubmitted, lastFinished, deferred,
                   recording, tracked, owned, resource, submitter, timeline,
                   backend, destroyed>>

-----------------------------------------------------------------------------
(* submit(), up to the call that gives the work to the driver.             *)
BeginSubmit(bs) ==
    /\ pc = "idle"
    /\ deviceHeld
    /\ lastSubmitted < LastID[backend]
    /\ bs \subseteq unsubmitted
    /\ lastSubmitted' = lastSubmitted + 1
    /\ submissionID' = [b \in Buffers |-> IF b \in bs THEN lastSubmitted + 1
                                          ELSE submissionID[b]]
    /\ \E s \in SetToSeqs(bs) : inFlight' = inFlight \o s
    /\ unsubmitted' = unsubmitted \ bs
    /\ sending' = bs
    /\ pc' = "send"
    /\ UNCHANGED <<pool, lastFinished, deferred, encoding, handles, tracked,
                   recorded, owned, resource, stream, timeline, device>>

(* What the driver is given: the commands of bs under an ID, and whether   *)
(* it signals the ID when they are done.                                   *)
Work(id, bs, signals, s) ==
    [id |-> id, buffers |-> bs, uses |-> UNION {recorded[b] : b \in bs},
     signals |-> signals, stream |-> s]

(* The entries of s that are in S, in their order.                         *)
EntriesIn(s, S) ==
    LET at == {i \in DOMAIN s : s[i] \in S}
        before(i) == {j \in at : j < i}
    IN  [n \in 1..Cardinality(at) |->
            s[CHOOSE i \in at : Cardinality(before(i)) = n - 1]]

(* How many entries from the front of a queue executeDeferredDeletes()     *)
(* deletes.                                                                *)
DeletablePrefix(q, finished) ==
    CHOOSE n \in 0..Len(q) :
        /\ \A i \in 1..n : q[i].id <= finished
        /\ n < Len(q) => q[n + 1].id > finished

(* retireCommandBuffers(): the buffers done are reset and leave the        *)
(* in-flight list, and executeDeferredDeletes() follows.                   *)
Retire(done, finished, newPool) ==
    /\ inFlight' = EntriesIn(inFlight, Buffers \ Range(done))
    /\ pool' = newPool
    /\ lastFinished' = finished
    /\ recorded' = [b \in Buffers |-> IF b \in Range(done) THEN {} ELSE recorded[b]]
    /\ \E ok \in Resets(Range(done)) : \E d \in Deferred(LastReferenced(ok)) :
          LET gone == LastReferenced(ok)
              queue == deferred \o d
              n == DeletablePrefix(queue, finished)
              deleted == {queue[i].res : i \in 1..n}
          IN
          /\ tracked' = [b \in Buffers |-> IF b \in ok THEN {} ELSE tracked[b]]
          /\ submissionID' = [b \in Buffers |->
                                 IF b \in ok /\ backend = "CUDA" THEN 0
                                 ELSE submissionID[b]]
          /\ deferred' = SubSeq(queue, n + 1, Len(queue))
          /\ resource' = [r \in Resources |->
                             IF r \in deleted THEN "deleted"
                             ELSE IF r \in gone THEN "deferred" ELSE resource[r]]

-----------------------------------------------------------------------------
(* Mutant: resources do not keep their device.                             *)
ReferencedByBuffers ==
    \/ deviceHeld
    \/ encoding # {} \/ inFlight # <<>> \/ (\E b \in Buffers : handles[b] > 0)

(* Mutant: a pooled buffer keeps its device.                               *)
ReferencedByPool ==
    \/ deviceHeld \/ pool # <<>>
    \/ encoding # {} \/ inFlight # <<>> \/ (\E b \in Buffers : handles[b] > 0)
    \/ \E r \in Resources : resource[r] \in {"live", "pushed"}

(* Who holds a strong reference to the device: every buffer but a pooled   *)
(* one that no client holds, and every resource that was not deferred.     *)
DeviceReferenced ==
    \/ deviceHeld
    \/ encoding # {} \/ inFlight # <<>> \/ (\E b \in Buffers : handles[b] > 0)
    \/ \E r \in Resources : resource[r] \in {"live", "pushed"}

(* ~DeviceImpl() and CommandQueueImpl::shutdown() after the wait at its    *)
(* beginning, when everything up to an ID is finished.                     *)
ShutDown(finished) ==
    LET n == DeletablePrefix(deferred, finished) IN
    /\ ~destroyed
    /\ ~DeviceReferenced
    /\ destroyed' = TRUE
    /\ lastFinished' = finished
    /\ pool' = <<>>
    /\ inFlight' = <<>>
    /\ deferred' = SubSeq(deferred, n + 1, Len(deferred))
    /\ resource' = [r \in Resources |->
                       IF \E i \in 1..n : deferred[i].res = r THEN "deleted"
                       ELSE resource[r]]
    /\ UNCHANGED <<submissionID, recording, tracked, owned, submitter, backend, deviceHeld>>

-----------------------------------------------------------------------------
Submission == [id : Nat, buffers : SUBSET Buffers, uses : SUBSET Resources,
               signals : BOOLEAN, stream : Streams \cup {Default}]

(* The types of the variables.                                             *)
TypeOK ==
    /\ backend \in Backends
    /\ pool \in Seq(Buffers)
    /\ inFlight \in Seq(Buffers)
    /\ submissionID \in [Buffers -> Nat]
    /\ lastSubmitted \in Nat
    /\ lastFinished \in 0..lastSubmitted
    /\ deferred \in Seq([id : Nat, res : Resources])
    /\ encoding \subseteq Buffers
    /\ handles \in [Buffers -> 0..MaxHandles]
    /\ unsubmitted \subseteq Buffers
    /\ tracked \in [Buffers -> SUBSET Resources]
    /\ recorded \in [Buffers -> SUBSET Resources]
    /\ owned \subseteq Resources
    /\ resource \in [Resources -> {"live", "pushed", "deferred", "deleted"}]
    /\ pc \in {"idle", "send", "wait", "retire"}
    /\ sending \subseteq Buffers
    /\ stream \in Streams \cup {Default}
    /\ gpu \in Seq(Submission)
    /\ semaphore \in 0..lastSubmitted
    /\ events \in Seq(Nat)
    /\ sinceEvent \in 0..(MaxWithoutEvent + 1)
    /\ deviceHeld \in BOOLEAN
    /\ destroyed \in BOOLEAN

(* The deferred deletes are in the order of their IDs, none above the last *)
(* submitted, so stopping at the first that is not finished strands none;  *)
(* nothing is queued twice, and what is queued nobody refers to.           *)
DeferredInOrder ==
    /\ \A i, j \in DOMAIN deferred : i < j =>
          /\ deferred[i].id <= deferred[j].id
          /\ deferred[i].res # deferred[j].res
    /\ \A i \in DOMAIN deferred :
          /\ deferred[i].id <= lastSubmitted
          /\ deferred[i].res \notin owned \cup UNION Range(tracked)

(* No resource that a submission on the GPU uses is deleted, whether the   *)
(* command buffer tracks it or the client dropped it right after submit(): *)
(* the purpose of deferDelete() and of the IDs it records.  Nor is any     *)
(* kept for good: the deferred deletes are in order.                       *)
GpuResourcesAlive ==
    /\ \A i \in DOMAIN gpu : \A r \in gpu[i].uses : resource[r] # "deleted"
    /\ DeferredInOrder

(* A command buffer has one owner among the pool, the in-flight list, the  *)
(* encoders and the clients that have not submitted it; neither list holds *)
(* it twice.                                                               *)
OneOwner ==
    /\ IsInjective(pool) /\ IsInjective(inFlight)
    /\ LET owners == <<Range(pool), Range(inFlight), encoding, unsubmitted>>
       IN  \A i, j \in DOMAIN owners : i # j => owners[i] \cap owners[j] = {}

(* A command buffer the GPU is executing is in the in-flight list under    *)
(* that submission's ID, and so, as it has one owner, not in the pool and  *)
(* not in an encoder.                                                      *)
InFlightUntouched ==
    /\ \A i \in DOMAIN gpu : \A b \in gpu[i].buffers :
          b \in Range(inFlight) /\ submissionID[b] = gpu[i].id
    /\ OneOwner

(* The assertion at the end of shutdown(): no deferred delete is left when *)
(* the device is destroyed, and no resource survives it.                   *)
ShutdownLeavesNothing ==
    destroyed => deferred = <<>> /\ \A r \in Resources : resource[r] = "deleted"

(* It holds unless the last ID was never signalled: with Vulkan because    *)
(* that submission failed, with Vulkan and D3D12, which signals an ID of   *)
(* its own while it waits, because the wait failed.  Metal waits for the   *)
(* last one, CUDA takes everything as finished.                            *)
ShutdownAfterSuccess ==
    (backend \in {"Vulkan", "D3D12"} => semaphore = lastSubmitted) => ShutdownLeavesNothing

(* Nobody outside the device holds anything of it.                         *)
ClientGone ==
    /\ ~deviceHeld
    /\ owned = {}
    /\ encoding = {} /\ \A b \in Buffers : handles[b] = 0

(* Once the clients dropped everything and nothing is in flight, nothing   *)
(* holds the device: not the buffers in its pool, not the resources it is  *)
(* to delete (but a buffer whose reset failed keeps what it tracked).      *)
NoCycleLeft ==
    /\ ClientGone
    /\ inFlight = <<>>
    /\ \A b \in Buffers : tracked[b] = {}
    /\ \A r \in Resources : resource[r] # "pushed"
    => ~DeviceReferenced

(* The order of destruction does not matter: once the clients dropped      *)
(* everything, the device is destroyed.                                    *)
AnyOrderDestroyed == ClientGone ~> destroyed
=============================================================================
