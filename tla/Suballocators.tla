---------------------------- MODULE Suballocators --------------------------
(* The three places that cut memory out of pages: the staging heap, the     *)
(* heap of constant buffers, and the heaps of device memory.  They share no *)
(* state, so a behaviour exercises one of them, `subject', and the others   *)
(* stay as they were created.  All three keep the same promise,             *)
(* RangeAllocator.                                                          *)
EXTENDS Integers, TLC

CONSTANTS Threads, Allocs, Pages, None, PageSize, Granularity, Sizes, Aligns, MaxLeaked
CONSTANTS Buffers, MaxPages, MaxAllocations, BindingSizes, Alignment, InitialPageSize,
          MaxPageSize, MaxRetainedSize, InitialChunkSize, MaxChunkSize
CONSTANTS HeapAllocs, CudaStreams, HeapPageSize, Requests, CudaAlignment,
          MaxHeapPages, MaxHeapSubmits, MaxHeld

VARIABLES keepPagesMapped, pages, nodes, used, capacity, lockedTo, mapped, totalUsed,
          totalCapacity, where, request, mapping, leaked, released
VARIABLES heap, arena, given, phase, inFlight, finished, retiring, queue
VARIABLES deviceHeap, allocated, client, works, submitted, noticed
VARIABLE subject

Staging == INSTANCE StagingHeap
Transient == INSTANCE TransientHeap
Device == INSTANCE DeviceHeap

ASSUME Staging!StagingHeapConstants
ASSUME Transient!TransientHeapConstants
ASSUME Device!DeviceHeapConstants

stagingVars == <<keepPagesMapped, pages, nodes, used, capacity, lockedTo, mapped,
                 totalUsed, totalCapacity, where, request, mapping, leaked, released>>
transientVars == <<heap, arena, given, phase, inFlight, finished, retiring, queue>>
deviceVars == <<deviceHeap, allocated, client, works, submitted, noticed>>
vars == <<stagingVars, transientVars, deviceVars, subject>>

Init ==
    /\ subject \in {"staging", "transient", "device"}
    /\ Staging!Init /\ (subject # "staging" => ~keepPagesMapped)
    /\ Transient!Init
    /\ Device!Init /\ (subject # "device" => deviceHeap.backend = "Vulkan")

Next ==
    /\ \/ /\ subject = "staging"
          /\ Staging!Next
          /\ UNCHANGED <<keepPagesMapped, transientVars, deviceVars>>
       \/ /\ subject = "transient"
          /\ Transient!Next
          /\ UNCHANGED <<stagingVars, deviceVars>>
       \/ /\ subject = "device"
          /\ Device!Next
          /\ UNCHANGED <<stagingVars, transientVars>>
    /\ UNCHANGED subject

Spec == Init /\ [][Next]_vars
----------------------------------------------------------------------------
(* Properties. *)

\* Every variable has its type.
TypeOK == Staging!TypeOK /\ Transient!TypeOK /\ Device!TypeOK

\* The memory of a page is partitioned: the lists of staging pages and the
\* linked nodes of device pages tile them, free neighbours are merged, and
\* every free node of a device page is in the bin of its size
\* (staging-heap.cpp:383-415, core/offset-allocator.cpp:295-455).
PagesTiled == Staging!PagesTiled /\ Device!PagesTiled

\* What the heaps count is what is allocated, whatever failed in between:
\* the totals of the staging heap, the chunks leased from transient pages,
\* the used nodes, pages, cached pages and pending frees of a device heap.
\* When the device goes, the staging heap and the transient heap count
\* nothing (the assertions of staging-heap.cpp:40-41 and of release() in
\* transient-buffer-heap.cpp), but for what a caller lost track of.
AccountsAgree ==
    /\ Staging!TotalsAgree /\ Staging!ReleasedEmpty
    /\ Transient!AccountsAgree /\ Transient!ReleasedEmpty
    /\ Device!AccountsAgree

\* An allocation is as large and as aligned as was asked for and within its
\* page (staging-heap.cpp:323-345, heap.cpp:39-68); without kept mappings its
\* staging page serves one thread at a time (the assertions of Page::map and
\* Page::unmap, staging-heap.cpp:417-434).
RequestsHonoured ==
    /\ Staging!RequestsHonoured /\ Staging!MappedByOne
    /\ Device!RequestsHonoured

\* Empty pages are kept within bounds: one of the standard size by the
\* staging heap, the retention budget by the transient heap, which is used
\* before pages are dropped (staging-heap.cpp:220-237,
\* trimRetainedPagesLocked() of transient-buffer-heap.cpp).
RetentionBounded ==
    /\ [][Staging!OneEmptyPage']_stagingVars
    /\ Transient!TrimmedToBudget

\* With Vulkan, memory that a submission still uses belongs to no other
\* allocation of a device heap and its page stays (vk-heap.cpp:83-132).
GpuRangesApart == Device!GpuRangesApart

\* Each of the heaps hands out disjoint ranges that stay until given back.
ImplementsRanges ==
    Staging!ImplementsRanges /\ Transient!ImplementsRanges /\ Device!ImplementsRanges
-----------------------------------------------------------------------------
(* Instances for TLC.  Small requests share pages of 32 units.  17 has no  *)
(* bin size of its own: a free node of 16 is in the bin next to it.  CUDA  *)
(* aligns all alike.                                                       *)
SmallAndLarge == {[size |-> 8, align |-> 1], [size |-> 17, align |-> 1]}

RequestsOfClients ==
    [CUDA |-> SmallAndLarge, Vulkan |-> SmallAndLarge \cup {[size |-> 8, align |-> 8]}]

HeldByBackend == [Vulkan |-> 2, CUDA |-> 2]

(* Threads, command buffers and streams are the same two values, and both  *)
(* kinds of allocations the same three: one heap at a time uses them.      *)
Interchangeable == Permutations(Threads) \cup Permutations(Allocs) \cup Permutations(Pages)
=============================================================================
