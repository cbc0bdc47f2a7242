----------------------------- MODULE DeviceHeap ----------------------------
(* Heap (heap.cpp) with the heaps of the two backends that have one,        *)
(* vulkan/vk-heap.cpp and cuda/cuda-heap.cpp: memory in pages, each with an *)
(* OffsetAllocator over units of its alignment.  The GPU may still use what *)
(* a client frees: Vulkan keeps such a range until the submissions of the   *)
(* time have finished, CUDA relies on the order of its streams and on       *)
(* events, and keeps the pages it gives up in a cache.                      *)
(*                                                                          *)
(* The heap has no lock, its calls are steps.  Around it: submissions that  *)
(* use allocations, the GPU, which finishes those of a stream in order, and *)
(* the queue, which notices that.  A page that cannot be created fails the  *)
(* request.  Neither backend reports SLANG_E_OUT_OF_MEMORY, so the second   *)
(* attempt of allocate() is never made.                                     *)
EXTENDS OffsetAllocator

LOCAL INSTANCE SequencesExt
LOCAL INSTANCE FiniteSetsExt

CONSTANTS HeapAllocs,       \* identities of allocations
          CudaStreams,      \* streams that submissions and allocations name
          HeapPageSize,     \* size of a page and of the units of larger ones
          Requests,         \* what clients ask for, [size, align], by backend
          CudaAlignment,    \* the one alignment of CUDA's pages
          MaxHeapPages,     \* bound: pages at a time; a further one cannot be created
          MaxHeapSubmits,   \* bound: submissions
          MaxHeld           \* bound: allocations at a time, by backend

Backends == {"Vulkan", "CUDA"}
NoStream == "none"
NoAlloc == [space |-> 0]
PageIds == 1 .. MaxHeapPages

\* OffsetAllocators of fewer than four nodes refuse every request.
DeviceHeapConstants ==
    /\ Requests \in [Backends -> SUBSET [size : Nat \ {0}, align : Nat \ {0}]]
    /\ \A align \in {r.align : r \in Requests.Vulkan} \cup {CudaAlignment} :
          HeapPageSize % align = 0 /\ 4 * align <= HeapPageSize
    /\ HeapPageSize % 4 = 0
    /\ NoStream \notin CudaStreams

VARIABLES deviceHeap,  \* the fields of the HeapImpl
          allocated,   \* the HeapAlloc of each allocation not retired
          client,      \* allocations that clients have not freed
          works,       \* submissions the GPU has not finished
          submitted,   \* m_lastSubmittedID of the queue
          noticed      \* m_lastFinishedID of the queue

vars == <<deviceHeap, allocated, client, works, submitted, noticed>>
gpuVars == <<works, submitted, noticed>>

AlignUp(n, a) == ((n + a - 1) \div a) * a
backend == deviceHeap.backend
InUse == {a \in HeapAllocs : allocated[a] # NoAlloc}

----------------------------------------------------------------------------
(* Pages. *)

\* allocatePage(), the constructors of the pages and of their allocators.
NewPage(align, size, stream) ==
    [align |-> align, size |-> size, stream |-> stream, events |-> {},
     allocator |-> Reset(size \div align, size \div align)]

NoPage == [size |-> 0]

\* An event: a stream, and the submissions it had when it was recorded last.
OnStream(s) == {w.id : w \in {v \in works : v.stream = s}}
Pending(event) == \E w \in works : w.id \in event.after

\* PageImpl::canReuse()
CanReuse(page) == \A e \in page.events : ~Pending(e)

\* PageImpl::processEvents()
ProcessEvents(page) == [page EXCEPT !.events = {e \in @ : Pending(e)}]

\* PageImpl::recordStreamUse()
RecordStreamUse(page, s) ==
    [page EXCEPT !.events = {e \in @ : e.stream # s}
                            \cup {[stream |-> s, after |-> OnStream(s)]}]

\* notifyUse(): a page without a stream adopts the first one.
NotifyUse(page, s) ==
    IF backend # "CUDA" \/ s \in {NoStream, page.stream} THEN page
    ELSE IF page.stream = NoStream THEN [page EXCEPT !.stream = s]
    ELSE RecordStreamUse(page, s)

\* PageCache::findReusable(): a page of the stream before any other.
Quiet(h, size) == {i \in DOMAIN h.cache :
                      h.page[h.cache[i]].size = size /\ CanReuse(h.page[h.cache[i]])}
Reusable(h, size, s) ==
    LET own == {i \in Quiet(h, size) : h.page[h.cache[i]].stream = s}
    IN  IF own # {} THEN {h.cache[Min(own)]}
        ELSE IF Quiet(h, size) # {} THEN {h.cache[Min(Quiet(h, size))]}
        ELSE {}

FreeIds(h) == {p \in PageIds : h.page[p] = NoPage}

\* createPage(): the page and the heap that has it.
CreatedPages(h, align, size, s) ==
    IF Reusable(h, size, s) # {}
    THEN {<<p, [h EXCEPT !.pages = Append(@, p), !.cache = Remove(@, p),
                         !.page[p] = ProcessEvents(@)]>> : p \in Reusable(h, size, s)}
    ELSE {<<p, [h EXCEPT !.pages = Append(@, p), !.page[p] = NewPage(align, size, s)]>> :
              p \in IF FreeIds(h) = {} THEN {} ELSE {Min(FreeIds(h))}}
----------------------------------------------------------------------------
(* allocate(). *)

\* fixUpAllocDesc()
Accepted(align) == backend = "CUDA" => align <= CudaAlignment
FixedUp(align) == IF backend = "CUDA" THEN CudaAlignment ELSE align

\* Mutant: pages are cut for the size asked for.
SizeAsAsked(size, align) == size

SizeToAllocate(size, align) == AlignUp(size, align)

\* Small allocations share pages of one size.
PageSizeFor(size) ==
    IF size <= HeapPageSize \div 4 THEN HeapPageSize ELSE AlignUp(size, HeapPageSize)

\* Mutant: a page of another alignment is good enough.
SuitableSize(h, p, size, align) ==
    /\ h.page[p].size = PageSizeFor(size)
    /\ CanAllocate(h.page[p].allocator, size \div h.page[p].align)

Suitable(h, p, size, align) ==
    /\ h.page[p].size = PageSizeFor(size)
    /\ h.page[p].align = align
    /\ CanAllocate(h.page[p].allocator, size \div align)

FirstSuitable(h, size, align) ==
    LET found == {i \in DOMAIN h.pages : Suitable(h, h.pages[i], size, align)}
    IN  IF found = {} THEN {} ELSE {h.pages[Min(found)]}

AllocateFrom(a, h, p, size, s, asked) ==
    LET page == NotifyUse(h.page[p], s)
        units == size \div page.align
        lo == NodeToAllocate(page.allocator, units) * page.align
    IN  /\ deviceHeap' = [h EXCEPT !.page[p] =
                             [page EXCEPT !.allocator = Allocate(@, units)]]
        /\ allocated' = [allocated EXCEPT ![a] = [space |-> p, lo |-> lo, hi |-> lo + size,
                                                asked |-> asked]]

AllocateFromHeap(a, asked, s) ==
    LET align == FixedUp(asked.align)
        size == SizeToAllocate(asked.size, align)
        h == deviceHeap
    IN
    /\ allocated[a] = NoAlloc
    /\ Cardinality(InUse) < MaxHeld[backend]
    /\ Accepted(asked.align)
    /\ s # NoStream => backend = "CUDA"
    /\ \/ \E p \in FirstSuitable(h, size, align) : AllocateFrom(a, h, p, size, s, asked)
       \/ /\ FirstSuitable(h, size, align) = {}
          /\ \E c \in CreatedPages(h, align, PageSizeFor(size), s) :
                AllocateFrom(a, c[2], c[1], size, s, asked)
    /\ client' = client \cup {a}
    /\ UNCHANGED gpuVars
----------------------------------------------------------------------------
(* free(), flush(), removeEmptyPages(). *)

\* retire(), of several allocations.
NodeOf(h, a) == allocated[a].lo \div h.page[allocated[a].space].align

RetireOne(a, h) ==
    [h EXCEPT !.page[allocated[a].space].allocator = Free(@, NodeOf(h, a))]

Retired(h, S) == FoldSet(RetireOne, h, S)

Without(S) == [a \in HeapAllocs |-> IF a \in S THEN NoAlloc ELSE allocated[a]]

\* Mutant: the page's stream alone decides.
AtOnceOnStream(h, a) ==
    \/ backend = "CUDA" /\ CanReuse(h.page[allocated[a].space])
    \/ backend = "Vulkan"

\* Whether the memory may be reused at once: the queue is idle, or with CUDA
\* the page has no stream yet or no other stream's events.
AtOnce(h, a) ==
    \/ noticed = submitted
    \/ LET page == h.page[allocated[a].space] IN
       backend = "CUDA" /\ (page.stream = NoStream \/ CanReuse(page))

FreeAlloc(a) ==
    LET h == deviceHeap IN
    /\ a \in client
    /\ client' = client \ {a}
    /\ IF AtOnce(h, a)
       THEN /\ deviceHeap' = Retired(h, {a})
            /\ allocated' = Without({a})
       ELSE /\ deviceHeap' = [h EXCEPT !.pendingFrees =
                                 Append(@, [alloc |-> a, submitIndex |-> submitted])]
            /\ UNCHANGED allocated
    /\ UNCHANGED gpuVars

Finished == IF works = {} THEN submitted ELSE Min({w.id : w \in works}) - 1

\* flush(): the pending frees up to the first whose submission is not known
\* to have finished.  Vulkan's asks the GPU first.
Due(f, seen) == f.submitIndex <= seen

Flushed(h, seen) ==
    LET later == {i \in DOMAIN h.pendingFrees : ~Due(h.pendingFrees[i], seen)}
        n == IF later = {} THEN Len(h.pendingFrees) ELSE Min(later) - 1
        due == {h.pendingFrees[i].alloc : i \in 1 .. n}
    IN  /\ deviceHeap' = [Retired(h, due) EXCEPT
                             !.pendingFrees = SubSeq(@, n + 1, Len(@))]
        /\ allocated' = Without(due)

FlushHeap ==
    /\ noticed' = IF backend = "Vulkan" THEN Finished ELSE noticed
    /\ Flushed(deviceHeap, noticed')
    /\ UNCHANGED <<client, works, submitted>>

\* Mutant: a page whose last allocation is on the way out counts as empty.
EmptyOfClients(h) ==
    {p \in ToSet(h.pages) : \A a \in client : allocated[a].space # p}

EmptyPages(h) ==
    {p \in ToSet(h.pages) : LET s == h.page[p].allocator IN s.freeStorage = s.size}

\* freePage(): CUDA keeps the page in its cache, if it has one.
RemoveEmptyPages ==
    LET h == deviceHeap
        empty == EmptyPages(h)
        Stays(p) == p \notin empty
        Leaves(p) == p \in empty
    IN
    /\ empty # {}
    /\ deviceHeap' =
         [h EXCEPT !.pages = SelectSeq(@, Stays),
                   !.cache = IF h.caching THEN @ \o SelectSeq(h.pages, Leaves) ELSE @,
                   !.page = [p \in PageIds |->
                       IF Stays(p) THEN @[p]
                       ELSE IF h.caching THEN ProcessEvents(@[p]) ELSE NoPage]]
    /\ UNCHANGED <<allocated, client, gpuVars>>
----------------------------------------------------------------------------
(* The queue and the GPU. *)

\* What a submission uses is of interest with Vulkan, and one allocation of
\* it at a time.
UsedBy(a) == [alloc |-> a, range |-> allocated[a]]

SubmitWork(use, s) ==
    /\ submitted < MaxHeapSubmits
    /\ submitted' = submitted + 1
    /\ works' = works \cup {[id |-> submitted', stream |-> s, use |-> use]}
    /\ UNCHANGED <<deviceHeap, allocated, client, noticed>>

Submit ==
    IF backend = "Vulkan"
    THEN \E a \in client : SubmitWork(UsedBy(a), NoStream)
    ELSE \E s \in CudaStreams : SubmitWork(NoAlloc, s)

GpuFinishesWork(w) ==
    /\ \A v \in works : v.stream = w.stream => v.id >= w.id
    /\ works' = works \ {w}
    /\ UNCHANGED <<deviceHeap, allocated, client, submitted, noticed>>

\* retireCommandBuffers(), so far as the heap depends on it.
NoticeFinished ==
    /\ noticed' = Finished
    /\ UNCHANGED <<deviceHeap, allocated, client, works, submitted>>
----------------------------------------------------------------------------
NewHeap(b, caching) ==
    [backend |-> b, caching |-> caching, pages |-> <<>>, cache |-> <<>>,
     pendingFrees |-> <<>>, page |-> [p \in PageIds |-> NoPage]]

Init ==
    /\ \E b \in Backends, caching \in BOOLEAN :
          (caching => b = "CUDA") /\ deviceHeap = NewHeap(b, caching)
    /\ allocated = [a \in HeapAllocs |-> NoAlloc]
    /\ client = {}
    /\ works = {}
    /\ submitted = 0
    /\ noticed = 0

Next ==
    \/ \E a \in HeapAllocs :
         \/ FreeAlloc(a)
         \/ \E asked \in Requests[backend], s \in CudaStreams \cup {NoStream} :
               AllocateFromHeap(a, asked, s)
    \/ FlushHeap \/ RemoveEmptyPages
    \/ Submit \/ NoticeFinished
    \/ \E w \in works : GpuFinishesWork(w)

Spec == Init /\ [][Next]_vars
----------------------------------------------------------------------------
(* Properties. *)

On(p) == {a \in InUse : allocated[a].space = p}
InHeap == ToSet(deviceHeap.pages)
InCache == ToSet(deviceHeap.cache)

TypeOK ==
    /\ deviceHeap.backend \in Backends /\ deviceHeap.caching \in BOOLEAN
    /\ deviceHeap.pages \in Seq(PageIds) /\ deviceHeap.cache \in Seq(PageIds)
    /\ DOMAIN allocated = HeapAllocs
    /\ client \subseteq HeapAllocs
    /\ \A w \in works : w.id \in 1 .. submitted /\ w.stream \in CudaStreams \cup {NoStream}
    /\ noticed \in 0 .. submitted

\* Whatever is allocated and freed in whatever order, the allocator of every
\* page remains sound: its nodes tile the page, and each free one is found
\* in the bin of its size (offset-allocator.cpp; the checks of
\* tests/test-offset-allocator.cpp).
PagesTiled == \A p \in InHeap \cup InCache : Sound(deviceHeap.page[p].allocator)

\* The heap and its pages agree: a page is in the heap or in the cache, and
\* a cached one is empty; the used nodes of a page are the allocations made
\* from it; what clients freed and is not retired is in the list of pending
\* frees, in the order of the submissions, so that flush() may stop at the
\* first that is not due (cuda-heap.cpp:359, vk-heap.cpp:125).
AccountsAgree ==
    LET frees == deviceHeap.pendingFrees IN
    /\ InHeap \cap InCache = {}
    /\ FreeIds(deviceHeap) = PageIds \ (InHeap \cup InCache)
    /\ IsInjective(deviceHeap.pages) /\ IsInjective(deviceHeap.cache)
    /\ \A a \in InUse : allocated[a].space \in InHeap
    /\ \A p \in InHeap \cup InCache :
          LET s == deviceHeap.page[p].allocator IN
          Nodes(s) \ FreeNodes(s) = {NodeOf(deviceHeap, a) : a \in On(p)}
    /\ InUse \ client = {frees[i].alloc : i \in DOMAIN frees}
    /\ \A i \in 1 .. (Len(frees) - 1) : frees[i].submitIndex <= frees[i + 1].submitIndex

\* An allocation is as large and as aligned as was asked for and lies in its
\* page (heap.cpp:39-68).
RequestsHonoured ==
    \A a \in InUse : LET r == allocated[a] IN
        /\ r.hi - r.lo >= r.asked.size
        /\ r.lo % r.asked.align = 0
        /\ r.hi <= deviceHeap.page[r.space].size

\* The heap hands out disjoint ranges that stay put until retired.
Ranges == INSTANCE RangeAllocator WITH
    Ids <- HeapAllocs, NoRange <- NoAlloc, range <- allocated
ImplementsRanges == Ranges!RangeSpec

\* With Vulkan, memory that a submission still uses belongs to no other
\* allocation, and its page is not given up, although the client freed it
\* (vk-heap.cpp:83-132).
GpuRangesApart ==
    backend = "Vulkan" =>
        \A w \in works :
            /\ w.use.range.space \in InHeap
            /\ \A a \in InUse \ {w.use.alloc} : ~Ranges!Overlap(allocated[a], w.use.range)
=============================================================================
