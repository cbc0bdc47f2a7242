-------------------------- MODULE TransientHeap --------------------------
(* The constant-buffer storage of a queue: TransientBufferHeap hands out   *)
(* coarse chunks of persistently mapped pages, TransientBufferArena, one   *)
(* per command buffer, bumps through the chunks it was leased and gives    *)
(* all of them back when its command buffer is reset.  Client threads      *)
(* record at the same time; the heap's mutex makes each allocate() and     *)
(* free() one step.  Around the heap: the life of the command buffers that *)
(* decides when an arena is reset - record, submit, retire, destroy - and  *)
(* the shutdown of the queue, which expects the heap to be unused.         *)
EXTENDS Integers, Sequences, FiniteSets

LOCAL INSTANCE SequencesExt
LOCAL INSTANCE FiniteSetsExt

CONSTANTS Buffers,          \* the command buffers
          MaxPages,         \* bound: pages alive at a time; a further one cannot be created
          MaxAllocations,   \* bound: allocations a command buffer holds
          BindingSizes,     \* what the bindings ask for, in bytes
          Alignment,        \* offsets and sizes are multiples of it
          InitialPageSize, MaxPageSize, MaxRetainedSize,
          InitialChunkSize, MaxChunkSize

TransientHeapConstants ==
    /\ Alignment > 0 /\ InitialPageSize > 0 /\ InitialChunkSize > 0
    /\ MaxPageSize >= InitialPageSize
    /\ MaxRetainedSize = 0 \/ MaxRetainedSize >= InitialPageSize
    /\ MaxChunkSize >= InitialChunkSize
    /\ MaxChunkSize <= MaxPageSize

PageIds == 1 .. MaxPages
NoPage == 0

VARIABLES heap,      \* the fields of the TransientBufferHeap
          arena,     \* the TransientBufferArena of each command buffer
          given,     \* the ranges bound by each command buffer, in order
          phase,     \* where each command buffer is
          inFlight,  \* submitted and not retired, in order
          finished,  \* how many of the first of those the GPU has finished
          retiring,  \* how many retireCommandBuffers() has still to retire
          queue      \* "running", "closing", "closed"

vars == <<heap, arena, given, phase, inFlight, finished, retiring, queue>>
recorded == <<inFlight, finished, retiring, queue>>

Phases == {"none", "pooled", "recording", "ready", "submitted"}
Larger(a, b) == IF a > b THEN a ELSE b
Smaller(a, b) == IF a < b THEN a ELSE b
Total(S, f(_)) == MapThenSumSet(f, S)
Aligned(n) == ((n + Alignment - 1) \div Alignment) * Alignment

----------------------------------------------------------------------------
(* The pages. *)

NewPage(size) == [capacity |-> size, next |-> 0, live |-> 0, chunks |-> 0]

NewHeap == [pages |-> <<>>, page |-> [p \in PageIds |-> NewPage(0)],
            emptied |-> <<>>,   \* the empty pages by m_lastUsedSerial, oldest first
            current |-> NoPage, nextPageSize |-> InitialPageSize,
            totalCapacity |-> 0, totalUsed |-> 0]

PagesOf(h) == ToSet(h.pages)
IsEmpty(h, p) == h.page[p].chunks = 0
EmptyPages(h) == {p \in PagesOf(h) : IsEmpty(h, p)}
Capacity(h, S) == Total(S, LAMBDA p : h.page[p].capacity)
Without(order, p) == SelectSeq(order, LAMBDA q : q # p)

GrownPageSize(size) == Smaller(2 * size, MaxPageSize)

\* The first size the growth reaches, from the next page's, that takes the chunk.
NewPageSize(h, size) ==
    Min({s \in {Smaller(h.nextPageSize * 2 ^ k, MaxPageSize) : k \in 0 .. MaxPageSize} :
             s >= size})

RegularSizes(h) ==
    {h.page[p].capacity : p \in PagesOf(h)} \cap InitialPageSize .. MaxPageSize
NextPageSize(h) ==
    Max({InitialPageSize} \cup {GrownPageSize(s) : s \in RegularSizes(h)})

RoomIn(h, p, size) == p # NoPage /\ Aligned(h.page[p].next) + size <= h.page[p].capacity

OffsetIn(h, p) == Aligned(h.page[p].next)

TakenFrom(h, p, size) ==
    [h EXCEPT !.page[p].next = OffsetIn(h, p) + size,
              !.page[p].live = @ + size,
              !.page[p].chunks = @ + 1,
              !.emptied = Without(@, p),
              !.totalUsed = @ + size,
              !.current = p]

\* The retained empty pages that take a chunk; the smallest, first created, is reused.
Reusable(h, size) == {p \in EmptyPages(h) : h.page[p].capacity >= size}
SmallestOf(h, S) ==
    LET least == Min({h.page[p].capacity : p \in S})
    IN  h.pages[Min({i \in DOMAIN h.pages :
                        h.pages[i] \in S /\ h.page[h.pages[i]].capacity = least})]

FreeIds(h) == PageIds \ PagesOf(h)
WithPage(h, p, size) ==
    [h EXCEPT !.pages = Append(@, p), !.page[p] = NewPage(size),
              !.totalCapacity = @ + size, !.nextPageSize = GrownPageSize(size)]

\* allocate(): the page a chunk comes from and the heap that holds that page.
\* Without a page that takes it one is created, which may fail.
Sources(h, size) ==
    IF RoomIn(h, h.current, size) THEN {<<h.current, h>>}
    ELSE IF Reusable(h, size) # {} THEN {<<SmallestOf(h, Reusable(h, size)), h>>}
    ELSE {<<p, WithPage(h, p, NewPageSize(h, size))>> :
              p \in IF FreeIds(h) = {} THEN {} ELSE {Min(FreeIds(h))}}
----------------------------------------------------------------------------
(* Giving chunks back. *)

\* Mutant: the page is bumped back by what is freed.
WithoutChunkBumpedBack(h, c) ==
    LET p == h.page[c.page] IN
    [h EXCEPT !.page[c.page] = [p EXCEPT !.chunks = @ - 1, !.live = @ - c.size,
                                         !.next = @ - c.size],
              !.emptied = IF p.chunks = 1 THEN Append(@, c.page) ELSE @,
              !.totalUsed = @ - c.size]

WithoutChunk(h, c) ==
    LET p == h.page[c.page] IN
    [h EXCEPT !.page[c.page] = [p EXCEPT !.chunks = @ - 1, !.live = @ - c.size,
                                         !.next = IF p.chunks = 1 THEN 0 ELSE @],
              !.emptied = IF p.chunks = 1 THEN Append(@, c.page) ELSE @,
              !.totalUsed = @ - c.size]

Position(order, p) == CHOOSE i \in DOMAIN order : order[i] = p

\* Pages above the budget go first, then the least recently used: what stays
\* is the longest run of most recently used pages within the budget.
Fitting(h) == {p \in EmptyPages(h) : h.page[p].capacity <= MaxRetainedSize}
NoOlder(h, p) == {q \in Fitting(h) : Position(h.emptied, q) >= Position(h.emptied, p)}

\* Mutant: over the budget, every empty page goes.
RetainedAllOrNone(h) ==
    IF Capacity(h, EmptyPages(h)) <= MaxRetainedSize THEN EmptyPages(h) ELSE {}

Retained(h) == {p \in Fitting(h) : Capacity(h, NoOlder(h, p)) <= MaxRetainedSize}

WithoutPages(h, S) ==
    LET Stays(p) == p \notin S IN
    [h EXCEPT !.pages = SelectSeq(@, Stays), !.emptied = SelectSeq(@, Stays),
              !.page = [p \in PageIds |-> IF p \in S THEN NewPage(0) ELSE @[p]],
              !.totalCapacity = @ - Capacity(h, S),
              !.current = IF @ \in S THEN NoPage ELSE @]

Trimmed(h) == WithoutPages(h, EmptyPages(h) \ Retained(h))

Freed(h, chunks) ==
    IF chunks = <<>> THEN h
    ELSE LET trimmed == Trimmed(FoldLeft(WithoutChunk, h, chunks))
         IN  [trimmed EXCEPT !.nextPageSize = NextPageSize(trimmed)]
----------------------------------------------------------------------------
(* The arenas. *)

NewArena == [chunks |-> <<>>, offset |-> 0, nextChunkSize |-> InitialChunkSize]

FitsLastChunk(a, size) ==
    a.chunks # <<>> /\ Aligned(a.offset) + size <= Last(a.chunks).size

GrownChunkSize(a, size) ==
    IF size > MaxChunkSize THEN a.nextChunkSize
    ELSE Larger(a.nextChunkSize, Smaller(2 * size, MaxChunkSize))

WithChunk(a, chunk, size) ==
    [chunks |-> Append(a.chunks, chunk), offset |-> 0,
     nextChunkSize |-> GrownChunkSize(a, size)]

Bumped(a, size) == [a EXCEPT !.offset = Aligned(@) + size]

\* The range a bump of the arena hands out.
BumpedRange(a, size) ==
    LET lo == Last(a.chunks).offset + Aligned(a.offset)
    IN  [space |-> Last(a.chunks).page, lo |-> lo, hi |-> lo + size]

Bind(b, a, size) ==
    /\ arena' = [arena EXCEPT ![b] = Bumped(a, size)]
    /\ given' = [given EXCEPT ![b] = Append(@, BumpedRange(a, size))]

AllocateInChunk(b, size) ==
    /\ FitsLastChunk(arena[b], size)
    /\ Bind(b, arena[b], size)
    /\ UNCHANGED heap

AllocateChunk(b, size) ==
    LET chunkSize == Aligned(Larger(size, arena[b].nextChunkSize)) IN
    /\ ~FitsLastChunk(arena[b], size)
    /\ \E source \in Sources(heap, chunkSize) :
         LET p == source[1]
             chunk == [page |-> p, offset |-> OffsetIn(source[2], p), size |-> chunkSize]
         IN  /\ heap' = TakenFrom(source[2], p, chunkSize)
             /\ Bind(b, WithChunk(arena[b], chunk, Larger(size, arena[b].nextChunkSize)), size)

\* TransientBufferArena::allocate() for a binding of a command buffer being
\* recorded.  A request above a page's maximum fails and changes nothing, and
\* so does one whose page cannot be created.
Allocate(b, size) ==
    /\ phase[b] = "recording"
    /\ Len(given[b]) < MaxAllocations
    /\ Aligned(size) <= MaxPageSize
    /\ \/ AllocateInChunk(b, Aligned(size))
       \/ AllocateChunk(b, Aligned(size))
    /\ UNCHANGED <<phase, recorded>>

ResetArena(b) ==
    /\ heap' = Freed(heap, arena[b].chunks)
    /\ arena' = [arena EXCEPT ![b] = NewArena]
    /\ given' = [given EXCEPT ![b] = <<>>]

\* CommandBufferImpl::reset() returns before the arena when the command
\* pool's reset fails; the command buffer is pooled with its chunks.
ResetBuffer(b) ==
    /\ \/ ResetArena(b)
       \/ UNCHANGED <<heap, arena, given>>
    /\ phase' = [phase EXCEPT ![b] = "pooled"]

\* Mutant: a command buffer destroyed leaves its chunks to the heap.
DestroyBufferOnly(b) ==
    /\ phase' = [phase EXCEPT ![b] = "none"]
    /\ arena' = [arena EXCEPT ![b] = NewArena]
    /\ given' = [given EXCEPT ![b] = <<>>]
    /\ UNCHANGED heap

DestroyBuffer(b) ==
    /\ ResetArena(b)
    /\ phase' = [phase EXCEPT ![b] = "none"]
----------------------------------------------------------------------------
(* The command buffers. *)

Pooled == {b \in Buffers : phase[b] = "pooled"}

\* getOrCreateCommandBuffer()
CreateEncoder(b) ==
    /\ queue = "running"
    /\ phase[b] = IF Pooled = {} THEN "none" ELSE "pooled"
    /\ phase' = [phase EXCEPT ![b] = "recording"]
    /\ UNCHANGED <<heap, arena, given, recorded>>

\* An encoder is destroyed without finish(): its command buffer is retired.
DropEncoder(b) ==
    /\ phase[b] = "recording"
    /\ ResetBuffer(b)
    /\ UNCHANGED recorded

Finish(b) ==
    /\ phase[b] = "recording"
    /\ phase' = [phase EXCEPT ![b] = "ready"]
    /\ UNCHANGED <<heap, arena, given, recorded>>

\* The client releases a command buffer it never submitted.
DropBuffer(b) ==
    /\ phase[b] = "ready"
    /\ DestroyBuffer(b)
    /\ UNCHANGED recorded

\* submit() ends with a pass of retireCommandBuffers(), unless vkQueueSubmit fails.
Submit(b) ==
    /\ phase[b] = "ready"
    /\ retiring = 0
    /\ phase' = [phase EXCEPT ![b] = "submitted"]
    /\ inFlight' = Append(inFlight, b)
    /\ retiring' = finished
    /\ UNCHANGED <<heap, arena, given, finished, queue>>

GpuFinishes ==
    /\ finished < Len(inFlight)
    /\ finished' = finished + 1
    /\ UNCHANGED <<heap, arena, given, phase, inFlight, retiring, queue>>

\* waitOnHost() that succeeds; one that fails retires nothing.
WaitOnHost ==
    /\ queue = "running"
    /\ retiring = 0
    /\ finished' = Len(inFlight)
    /\ retiring' = Len(inFlight)
    /\ UNCHANGED <<heap, arena, given, phase, inFlight, queue>>

\* One command buffer of the pass; client threads may record between two.
RetireFirst ==
    /\ retiring > 0
    /\ ResetBuffer(Head(inFlight))
    /\ inFlight' = Tail(inFlight)
    /\ finished' = finished - 1
    /\ retiring' = retiring - 1
    /\ UNCHANGED queue
----------------------------------------------------------------------------
(* shutdown(), once no client holds the device: it waits, which may fail   *)
(* and leave command buffers in flight, destroys those and the pooled      *)
(* ones, and releases the heap.                                            *)

BeginShutdown ==
    /\ queue = "running"
    /\ retiring = 0
    /\ \A b \in Buffers : phase[b] \in {"none", "pooled", "submitted"}
    /\ queue' = "closing"
    /\ \/ retiring' = Len(inFlight) /\ finished' = Len(inFlight)
       \/ UNCHANGED <<retiring, finished>>
    /\ UNCHANGED <<heap, arena, given, phase, inFlight>>

ClearInFlight ==
    /\ queue = "closing"
    /\ retiring = 0
    /\ inFlight # <<>>
    /\ DestroyBuffer(Head(inFlight))
    /\ inFlight' = Tail(inFlight)
    /\ finished' = Larger(finished - 1, 0)
    /\ UNCHANGED <<retiring, queue>>

ClearPool(b) ==
    /\ queue = "closing"
    /\ inFlight = <<>>
    /\ phase[b] = "pooled"
    /\ DestroyBuffer(b)
    /\ UNCHANGED recorded

\* release() keeps its pages when it finds some of them still used.
Release ==
    /\ queue = "closing"
    /\ \A b \in Buffers : phase[b] = "none"
    /\ heap' = IF heap.totalUsed = 0 THEN WithoutPages(heap, PagesOf(heap)) ELSE heap
    /\ queue' = "closed"
    /\ UNCHANGED <<arena, given, phase, inFlight, finished, retiring>>
----------------------------------------------------------------------------
Init ==
    /\ heap = NewHeap
    /\ arena = [b \in Buffers |-> NewArena]
    /\ given = [b \in Buffers |-> <<>>]
    /\ phase = [b \in Buffers |-> "none"]
    /\ inFlight = <<>>
    /\ finished = 0
    /\ retiring = 0
    /\ queue = "running"

Next ==
    \/ \E b \in Buffers :
         \/ CreateEncoder(b) \/ DropEncoder(b) \/ Finish(b) \/ DropBuffer(b)
         \/ Submit(b) \/ ClearPool(b)
         \/ \E size \in BindingSizes : Allocate(b, size)
    \/ GpuFinishes \/ WaitOnHost \/ RetireFirst
    \/ BeginShutdown \/ ClearInFlight \/ Release

Spec == Init /\ [][Next]_vars
----------------------------------------------------------------------------
(* Properties. *)

TypeOK ==
    /\ heap.pages \in Seq(PageIds) /\ heap.emptied \in Seq(PageIds)
    /\ heap.current \in PageIds \cup {NoPage}
    /\ DOMAIN heap.page = PageIds
    /\ phase \in [Buffers -> Phases]
    /\ inFlight \in Seq(Buffers)
    /\ finished \in 0 .. Len(inFlight) /\ retiring \in 0 .. finished
    /\ queue \in {"running", "closing", "closed"}

Leases == UNION {{<<b, i>> : i \in DOMAIN arena[b].chunks} : b \in Buffers}
Chunk(l) == arena[l[1]].chunks[l[2]]
LeasesOf(p) == {l \in Leases : Chunk(l).page = p}

\* The heap's bookkeeping is the sum of what the arenas hold, whatever order
\* the command buffers retire in and whichever resets fail: a page counts the
\* chunks leased from it, starts over only when none is, and no lease is on a
\* page the heap has dropped (allocate, free, freePageLocked).
AccountsAgree ==
    /\ \A l \in Leases : Chunk(l).page \in PagesOf(heap)
    /\ \A p \in PagesOf(heap) :
         /\ heap.page[p].chunks = Cardinality(LeasesOf(p))
         /\ heap.page[p].live = Total(LeasesOf(p), LAMBDA l : Chunk(l).size)
         /\ \A l \in LeasesOf(p) : Chunk(l).offset + Chunk(l).size <= heap.page[p].next
         /\ heap.page[p].next <= heap.page[p].capacity
         /\ IsEmpty(heap, p) => heap.page[p].next = 0
    /\ heap.totalUsed = Total(Leases, LAMBDA l : Chunk(l).size)
    /\ heap.totalCapacity = Capacity(heap, PagesOf(heap))
    /\ heap.current \in PagesOf(heap) \cup {NoPage}

\* Empty pages kept warm never hold more memory than the retention budget,
\* not even between two retirements of one pass, and trimming stops at the
\* budget: when the heap drops pages that fit it, one of them would have
\* exceeded it beside those that stay (trimRetainedPagesLocked).
Within(h) == Capacity(h, EmptyPages(h)) <= MaxRetainedSize
Dropped == {p \in PagesOf(heap) \ PagesOf(heap') : heap.page[p].capacity <= MaxRetainedSize}
TrimmedToBudget ==
    [][queue' # "closed" =>
          /\ Within(heap')
          /\ Dropped # {} =>
                \E p \in Dropped : heap.page[p].capacity
                    + Capacity(heap', EmptyPages(heap')) > MaxRetainedSize]_vars

\* Even when waiting for the device or resetting command pools failed, the
\* heap is unused when shutdown() releases it (the assertion of release()),
\* so that no page outlives the device.
ReleasedEmpty ==
    queue = "closed" => heap.totalUsed = 0 /\ heap.pages = <<>> /\ heap.totalCapacity = 0

\* What the command buffers bind are ranges of a RangeAllocator: no two that
\* are held overlap, and a command buffer's stay until it is reset.
Ids == Buffers \X (1 .. MaxAllocations)
NoRange == [space |-> NoPage]
Ranges == INSTANCE RangeAllocator WITH
    range <- [id \in Ids |-> IF id[2] <= Len(given[id[1]]) THEN given[id[1]][id[2]]
                                                          ELSE NoRange]
ImplementsRanges == Ranges!RangeSpec
=============================================================================
