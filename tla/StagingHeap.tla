---------------------------- MODULE StagingHeap ----------------------------
(***************************************************************************)
(* StagingHeap (src/src/staging-heap.cpp): upload and readback memory cut  *)
(* out of pages, each page a list of contiguous nodes.  m_mutex makes      *)
(* alloc and free single steps; map and unmap run without it, so the time  *)
(* a thread has an allocation mapped is a state of its own (`mapping').    *)
(*                                                                         *)
(* Where the backend cannot keep its pages mapped (WebGPU, Metal), a page  *)
(* is locked to the thread that allocates from it.                         *)
(*                                                                         *)
(* Sizes count an abstract unit.  A page id is taken from those not in     *)
(* use; the code counts up, and nothing depends on the order.              *)
(***************************************************************************)
EXTENDS Integers, SequencesExt, FiniteSetsExt

CONSTANTS Threads, Allocs, Pages, None,
          PageSize,        \* m_pageSize
          Granularity,     \* m_allocationGranularity
          Sizes, Aligns,   \* what clients ask for
          MaxLeaked        \* bound: allocations whose owner forgets them

StagingHeapConstants ==
    /\ PageSize \in Nat \ {0}
    /\ Granularity \in Nat \ {0}
    /\ Sizes \subseteq Nat
    /\ MaxLeaked \in Nat
    /\ Aligns \subseteq Nat \ {0}
    /\ None \notin Threads \cup Allocs \cup Pages

VARIABLES keepPagesMapped, \* m_keepPagesMapped, which the backend chose
          pages,      \* keys of m_pages
          nodes,      \* Page::m_nodes
          used,       \* Page::m_totalUsed
          capacity,   \* Page::m_totalCapacity
          lockedTo,   \* Page::m_locked_to_thread
          mapped,     \* pages with m_mapped set
          totalUsed, totalCapacity,
          where,      \* Allocation::page of the live allocations
          request,    \* what the live allocations asked for, and who did
          mapping,    \* the allocation each thread has mapped
          leaked,     \* allocations whose owner forgot them
          released

heapVars == <<pages, nodes, used, capacity, lockedTo, totalUsed, totalCapacity>>
vars == <<keepPagesMapped, heapVars, mapped, where, request, mapping, leaked, released>>

Live == {a \in Allocs : where[a] # None}

-----------------------------------------------------------------------------
AlignUp(n, a) == ((n + a - 1) \div a) * a

AlignedSize(size) == AlignUp(size, Granularity)

Node(offset, size, owner) == [offset |-> offset, size |-> size, owner |-> owner]
NodeFree(n) == n.owner = None
End(n) == n.offset + n.size

Padding(n, align) == AlignUp(n.offset, align) - n.offset

(* Mutant: the padding is left out of the size a free node must have.      *)
FitsUnpadded(n, size, align) ==
    NodeFree(n) /\ Padding(n, align) <= n.size /\ n.size >= size

Fits(n, size, align) ==
    NodeFree(n) /\ Padding(n, align) <= n.size
                /\ n.size - Padding(n, align) >= size

FirstFit(ns, size, align) ==
    {i \in DOMAIN ns : /\ Fits(ns[i], size, align)
                       /\ \A j \in 1..(i - 1) : ~Fits(ns[j], size, align)}

NonEmpty(s) == SelectSeq(s, LAMBDA n : n.size > 0)

(* Page::allocNode(): the free node splits into a prefix that aligns, the  *)
(* allocation and a rest.                                                  *)
AllocNode(ns, i, size, align, a) ==
    LET start == ns[i].offset + Padding(ns[i], align) IN
    SubSeq(ns, 1, i - 1)
      \o NonEmpty(<<Node(ns[i].offset, Padding(ns[i], align), None)>>)
      \o <<Node(start, size, a)>>
      \o NonEmpty(<<Node(start + size, End(ns[i]) - (start + size), None)>>)
      \o SubSeq(ns, i + 1, Len(ns))

(* Mutant: a node merged with its predecessor is not merged any further.   *)
FreeNodeOneSided(ns, i) ==
    LET lo == IF i > 1 /\ NodeFree(ns[i - 1]) THEN i - 1 ELSE i
        hi == IF lo = i /\ i < Len(ns) /\ NodeFree(ns[i + 1]) THEN i + 1 ELSE i
    IN SubSeq(ns, 1, lo - 1)
         \o <<Node(ns[lo].offset, End(ns[hi]) - ns[lo].offset, None)>>
         \o SubSeq(ns, hi + 1, Len(ns))

(* Page::freeNode(): merges with the free neighbours.                      *)
FreeNode(ns, i) ==
    LET lo == IF i > 1 /\ NodeFree(ns[i - 1]) THEN i - 1 ELSE i
        hi == IF i < Len(ns) /\ NodeFree(ns[i + 1]) THEN i + 1 ELSE i
    IN SubSeq(ns, 1, lo - 1)
         \o <<Node(ns[lo].offset, End(ns[hi]) - ns[lo].offset, None)>>
         \o SubSeq(ns, hi + 1, Len(ns))

NodeIndex(a) == CHOOSE i \in DOMAIN nodes[where[a]] : nodes[where[a]][i].owner = a
NodeOf(a) == nodes[where[a]][NodeIndex(a)]

(* The identity a page is locked to by an allocation of thread t.          *)
LockId(t) == IF keepPagesMapped THEN None ELSE t

Init ==
    /\ keepPagesMapped \in BOOLEAN
    /\ pages = {}
    /\ nodes = [p \in Pages |-> <<>>]
    /\ used = [p \in Pages |-> 0]
    /\ capacity = [p \in Pages |-> 0]
    /\ lockedTo = [p \in Pages |-> None]
    /\ mapped = {}
    /\ totalUsed = 0
    /\ totalCapacity = 0
    /\ where = [a \in Allocs |-> None]
    /\ request = [a \in Allocs |-> None]
    /\ mapping = [t \in Threads |-> None]
    /\ leaked = {}
    /\ released = FALSE

-----------------------------------------------------------------------------
Idle(t) == mapping[t] = None /\ ~released

Grant(t, a, p, size, align) ==
    /\ where' = [where EXCEPT ![a] = p]
    /\ request' = [request EXCEPT ![a] = [size |-> size, align |-> align, by |-> t]]
    /\ totalUsed' = totalUsed + AlignedSize(size)
    /\ lockedTo' = [lockedTo EXCEPT ![p] = LockId(t)]
    /\ UNCHANGED <<mapping, leaked, released>>

(* Mutant: a page of another thread is good enough.                        *)
AnyPage(t, p) == p \in pages

(* The pages thread t may allocate from.                                   *)
Usable(t, p) == p \in pages /\ lockedTo[p] \in {None, LockId(t)}

Candidates(t, size, align) ==
    {p \in Pages : /\ Usable(t, p)
                   /\ FirstFit(nodes[p], AlignedSize(size), align) # {}}

AllocFromPage(t, a, size, align) ==
    /\ Idle(t)
    /\ a \notin Live
    /\ AlignedSize(size) < PageSize
    /\ \E p \in Candidates(t, size, align) :
       \E i \in FirstFit(nodes[p], AlignedSize(size), align) :
          /\ nodes' = [nodes EXCEPT ![p] =
                          AllocNode(@, i, AlignedSize(size), align, a)]
          /\ used' = [used EXCEPT ![p] = @ + AlignedSize(size)]
          /\ Grant(t, a, p, size, align)
    /\ UNCHANGED <<pages, capacity, totalCapacity, mapped>>

NeedsPage(t, a, size, align) ==
    /\ Idle(t)
    /\ a \notin Live
    /\ AlignedSize(size) < PageSize => Candidates(t, size, align) = {}

NewPage(p, size) ==
    /\ p \notin pages
    /\ pages' = pages \cup {p}
    /\ capacity' = [capacity EXCEPT ![p] = size]
    /\ totalCapacity' = totalCapacity + size

NewPageSize(size) ==
    IF AlignedSize(size) < PageSize THEN PageSize ELSE AlignedSize(size)

(* createBuffer() can also fail; then nothing changes.                     *)
AllocFromNewPage(t, a, size, align) ==
    /\ NeedsPage(t, a, size, align)
    /\ \E p \in Pages :
          LET fresh == <<Node(0, NewPageSize(size), None)>> IN
          /\ NewPage(p, NewPageSize(size))
          /\ nodes' = [nodes EXCEPT ![p] =
                          AllocNode(fresh, 1, AlignedSize(size), align, a)]
          /\ used' = [used EXCEPT ![p] = AlignedSize(size)]
          /\ mapped' = IF keepPagesMapped THEN mapped \cup {p} ELSE mapped
          /\ Grant(t, a, p, size, align)

(* allocPage() returns the error of map() with the page already inserted.  *)
MapOfNewPageFails(t, a, size, align) ==
    /\ NeedsPage(t, a, size, align)
    /\ keepPagesMapped
    /\ \E p \in Pages :
          /\ NewPage(p, NewPageSize(size))
          /\ nodes' = [nodes EXCEPT ![p] = <<Node(0, NewPageSize(size), None)>>]
          /\ used' = [used EXCEPT ![p] = 0]
    /\ UNCHANGED <<lockedTo, mapped, totalUsed, where, request, mapping,
                   leaked, released>>

-----------------------------------------------------------------------------
(* map(), of an allocation of the calling thread.  The clients are         *)
(* stageHandle(), stage(), uploadTextureData() and readTexture().          *)
MapAllocation(t, a) ==
    /\ Idle(t)
    /\ a \in Live /\ request[a].by = t
    /\ mapping' = [mapping EXCEPT ![t] = a]
    /\ mapped' = IF keepPagesMapped THEN mapped ELSE mapped \cup {where[a]}
    /\ UNCHANGED <<heapVars, where, request, leaked, released>>

UnmapAllocation(t) ==
    /\ mapping[t] # None
    /\ mapping' = [mapping EXCEPT ![t] = None]
    /\ mapped' = IF keepPagesMapped THEN mapped ELSE mapped \ {where[mapping[t]]}
    /\ UNCHANGED <<heapVars, where, request, leaked, released>>

-----------------------------------------------------------------------------
(* Mutant: an empty page of the standard size is never given back.         *)
NeverSurplus(p) == capacity[p] # PageSize

(* free() gives an empty page back unless it is the only empty one and has *)
(* the standard size.                                                      *)
Surplus(p) ==
    capacity[p] = PageSize => \E q \in pages \ {p} : used[q] = 0

LockAfterFree(p, remaining) == IF remaining = 0 THEN None ELSE lockedTo[p]

(* Mutant: the heap's total is decremented after the node was merged.      *)
FreedSizeMerged(ns, i) ==
    ns[i].size + (IF i < Len(ns) /\ NodeFree(ns[i + 1]) THEN ns[i + 1].size ELSE 0)

FreedSize(ns, i) == ns[i].size

(* ~Handle() or free(), by whichever thread drops the last reference.      *)
FreeAllocation(a) ==
    LET p == where[a]
        remaining == used[p] - NodeOf(a).size
        freed == remaining = 0 /\ Surplus(p)
    IN
    /\ ~released
    /\ a \in Live \ leaked
    /\ \A t \in Threads : mapping[t] # a
    /\ totalUsed' = totalUsed - FreedSize(nodes[p], NodeIndex(a))
    /\ nodes' = [nodes EXCEPT ![p] = IF freed THEN <<>> ELSE FreeNode(@, NodeIndex(a))]
    /\ used' = [used EXCEPT ![p] = remaining]
    /\ lockedTo' = [lockedTo EXCEPT ![p] = LockAfterFree(p, remaining)]
    /\ pages' = IF freed THEN pages \ {p} ELSE pages
    /\ totalCapacity' = IF freed THEN totalCapacity - capacity[p] ELSE totalCapacity
    /\ capacity' = IF freed THEN [capacity EXCEPT ![p] = 0] ELSE capacity
    /\ mapped' = IF freed THEN mapped \ {p} ELSE mapped
    /\ where' = [where EXCEPT ![a] = None]
    /\ request' = [request EXCEPT ![a] = None]
    /\ UNCHANGED <<mapping, leaked, released>>

(* readTexture() frees its allocation only when everything between         *)
(* succeeded.                                                              *)
AbandonAllocation(a) ==
    /\ Cardinality(leaked) < MaxLeaked
    /\ ~released
    /\ a \in Live \ leaked
    /\ \A t \in Threads : mapping[t] # a
    /\ leaked' = leaked \cup {a}
    /\ UNCHANGED <<heapVars, mapped, where, request, mapping, released>>

(* release(), up to its assertions: the device is destroyed after every    *)
(* client gave its allocations back, so far as it still knows them.        *)
Release ==
    LET empty == {p \in pages : used[p] = 0} IN
    /\ ~released
    /\ Live \subseteq leaked
    /\ released' = TRUE
    /\ pages' = pages \ empty
    /\ totalCapacity' =
          totalCapacity - MapThenSumSet(LAMBDA p : capacity[p], empty)
    /\ nodes' = [p \in Pages |-> IF p \in empty THEN <<>> ELSE nodes[p]]
    /\ capacity' = [p \in Pages |-> IF p \in empty THEN 0 ELSE capacity[p]]
    /\ mapped' = mapped \ empty
    /\ UNCHANGED <<used, lockedTo, totalUsed, where, request, mapping, leaked>>

Next ==
    \/ \E t \in Threads, a \in Allocs, size \in Sizes, align \in Aligns :
          \/ AllocFromPage(t, a, size, align)
          \/ AllocFromNewPage(t, a, size, align)
          \/ MapOfNewPageFails(t, a, size, align)
    \/ \E t \in Threads, a \in Allocs : MapAllocation(t, a)
    \/ \E t \in Threads : UnmapAllocation(t)
    \/ \E a \in Allocs : FreeAllocation(a) \/ AbandonAllocation(a)
    \/ Release

Spec == Init /\ [][Next /\ UNCHANGED keepPagesMapped]_vars

-----------------------------------------------------------------------------
NodeType == [offset : Nat, size : Nat, owner : Allocs \cup {None}]

(* Every variable has its type.                                            *)
TypeOK ==
    /\ keepPagesMapped \in BOOLEAN
    /\ pages \subseteq Pages
    /\ nodes \in [Pages -> Seq(NodeType)]
    /\ used \in [Pages -> Nat]
    /\ capacity \in [Pages -> Nat]
    /\ lockedTo \in [Pages -> Threads \cup {None}]
    /\ mapped \subseteq Pages
    /\ totalUsed \in Nat
    /\ totalCapacity \in Nat
    /\ where \in [Allocs -> Pages \cup {None}]
    /\ request \in [Allocs -> {None} \cup
                       [size : Sizes, align : Aligns, by : Threads]]
    /\ mapping \in [Threads -> Allocs \cup {None}]
    /\ leaked \subseteq Allocs
    /\ released \in BOOLEAN

(* The nodes of a page tile it and no two free nodes touch, so freed space *)
(* is never lost to fragmentation (Page::checkConsistency,                 *)
(* staging-heap.cpp:383-415).                                              *)
PagesTiled ==
    \A p \in pages : LET ns == nodes[p] IN
        /\ ns[1].offset = 0
        /\ End(ns[Len(ns)]) = capacity[p]
        /\ \A i \in 1..(Len(ns) - 1) :
              /\ End(ns[i]) = ns[i + 1].offset
              /\ ~(NodeFree(ns[i]) /\ NodeFree(ns[i + 1]))

(* The page and heap totals equal what the live allocations add up to, and *)
(* a released heap keeps no page but those of leaked allocations           *)
(* (staging-heap.cpp:37-44, 208-216, 253-263, 370-381).                    *)
TotalsAgree ==
    LET In(p) == {a \in Live : where[a] = p}
        Size(a) == NodeOf(a).size
    IN
    /\ \A p \in pages : used[p] = MapThenSumSet(Size, In(p))
    /\ totalUsed = MapThenSumSet(Size, Live)
    /\ totalCapacity = MapThenSumSet(LAMBDA p : capacity[p], pages)
    /\ released => \A p \in pages : In(p) # {}

(* A live allocation lies in a page of the heap, aligned and large enough  *)
(* (staging-heap.cpp:323-345).                                             *)
RequestsHonoured ==
    \A a \in Live :
        /\ where[a] \in pages
        /\ NodeOf(a).offset % request[a].align = 0
        /\ NodeOf(a).size >= request[a].size
        /\ End(NodeOf(a)) <= capacity[where[a]]

(* Without kept mappings, a page serves one thread at a time, and no two   *)
(* threads have one mapped: the assertions of Page::map and Page::unmap    *)
(* hold (staging-heap.cpp:417-434).                                        *)
MappedByOne ==
    ~keepPagesMapped =>
        /\ \A a \in Live : lockedTo[where[a]] = request[a].by
        /\ \A t \in Threads : mapping[t] # None =>
              /\ where[mapping[t]] \in mapped
              /\ \A u \in Threads \ {t} :
                    mapping[u] # None => where[mapping[u]] # where[mapping[t]]

(* At most one empty page is kept, of the standard size, and it is open to *)
(* every thread (staging-heap.cpp:220-237; the test                        *)
(* staging-heap-unlockpage-2); pages whose mapping failed are apart.       *)
OneEmptyPage ==
    LET Kept == {p \in pages : used[p] = 0 /\ (keepPagesMapped => p \in mapped)} IN
    \A p \in Kept : capacity[p] = PageSize /\ lockedTo[p] = None /\ Kept = {p}

(* Nothing is left when the device releases the heap: the assertions of    *)
(* release() hold (staging-heap.cpp:40-41) unless a caller lost track of   *)
(* an allocation.                                                          *)
ReleasedEmpty == released /\ leaked = {} => totalUsed = 0 /\ pages = {}

(* The heap hands out disjoint ranges that stay put until freed.           *)
Ranges == INSTANCE RangeAllocator WITH
    Ids <- Allocs,
    NoRange <- None,
    range <- [a \in Allocs |->
                IF where[a] = None THEN None
                ELSE [space |-> where[a], lo |-> NodeOf(a).offset,
                      hi |-> End(NodeOf(a))]]

ImplementsRanges == Ranges!RangeSpec
=============================================================================
