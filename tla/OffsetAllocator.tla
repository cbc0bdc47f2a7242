--------------------------- MODULE OffsetAllocator -------------------------
(* The two-level segregated-fit allocator of core/offset-allocator.cpp, as  *)
(* operators on a record that holds its fields.  Nodes are linked with      *)
(* their neighbours in the storage; the free ones are in bins by size.      *)
(* A node is known by the offset of its data: which index of the node array *)
(* it has is immaterial.  `node' has the offsets of the nodes as its        *)
(* domain, `bin' the bins that are not empty, which is what the bit masks   *)
(* of the code say.                                                         *)
EXTENDS Integers, Sequences, FiniteSets

LOCAL INSTANCE FiniteSetsExt
LOCAL INSTANCE Functions

UNUSED == -1

----------------------------------------------------------------------------
(* Bin sizes: floating-point numbers with a mantissa of three bits. *)

MantissaValue == 8

\* The bits of `size' below its mantissa.
Shift(size) == CHOOSE s \in 0 .. 28 : MantissaValue * 2 ^ s <= size
                                      /\ size < 2 * MantissaValue * 2 ^ s

UintToFloatRoundDown(size) ==
    IF size < MantissaValue THEN size
    ELSE Shift(size) * MantissaValue + size \div 2 ^ Shift(size)

\* Mutant: the bits lost do not count.
RoundUpTruncated(size) == UintToFloatRoundDown(size)

UintToFloatRoundUp(size) ==
    IF size < MantissaValue THEN size
    ELSE Shift(size) * MantissaValue
         + (size + 2 ^ Shift(size) - 1) \div 2 ^ Shift(size)

FloatToUint(float) ==
    IF float < MantissaValue THEN float
    ELSE ((float % MantissaValue) + MantissaValue) * 2 ^ (float \div MantissaValue - 1)
----------------------------------------------------------------------------
Nodes(s) == DOMAIN s.node
FreeNodes(s) == {n \in Nodes(s) : ~s.node[n].used}
IsFree(s, n) == n # UNUSED /\ ~s.node[n].used

ListOf(s, b) == IF b \in DOMAIN s.bin THEN s.bin[b] ELSE <<>>

WithBin(s, b, list) ==
    [s EXCEPT !.bin = IF list = <<>> THEN Restrict(@, DOMAIN @ \ {b})
                      ELSE [c \in DOMAIN @ \cup {b} |-> IF c = b THEN list ELSE @[c]]]

\* insertNodeIntoBin(), with the neighbours that its callers link to it.
InsertNode(s, offset, size, prev, next) ==
    LET b == UintToFloatRoundDown(size)
        new == [size |-> size, used |-> FALSE, prev |-> prev, next |-> next]
        Linked(n) == [s.node[n] EXCEPT !.prev = IF n = next THEN offset ELSE @,
                                       !.next = IF n = prev THEN offset ELSE @]
    IN  [WithBin(s, b, <<offset>> \o ListOf(s, b)) EXCEPT
            !.node = [n \in Nodes(s) \cup {offset} |-> IF n = offset THEN new ELSE Linked(n)],
            !.freeStorage = @ + size]

\* removeNodeFromBin(), up to the node itself.
RemoveFromBin(s, n) ==
    LET b == UintToFloatRoundDown(s.node[n].size)
        IsOther(m) == m # n
    IN  [WithBin(s, b, SelectSeq(s.bin[b], IsOther)) EXCEPT
            !.freeStorage = @ - s.node[n].size]

Reset(size, maxAllocs) ==
    InsertNode([size |-> size, maxAllocs |-> maxAllocs, freeStorage |-> 0,
                current |-> 0, node |-> <<>>, bin |-> <<>>],
               0, size, UNUSED, UNUSED)

\* The last unused node is never taken.
OutOfNodes(s) == Cardinality(Nodes(s)) + 1 = s.maxAllocs

\* The bins whose nodes are all large enough.
Fitting(s, size) == {b \in DOMAIN s.bin : b >= UintToFloatRoundUp(size)}

CanAllocate(s, size) == ~OutOfNodes(s) /\ Fitting(s, size) # {}
NodeToAllocate(s, size) == Head(s.bin[Min(Fitting(s, size))])

\* allocate(), where CanAllocate(): what is left of the node is a node of
\* its own between this one and the next.
Allocate(s, size) ==
    LET n == NodeToAllocate(s, size)
        rest == s.node[n].size - size
        taken == [RemoveFromBin(s, n) EXCEPT
                     !.node[n].size = size, !.node[n].used = TRUE, !.current = @ + 1]
    IN  IF rest = 0 THEN taken
        ELSE InsertNode(taken, n + size, rest, n, s.node[n].next)

\* Mutant: a free node before this one is not noticed.
MergedForward(s, n) == {n} \cup {m \in {s.node[n].next} : IsFree(s, m)}

MergedNodes(s, n) ==
    {n} \cup {m \in {s.node[n].prev, s.node[n].next} : IsFree(s, m)}

\* free(): one free node with the free neighbours, which leave their bins.
Free(s, n) ==
    LET merged == MergedNodes(s, n)
        Unbin(m, t) == RemoveFromBin(t, m)
        left == FoldSet(Unbin, s, merged \ {n})
    IN  InsertNode([left EXCEPT !.node = Restrict(@, DOMAIN @ \ merged), !.current = @ - 1],
                   Min(merged), MapThenSumSet(LAMBDA m : s.node[m].size, merged),
                   s.node[Min(merged)].prev, s.node[Max(merged)].next)
----------------------------------------------------------------------------
\* storageReport(): the largest request the highest bin is sure to take.
LargestFreeRegion(s) ==
    IF OutOfNodes(s) \/ DOMAIN s.bin = {} THEN 0 ELSE FloatToUint(Max(DOMAIN s.bin))

\* What the structure keeps true of itself: the links of the nodes tile the
\* storage from its start, no two free nodes touch, and every free node is
\* in the bin of its size and nowhere else.
Sound(s) ==
    LET Next(n) == s.node[n].next
        Inner == {n \in Nodes(s) : Next(n) # UNUSED}
    IN
    /\ \A n \in Inner :
          /\ Next(n) = n + s.node[n].size
          /\ Next(n) \in Nodes(s) /\ s.node[Next(n)].prev = n
          /\ s.node[n].used \/ s.node[Next(n)].used
    /\ {n \in Nodes(s) : s.node[n].prev = UNUSED} = {0}
    /\ \E last \in Nodes(s) : Nodes(s) \ Inner = {last} /\ last + s.node[last].size = s.size
    /\ \A b \in DOMAIN s.bin : \A i \in DOMAIN s.bin[b] :
          LET n == s.bin[b][i] IN
          /\ n \in FreeNodes(s) /\ UintToFloatRoundDown(s.node[n].size) = b
          /\ \A j \in 1 .. (i - 1) : s.bin[b][j] # n
    /\ Cardinality(FreeNodes(s)) = MapThenSumSet(LAMBDA b : Len(s.bin[b]), DOMAIN s.bin)
    /\ s.freeStorage = MapThenSumSet(LAMBDA n : s.node[n].size, FreeNodes(s))
    /\ s.current = Cardinality(Nodes(s) \ FreeNodes(s))
    /\ LargestFreeRegion(s) <= s.freeStorage
=============================================================================
