--------------------------- MODULE RangeAllocator ---------------------------
(* What every suballocator of the code promises: a request is granted a    *)
(* range of some space that overlaps no range still granted, the range     *)
(* stays where it is until it is given back, and nothing else changes.     *)
EXTENDS Integers

CONSTANTS Ids,   \* identities of requests
          NoRange

VARIABLE range   \* what each request holds: [space, lo, hi) or NoRange

Overlap(r, s) == r.space = s.space /\ r.lo < s.hi /\ s.lo < r.hi

Free(i) == range[i] = NoRange

Init == range = [i \in Ids |-> NoRange]

Grant(i) ==
    /\ Free(i)
    /\ range' = [range EXCEPT ![i] = range'[i]]
    /\ range'[i] # NoRange
    /\ range'[i].lo >= 0
    /\ \A j \in Ids \ {i} : Free(j) \/ ~Overlap(range'[i], range[j])

\* Any number of ranges at once.
GiveBack ==
    range' = [i \in Ids |-> IF range'[i] = NoRange THEN NoRange ELSE range[i]]

Next == (\E i \in Ids : Grant(i)) \/ GiveBack

RangeSpec == Init /\ [][Next]_range
=============================================================================
