--------------------------- MODULE CommandQueuesProofs ----------------------
(***************************************************************************)
(* Safety of the command queues, for any number of command buffers,        *)
(* resources, streams and submissions.                                     *)
(***************************************************************************)
EXTENDS CommandQueues, FiniteSetTheorems, SequenceTheorems, TLAPS

-----------------------------------------------------------------------------
(* Sequences without repetition.                                           *)

(* Entries in different places are different.                              *)
Distinct(s) == \A i, j \in DOMAIN s : i < j => s[i] # s[j]

LEMMA DistinctIsInjective ==
    ASSUME NEW S, NEW s \in Seq(S)
    PROVE  IsInjective(s) <=> Distinct(s)
<1>1. DOMAIN s = 1..Len(s) /\ Len(s) \in Nat
  BY LenProperties
<1>2. \A i, j \in DOMAIN s : i < j \/ j < i \/ i = j
  BY <1>1
<1>3. QED
  BY <1>1, <1>2 DEF IsInjective, Distinct

LEMMA Concatenation ==
    ASSUME NEW S, NEW s \in Seq(S), NEW t \in Seq(S)
    PROVE  /\ s \o t \in Seq(S)
           /\ Len(s) \in Nat /\ Len(t) \in Nat /\ Len(s \o t) = Len(s) + Len(t)
           /\ DOMAIN s = 1..Len(s) /\ DOMAIN t = 1..Len(t)
           /\ DOMAIN (s \o t) = 1..(Len(s) + Len(t))
           /\ \A i \in 1..Len(s) : (s \o t)[i] = s[i]
           /\ \A i \in 1..Len(t) : (s \o t)[Len(s) + i] = t[i]
           /\ Range(s \o t) = Range(s) \cup Range(t)
<1>1. /\ s \o t \in Seq(S)
      /\ Len(s) \in Nat /\ Len(t) \in Nat /\ Len(s \o t) = Len(s) + Len(t)
      /\ \A i \in 1..(Len(s) + Len(t)) :
            (s \o t)[i] = IF i <= Len(s) THEN s[i] ELSE t[i - Len(s)]
  BY ConcatProperties, LenProperties
<1>2. DOMAIN s = 1..Len(s) /\ DOMAIN t = 1..Len(t) /\ DOMAIN (s \o t) = 1..(Len(s) + Len(t))
  BY <1>1, LenProperties
<1>3. \A i \in 1..Len(s) : i \in 1..(Len(s) + Len(t)) /\ (s \o t)[i] = s[i]
  BY <1>1
<1>4. \A i \in 1..Len(t) : Len(s) + i \in 1..(Len(s) + Len(t)) /\ (s \o t)[Len(s) + i] = t[i]
  BY <1>1
<1>5. ASSUME NEW i \in 1..(Len(s) + Len(t))
      PROVE  (s \o t)[i] \in Range(s) \cup Range(t)
  <2>1. CASE i <= Len(s)
    BY <1>1, <1>2, <2>1 DEF Range
  <2>2. CASE ~(i <= Len(s))
    <3>1. i - Len(s) \in 1..Len(t) /\ (s \o t)[i] = t[i - Len(s)]
      BY <1>1, <2>2
    <3>2. QED
      BY <1>2, <3>1 DEF Range
  <2>3. QED
    BY <2>1, <2>2
<1>6. Range(s \o t) = Range(s) \cup Range(t)
  <2>1. Range(s) \subseteq Range(s \o t)
    BY <1>2, <1>3 DEF Range
  <2>2. Range(t) \subseteq Range(s \o t)
    BY <1>2, <1>4 DEF Range
  <2>3. Range(s \o t) \subseteq Range(s) \cup Range(t)
    BY <1>2, <1>5 DEF Range
  <2>4. QED
    BY <2>1, <2>2, <2>3
<1>7. QED
  BY <1>1, <1>2, <1>3, <1>4, <1>6

LEMMA DistinctJoined ==
    ASSUME NEW S, NEW s \in Seq(S), NEW t \in Seq(S), Distinct(s), Distinct(t),
           Range(s) \cap Range(t) = {}
    PROVE  Distinct(s \o t)
<1>1. /\ Len(s) \in Nat /\ Len(t) \in Nat
      /\ DOMAIN s = 1..Len(s) /\ DOMAIN t = 1..Len(t)
      /\ DOMAIN (s \o t) = 1..(Len(s) + Len(t))
      /\ \A i \in 1..Len(s) : (s \o t)[i] = s[i]
      /\ \A i \in 1..Len(t) : (s \o t)[Len(s) + i] = t[i]
  BY Concatenation
<1>2. SUFFICES ASSUME NEW i \in 1..(Len(s) + Len(t)), NEW j \in 1..(Len(s) + Len(t)), i < j
               PROVE  (s \o t)[i] # (s \o t)[j]
  BY <1>1 DEF Distinct
<1>3. CASE j <= Len(s)
  <2>1. i \in 1..Len(s) /\ j \in 1..Len(s)
    BY <1>1, <1>2, <1>3
  <2>2. QED
    BY <1>1, <1>2, <2>1 DEF Distinct
<1>4. CASE i <= Len(s) /\ ~(j <= Len(s))
  <2>1. i \in 1..Len(s) /\ j - Len(s) \in 1..Len(t) /\ Len(s) + (j - Len(s)) = j
    BY <1>1, <1>2, <1>4
  <2>2. (s \o t)[i] \in Range(s) /\ (s \o t)[j] \in Range(t)
    BY <1>1, <2>1 DEF Range
  <2>3. QED
    BY <2>2
<1>5. CASE ~(i <= Len(s))
  <2>1. /\ i - Len(s) \in 1..Len(t) /\ Len(s) + (i - Len(s)) = i
        /\ j - Len(s) \in 1..Len(t) /\ Len(s) + (j - Len(s)) = j
        /\ i - Len(s) < j - Len(s)
    BY <1>1, <1>2, <1>5
  <2>2. (s \o t)[i] = t[i - Len(s)] /\ (s \o t)[j] = t[j - Len(s)]
    BY <1>1, <2>1
  <2>3. t[i - Len(s)] # t[j - Len(s)]
    BY <2>1 DEF Distinct
  <2>4. QED
    BY <2>2, <2>3, Zenon
<1>6. QED
  BY <1>3, <1>4, <1>5

(* A finite set in some order.                                             *)
LEMMA OrdersOf ==
    ASSUME NEW S, IsFiniteSet(S), NEW s \in SetToSeqs(S)
    PROVE  s \in Seq(S) /\ Distinct(s) /\ Range(s) = S
<1>1. Cardinality(S) \in Nat
  BY FS_CardinalityType
<1>2. /\ s \in [1..Cardinality(S) -> S]
      /\ \A i, j \in 1..Cardinality(S) : i # j => s[i] # s[j]
  BY DEF SetToSeqs
<1>3. s \in Seq(S)
  BY <1>1, <1>2
<1>4. Distinct(s)
  BY <1>1, <1>2 DEF Distinct
<1>5. s \in Injection(1..Cardinality(S), S)
  BY <1>2 DEF Injection, IsInjective
<1>6. IsFiniteSet(1..Cardinality(S)) /\ Cardinality(1..Cardinality(S)) = Cardinality(S)
  BY <1>1, FS_Interval
<1>7. s \in Surjection(1..Cardinality(S), S)
  BY <1>5, <1>6, FS_Injection
<1>8. Range(s) = S
  BY <1>2, <1>7 DEF Surjection, Range
<1>9. QED
  BY <1>3, <1>4, <1>8

(* The entries of a sequence that are in a set are those, each as often as *)
(* before.                                                                 *)
LEMMA EntriesAre ==
    ASSUME NEW B, NEW s \in Seq(B), NEW S
    PROVE  /\ EntriesIn(s, S) \in Seq(B)
           /\ Range(EntriesIn(s, S)) = Range(s) \cap S
           /\ Distinct(s) => Distinct(EntriesIn(s, S))
<1> DEFINE at == {i \in DOMAIN s : s[i] \in S}
           before(i) == {j \in at : j < i}
           K == Cardinality(at)
           nth(n) == CHOOSE i \in at : Cardinality(before(i)) = n - 1
           e == [n \in 1..K |-> s[nth(n)]]
           rank == [i \in at |-> Cardinality(before(i)) + 1]
<1>1. DOMAIN s = 1..Len(s) /\ Len(s) \in Nat /\ at \subseteq 1..Len(s)
  BY LenProperties
<1>8. EntriesIn(s, S) = e
  BY DEF EntriesIn
<1>14. \A i \in DOMAIN s : i \in at <=> s[i] \in S
  OBVIOUS
<1> HIDE DEF at
<1>2. IsFiniteSet(at) /\ K \in Nat
  <2>1. IsFiniteSet(1..Len(s))
    BY <1>1, FS_Interval
  <2>2. IsFiniteSet(at)
    BY <1>1, <2>1, FS_Subset
  <2>3. QED
    BY <2>2, FS_CardinalityType
<1>3. ASSUME NEW i \in at
      PROVE  IsFiniteSet(before(i)) /\ Cardinality(before(i)) \in 0..(K - 1)
  <2>1. before(i) \subseteq at \ {i}
    BY <1>1
  <2> HIDE DEF before
  <2>2. IsFiniteSet(at \ {i}) /\ Cardinality(at \ {i}) = K - 1
    BY <1>2, <1>3, FS_RemoveElement
  <2>3. IsFiniteSet(before(i)) /\ Cardinality(before(i)) <= K - 1
    BY <2>1, <2>2, FS_Subset
  <2>4. Cardinality(before(i)) \in Nat
    BY <2>3, FS_CardinalityType
  <2> HIDE DEF K
  <2>5. QED
    BY <1>2, <2>3, <2>4
<1> HIDE DEF K
<1>4. ASSUME NEW i \in at, NEW j \in at, i < j
      PROVE  Cardinality(before(i)) < Cardinality(before(j))
  <2>1. before(i) \subseteq before(j) \ {i} /\ i \in before(j)
    <3>1. at \subseteq Nat
      BY <1>1
    <3>2. i \in before(j) /\ i \notin before(i)
      BY <1>4, <3>1
    <3>3. \A k \in at : k < i => k < j
      BY <1>4, <3>1
    <3>4. QED
      BY <3>2, <3>3
  <2>2. /\ IsFiniteSet(before(j))
        /\ Cardinality(before(j)) \in 0..(K - 1) /\ Cardinality(before(i)) \in 0..(K - 1)
    BY <1>3
  <2> HIDE DEF before
  <2>3. IsFiniteSet(before(j) \ {i}) /\ Cardinality(before(j) \ {i}) = Cardinality(before(j)) - 1
    BY <2>1, <2>2, FS_RemoveElement
  <2>4. Cardinality(before(i)) <= Cardinality(before(j)) - 1
    BY <2>1, <2>3, FS_Subset
  <2>5. QED
    BY <1>2, <2>2, <2>4
<1> HIDE DEF before
<1>5. \A i \in at : rank[i] \in 1..K /\ rank[i] = Cardinality(before(i)) + 1
  <2> SUFFICES ASSUME NEW i \in at
               PROVE  rank[i] \in 1..K /\ rank[i] = Cardinality(before(i)) + 1
    OBVIOUS
  <2>1. Cardinality(before(i)) \in 0..(K - 1)
    BY <1>3
  <2>2. QED
    BY <1>2, <2>1
<1>15. rank \in [at -> 1..K]
  <2>1. \A i \in at : Cardinality(before(i)) + 1 \in 1..K
    BY <1>5
  <2>2. QED
    BY <2>1
<1> HIDE DEF rank
<1>6. \A i, j \in at : i # j => rank[i] # rank[j]
  <2>1. SUFFICES ASSUME NEW i \in at, NEW j \in at, i < j PROVE rank[i] # rank[j]
    BY <1>1
  <2>2. Cardinality(before(i)) < Cardinality(before(j))
    BY <1>4, <2>1
  <2>3. Cardinality(before(i)) \in 0..(K - 1) /\ Cardinality(before(j)) \in 0..(K - 1)
    BY <1>3
  <2>4. QED
    BY <1>2, <1>5, <2>2, <2>3
<1>7. ASSUME NEW n \in 1..K PROVE nth(n) \in at /\ rank[nth(n)] = n
  <2>2. rank \in Injection(at, 1..K)
    BY <1>6, <1>15 DEF Injection, IsInjective
  <2>3. IsFiniteSet(1..K) /\ Cardinality(1..K) = Cardinality(at)
    BY <1>2, FS_Interval DEF K
  <2>4. rank \in Surjection(at, 1..K)
    BY <1>2, <2>2, <2>3, FS_Injection
  <2>5. PICK i \in at : rank[i] = n
    BY <2>4 DEF Surjection
  <2>6. Cardinality(before(i)) = n - 1
    <3>1. Cardinality(before(i)) \in 0..(K - 1) /\ rank[i] = Cardinality(before(i)) + 1
      BY <1>3, <1>5
    <3>2. QED
      BY <1>2, <2>5, <3>1
  <2>7. nth(n) \in at /\ Cardinality(before(nth(n))) = n - 1
    BY <2>6
  <2> HIDE DEF nth
  <2>8. QED
    BY <1>2, <1>5, <2>7
<1> HIDE DEF nth
<1>9. \A n \in 1..K : e[n] = s[nth(n)] /\ nth(n) \in DOMAIN s /\ s[nth(n)] \in S
  BY <1>1, <1>7, <1>14
<1>10. e \in Seq(B)
  <2>1. \A n \in 1..K : e[n] \in B
    BY <1>1, <1>9
  <2>2. QED
    BY <1>2, <2>1
<1>11. Range(e) = Range(s) \cap S
  <2>1. Range(e) \subseteq Range(s) \cap S
    BY <1>9 DEF Range
  <2>2. ASSUME NEW x \in Range(s) \cap S PROVE x \in Range(e)
    <3>1. PICK i \in DOMAIN s : s[i] = x
      BY DEF Range
    <3>2. i \in at
      BY <1>14, <3>1
    <3>3. rank[i] \in 1..K /\ nth(rank[i]) = i
      BY <1>5, <1>6, <1>7, <3>2
    <3>4. e[rank[i]] = x
      BY <3>1, <3>3
    <3>5. QED
      BY <3>3, <3>4 DEF Range
  <2>3. QED
    BY <2>1, <2>2
<1>12. ASSUME Distinct(s) PROVE Distinct(e)
  <2>1. \A i, j \in DOMAIN s : i # j => s[i] # s[j]
    BY <1>1, <1>12 DEF Distinct
  <2>2. ASSUME NEW n \in 1..K, NEW m \in 1..K, n < m PROVE e[n] # e[m]
    <3>1. nth(n) # nth(m)
      BY <1>2, <1>7, <2>2
    <3>2. QED
      BY <1>9, <2>1, <3>1
  <2>3. QED
    BY <2>2 DEF Distinct
<1>13. QED
  BY <1>8, <1>10, <1>11, <1>12

(* Every set of places has a first, before which there is none.            *)
LEMMA FirstPlace ==
    ASSUME NEW n \in Nat, NEW S \in SUBSET (1..n)
    PROVE  \E m \in 0..n : (\A i \in 1..m : i \notin S) /\ (m < n => m + 1 \in S)
<1> DEFINE R == StrictSubsetOrdering(1..n)
           T == {1..x : x \in S}
<1>1. CASE S = {}
  BY <1>1
<1>2. CASE S # {}
  <2>1. IsWellFoundedOn(R, SUBSET (1..n))
    <3>1. IsFiniteSet(1..n)
      BY FS_Interval
    <3>2. FiniteSubsetsOf(1..n) = SUBSET (1..n)
      BY <3>1, FS_FiniteSubsetsOfFinite
    <3>3. QED
      BY <3>2, FS_StrictSubsetOrderingWellFounded
  <2>2. T \subseteq SUBSET (1..n) /\ T # {}
    <3>1. \A x \in S : 1..x \in SUBSET (1..n)
      OBVIOUS
    <3>2. QED
      BY <1>2, <3>1
  <2> HIDE DEF T, R
  <2>3. \E y \in T : \A z \in T : ~ (<<z, y>> \in R)
    BY <2>1, <2>2, WFMin
  <2> USE DEF T
  <2>4. PICK x \in S : \A z \in T : ~ (<<z, 1..x>> \in R)
    BY <2>3
  <2>5. \A y \in S : x <= y
    <3> SUFFICES ASSUME NEW y \in S, y < x PROVE FALSE
      OBVIOUS
    <3>1. 1..y \subseteq 1..x /\ x \in 1..x /\ x \notin 1..y
      OBVIOUS
    <3>2. 1..y \in T /\ 1..x \in SUBSET (1..n) /\ 1..y \in SUBSET (1..n)
      OBVIOUS
    <3>3. <<1..y, 1..x>> \in R
      BY <3>1, <3>2 DEF StrictSubsetOrdering, R
    <3>4. QED
      BY <2>4, <3>2, <3>3
  <2>6. x - 1 \in 0..n /\ (\A i \in 1..(x - 1) : i \notin S) /\ x - 1 + 1 \in S
    BY <2>5
  <2>7. QED
    BY <2>6
<1>3. QED
  BY <1>1, <1>2

Entries == [id : Nat, res : Resources]

LEMMA EntriesTyped ==
    ASSUME NEW q \in Seq(Entries)
    PROVE  /\ DOMAIN q = 1..Len(q) /\ Len(q) \in Nat
           /\ \A i \in 1..Len(q) : q[i] \in Entries
           /\ \A i \in 1..Len(q) : q[i].id \in Nat /\ q[i].res \in Resources
<1>1. DOMAIN q = 1..Len(q) /\ Len(q) \in Nat
  BY LenProperties
<1>2. \A i \in 1..Len(q) : q[i] \in Entries
  BY <1>1, ElementOfSeq
<1>3. \A e \in Entries : e.id \in Nat /\ e.res \in Resources
  BY DEF Entries
<1>4. QED
  BY <1>1, <1>2, <1>3

LEMMA PrefixIsDeletable ==
    ASSUME NEW q \in Seq(Entries), NEW finished \in Nat
    PROVE  /\ DeletablePrefix(q, finished) \in 0..Len(q)
           /\ \A i \in 1..DeletablePrefix(q, finished) : q[i].id <= finished
           /\ DeletablePrefix(q, finished) < Len(q) =>
                 q[DeletablePrefix(q, finished) + 1].id > finished
<1> DEFINE S == {i \in 1..Len(q) : ~(q[i].id <= finished)}
           P(n) == /\ \A i \in 1..n : q[i].id <= finished
                   /\ n < Len(q) => q[n + 1].id > finished
<1>1. Len(q) \in Nat /\ \A i \in 1..Len(q) : q[i].id \in Nat
  BY EntriesTyped
<1>2. \E m \in 0..Len(q) : (\A i \in 1..m : i \notin S) /\ (m < Len(q) => m + 1 \in S)
  <2>1. Len(q) \in Nat /\ S \in SUBSET (1..Len(q))
    BY <1>1
  <2> HIDE DEF S
  <2>2. QED
    BY <2>1, FirstPlace
<1>3. \E m \in 0..Len(q) : P(m)
  <2>1. PICK m \in 0..Len(q) : (\A i \in 1..m : i \notin S) /\ (m < Len(q) => m + 1 \in S)
    BY <1>2
  <2>2. \A i \in 1..m : q[i].id <= finished
    BY <1>1, <2>1
  <2>3. m < Len(q) => q[m + 1].id > finished
    BY <1>1, <2>1
  <2>4. QED
    BY <2>2, <2>3
<1>4. QED
  BY <1>3 DEF DeletablePrefix

-----------------------------------------------------------------------------
(* The invariant.  Theorems about CUDA need streams that block.            *)

Blocking == "CUDA" \in Backends => StreamsBlock

ListsTyped ==
    /\ pool \in Seq(Buffers) /\ inFlight \in Seq(Buffers)
    /\ encoding \subseteq Buffers /\ unsubmitted \subseteq Buffers /\ sending \subseteq Buffers
    /\ handles \in [Buffers -> Nat]
    /\ submissionID \in [Buffers -> Nat]

RefsTyped ==
    /\ tracked \in [Buffers -> SUBSET Resources]
    /\ recorded \in [Buffers -> SUBSET Resources]
    /\ owned \subseteq Resources
    /\ resource \in [Resources -> {"live", "pushed", "deferred", "deleted"}]
    /\ deferred \in Seq(Entries)

TimelineTyped ==
    /\ backend \in Backends
    /\ lastSubmitted \in Nat /\ lastFinished \in 0..lastSubmitted
    /\ semaphore \in 0..lastSubmitted
    /\ pc \in {"idle", "send", "wait", "retire"}
    /\ stream \in Streams \cup {Default}
    /\ gpu \in Seq(Submission)
    /\ events \in Seq(0..lastSubmitted) /\ sinceEvent \in Nat
    /\ deviceHeld \in BOOLEAN /\ destroyed \in BOOLEAN

Typed == ListsTyped /\ RefsTyped /\ TimelineTyped

(* A buffer has one owner, and a client holds what it is to submit.        *)
OwnerInv ==
    /\ Distinct(pool) /\ Distinct(inFlight)
    /\ Range(pool) \cap Range(inFlight) = {}
    /\ Range(pool) \cap encoding = {} /\ Range(pool) \cap unsubmitted = {}
    /\ Range(inFlight) \cap encoding = {} /\ Range(inFlight) \cap unsubmitted = {}
    /\ encoding \cap unsubmitted = {}
    /\ \A b \in unsubmitted \cup sending : handles[b] > 0

(* The buffers of a submit() in progress.                                  *)
SendInv ==
    /\ pc # "send" => sending = {}
    /\ backend = "CUDA" =>
          /\ sending \cap Range(pool) = {} /\ sending \cap Range(inFlight) = {}
          /\ sending \cap encoding = {} /\ sending \cap unsubmitted = {}
    /\ backend # "CUDA" =>
          \A b \in sending : b \in Range(inFlight) /\ submissionID[b] = lastSubmitted

(* A resource is live exactly while somebody refers to it.                 *)
LiveInv ==
    \A r \in Resources :
       resource[r] = "live" <=> r \in owned \/ \E b \in Buffers : r \in tracked[b]

Ordered(q) == \A i, j \in DOMAIN q : i < j => q[i].id <= q[j].id /\ q[i].res # q[j].res

Waiting(q, r) == \E k \in DOMAIN q : q[k].res = r

(* What waits in the deferred queue is what is neither live nor deleted.   *)
DeferredInv ==
    /\ Ordered(deferred)
    /\ \A i \in DOMAIN deferred : deferred[i].id <= lastSubmitted
    /\ \A r \in Resources : resource[r] \in {"pushed", "deferred"} <=> Waiting(deferred, r)

(* What is recorded and not yet on the GPU is referred to; a buffer that   *)
(* is free has nothing recorded.                                           *)
RecordedInv ==
    /\ \A b \in encoding \cup unsubmitted \cup sending :
          \A r \in recorded[b] : r \in owned \/ r \in tracked[b]
    /\ \A b \in Buffers \ (encoding \cup unsubmitted \cup sending \cup Range(inFlight)) :
          recorded[b] = {}

(* The ID up to which the queue takes work as finished.                    *)
Reached == IF backend = "CUDA" THEN lastFinished ELSE semaphore

(* Submissions are in the order of their IDs, and not reached: on Metal a  *)
(* buffer that was executed stays until it is completed.                   *)
IdsInv ==
    /\ pc = "send" /\ backend # "CUDA" => semaphore < lastSubmitted
    /\ \A i \in DOMAIN gpu :
          /\ gpu[i].id <= lastSubmitted
          /\ pc = "send" /\ backend # "CUDA" => gpu[i].id < lastSubmitted
          /\ backend # "Metal" \/ gpu[i].uses # {} => gpu[i].id > Reached
          /\ backend = "Metal" => gpu[i].id >= semaphore
          /\ gpu[i].signals => gpu[i].id > semaphore
          /\ backend \in {"Vulkan", "CUDA"} => gpu[i].signals
    /\ \A i, j \in DOMAIN gpu : i < j =>
          /\ gpu[i].id <= gpu[j].id
          /\ gpu[i].signals => gpu[i].id < gpu[j].id

(* A buffer on the GPU is in flight under its ID.                          *)
BuffersInv ==
    \A i \in DOMAIN gpu : \A b \in gpu[i].buffers :
       b \in Range(inFlight) /\ submissionID[b] = gpu[i].id

(* What the GPU uses is live, or was given up after it was submitted.      *)
UsesInv ==
    \A i \in DOMAIN gpu : \A r \in gpu[i].uses :
       \/ resource[r] = "live"
       \/ \E k \in DOMAIN deferred : deferred[k].res = r /\ deferred[k].id >= gpu[i].id

(* Work on a stream of a client has an event; an event behind which there  *)
(* is work on the default stream is not reached.                           *)
EventsInv ==
    backend = "CUDA" =>
       /\ pc \in {"idle", "send"} /\ semaphore = 0
       /\ \A k, l \in DOMAIN events : k < l => events[k] < events[l]
       /\ \A i \in DOMAIN gpu :
             gpu[i].stream # Default => \E k \in DOMAIN events : events[k] = gpu[i].id
       /\ \A i \in DOMAIN gpu, k \in DOMAIN events :
             gpu[i].stream = Default /\ gpu[i].id < events[k] => OnGpu(events[k])

(* Once the device is gone nothing is left to do.                          *)
EndInv ==
    /\ ~deviceHeld => pc = "idle"
    /\ destroyed =>
          /\ ~deviceHeld /\ encoding = {} /\ gpu = <<>> /\ pool = <<>> /\ inFlight = <<>>
          /\ \A b \in Buffers : handles[b] = 0
          /\ \A r \in Resources : resource[r] \in {"deferred", "deleted"}
          /\ ShutdownAfterSuccess

-----------------------------------------------------------------------------
(* Types.                                                                  *)

(* Mutually deferred resources get the ID of what was submitted last.      *)
LEMMA Deferral ==
    ASSUME TimelineTyped, NEW rs \in SUBSET Resources, NEW d \in Deferred(rs)
    PROVE  /\ d \in Seq(Entries)
           /\ \A k \in DOMAIN d : d[k].id = lastSubmitted /\ d[k].res \in rs
           /\ \A r \in rs : \E k \in DOMAIN d : d[k].res = r
           /\ \A k, l \in DOMAIN d : k < l => d[k].res # d[l].res
<1>1. PICK s \in SetToSeqs(rs) : d = [i \in DOMAIN s |-> [id |-> DeferID, res |-> s[i]]]
  BY DEF Deferred
<1>2. IsFiniteSet(rs)
  BY FS_Subset, CommandQueueAssumption DEF CommandQueueAssumption
<1>3. s \in Seq(rs) /\ Distinct(s) /\ Range(s) = rs
  BY <1>2, OrdersOf
<1>4. DOMAIN s = 1..Len(s) /\ Len(s) \in Nat /\ DOMAIN d = DOMAIN s /\ \A i \in DOMAIN s : s[i] \in rs
  BY <1>1, <1>3, LenProperties, ElementOfSeq
<1>5. \A i \in DOMAIN d : d[i] = [id |-> lastSubmitted, res |-> s[i]]
  BY <1>1, <1>4 DEF DeferID
<1>6. lastSubmitted \in Nat
  BY DEF TimelineTyped
<1>7. d \in Seq(Entries)
  <2>1. \A i \in 1..Len(s) : d[i] \in Entries
    BY <1>4, <1>5, <1>6 DEF Entries
  <2>2. d = [i \in 1..Len(s) |-> d[i]]
    BY <1>1, <1>4
  <2>3. QED
    BY <1>4, <2>1, <2>2
<1>8. \A r \in rs : \E k \in DOMAIN d : d[k].res = r
  BY <1>3, <1>4, <1>5 DEF Range
<1>9. \A k, l \in DOMAIN d : k < l => d[k].res # d[l].res
  BY <1>3, <1>4, <1>5 DEF Distinct
<1>10. QED
  BY <1>4, <1>5, <1>7, <1>8, <1>9

LEMMA GoneTyped ==
    ASSUME RefsTyped, NEW bs \in SUBSET Buffers
    PROVE  LastReferenced(bs) \in SUBSET Resources
BY DEF RefsTyped, LastReferenced

LEMMA ResetTyped ==
    ASSUME ListsTyped, RefsTyped, TimelineTyped, NEW ok \in SUBSET Buffers, ResetBuffers(ok)
    PROVE  /\ tracked' \in [Buffers -> SUBSET Resources]
           /\ submissionID' \in [Buffers -> Nat]
           /\ deferred' \in Seq(Entries)
           /\ resource' \in [Resources -> {"live", "pushed", "deferred", "deleted"}]
<1>1. PICK d \in Deferred(LastReferenced(ok)) : deferred' = deferred \o d
  BY DEF ResetBuffers
<1>2. d \in Seq(Entries)
  BY Deferral, GoneTyped
<1>3. deferred' \in Seq(Entries)
  BY <1>1, <1>2, ConcatProperties DEF RefsTyped
<1>4. tracked' \in [Buffers -> SUBSET Resources] /\ submissionID' \in [Buffers -> Nat]
  BY DEF ResetBuffers, ListsTyped, RefsTyped
<1>5. resource' \in [Resources -> {"live", "pushed", "deferred", "deleted"}]
  BY DEF ResetBuffers, RefsTyped
<1>6. QED
  BY <1>3, <1>4, <1>5

(* What a retirement does, with the buffers that were reset and the queue  *)
(* of deferred deletes before any is executed.                             *)
RetireWith(done, finished, ok, d) ==
    LET gone == LastReferenced(ok)
        queue == deferred \o d
        n == DeletablePrefix(queue, finished)
        deleted == {queue[i].res : i \in 1..n}
    IN
    /\ tracked' = [b \in Buffers |-> IF b \in ok THEN {} ELSE tracked[b]]
    /\ submissionID' = [b \in Buffers |->
                           IF b \in ok /\ backend = "CUDA" THEN 0 ELSE submissionID[b]]
    /\ deferred' = SubSeq(queue, n + 1, Len(queue))
    /\ resource' = [r \in Resources |->
                       IF r \in deleted THEN "deleted"
                       ELSE IF r \in gone THEN "deferred" ELSE resource[r]]

LEMMA RetireSplit ==
    ASSUME RefsTyped, NEW done \in Seq(Buffers), NEW finished, NEW newPool,
           Retire(done, finished, newPool)
    PROVE  \E ok \in SUBSET Range(done) : \E d \in Deferred(LastReferenced(ok)) :
              RetireWith(done, finished, ok, d)
<1>1. Resets(Range(done)) \subseteq SUBSET Range(done)
  BY DEF Resets
<1>2. \E ok \in Resets(Range(done)) : \E d \in Deferred(LastReferenced(ok)) :
         RetireWith(done, finished, ok, d)
  BY DEF Retire, RetireWith
<1>3. QED
  BY <1>1, <1>2

LEMMA RangeTyped ==
    ASSUME NEW S, NEW s \in Seq(S)
    PROVE  Range(s) \subseteq S
BY ElementOfSeq, LenProperties DEF Range

LEMMA RetireTyped ==
    ASSUME ListsTyped, RefsTyped, TimelineTyped, NEW done \in Seq(Buffers),
           NEW finished \in Nat, NEW newPool \in Seq(Buffers), Retire(done, finished, newPool)
    PROVE  /\ pool' \in Seq(Buffers) /\ inFlight' \in Seq(Buffers)
           /\ submissionID' \in [Buffers -> Nat]
           /\ tracked' \in [Buffers -> SUBSET Resources]
           /\ recorded' \in [Buffers -> SUBSET Resources]
           /\ deferred' \in Seq(Entries)
           /\ resource' \in [Resources -> {"live", "pushed", "deferred", "deleted"}]
<1>1. Range(done) \subseteq Buffers
  BY RangeTyped
<1>2. PICK ok \in SUBSET Range(done) : \E d \in Deferred(LastReferenced(ok)) :
              RetireWith(done, finished, ok, d)
  BY RetireSplit
<1>3. PICK d \in Deferred(LastReferenced(ok)) : RetireWith(done, finished, ok, d)
  BY <1>2
<1>4. d \in Seq(Entries)
  BY <1>1, Deferral, GoneTyped
<1>5. deferred \o d \in Seq(Entries)
  BY <1>4, ConcatProperties DEF RefsTyped
<1>6. deferred' \in Seq(Entries)
  <2>1. PICK q \in Seq(Entries) : q = deferred \o d
    BY <1>5
  <2>2. DeletablePrefix(q, finished) \in 0..Len(q) /\ Len(q) \in Nat
    BY PrefixIsDeletable, LenProperties
  <2>3. deferred' = SubSeq(q, DeletablePrefix(q, finished) + 1, Len(q))
    BY <1>3, <2>1 DEF RetireWith
  <2>4. QED
    BY <2>2, <2>3, SubSeqProperties
<1>7. tracked' \in [Buffers -> SUBSET Resources] /\ submissionID' \in [Buffers -> Nat]
  BY <1>3 DEF RetireWith, ListsTyped, RefsTyped
<1>8. resource' \in [Resources -> {"live", "pushed", "deferred", "deleted"}]
  BY <1>3 DEF RetireWith, RefsTyped
<1>9. recorded' \in [Buffers -> SUBSET Resources] /\ pool' \in Seq(Buffers)
  BY DEF Retire, RefsTyped
<1>10. inFlight' \in Seq(Buffers)
  BY EntriesAre DEF Retire, ListsTyped
<1>11. QED
  BY <1>6, <1>7, <1>8, <1>9, <1>10

LEMMA ShutTyped ==
    ASSUME RefsTyped, NEW finished \in Nat, ShutDown(finished)
    PROVE  /\ deferred' \in Seq(Entries)
           /\ resource' \in [Resources -> {"live", "pushed", "deferred", "deleted"}]
           /\ pool' \in Seq(Buffers) /\ inFlight' \in Seq(Buffers)
           /\ UNCHANGED <<submissionID, recording, tracked, owned, submitter, backend, deviceHeld>>
<1>1. DeletablePrefix(deferred, finished) \in 0..Len(deferred) /\ Len(deferred) \in Nat
  BY PrefixIsDeletable, LenProperties DEF RefsTyped
<1>2. deferred' = SubSeq(deferred, DeletablePrefix(deferred, finished) + 1, Len(deferred))
  BY DEF ShutDown
<1>3. deferred' \in Seq(Entries)
  BY <1>1, <1>2, SubSeqProperties DEF RefsTyped
<1>4. resource' \in [Resources -> {"live", "pushed", "deferred", "deleted"}]
  BY DEF ShutDown, RefsTyped
<1>5. pool' \in Seq(Buffers) /\ inFlight' \in Seq(Buffers)
  BY EmptySeq DEF ShutDown
<1>6. QED
  BY <1>3, <1>4, <1>5 DEF ShutDown

LEMMA VulkanRetiring ==
    ASSUME ListsTyped, TimelineTyped, VulkanRetireCommandBuffers
    PROVE  \E done \in Seq(Buffers) :
              /\ Range(done) = Range(inFlight) \cap {b \in Buffers : VulkanRetires(b)}
              /\ Distinct(inFlight) => Distinct(done)
              /\ Retire(done, semaphore, pool \o done) /\ pool \o done \in Seq(Buffers)
<1> DEFINE done == EntriesIn(inFlight, {b \in Buffers : VulkanRetires(b)})
<1>1. /\ done \in Seq(Buffers)
      /\ Range(done) = Range(inFlight) \cap {b \in Buffers : VulkanRetires(b)}
      /\ Distinct(inFlight) => Distinct(done)
  BY EntriesAre DEF ListsTyped
<1>2. pool \o done \in Seq(Buffers)
  BY <1>1, ConcatProperties DEF ListsTyped
<1>3. Retire(done, semaphore, pool \o done)
  BY DEF VulkanRetireCommandBuffers
<1> HIDE DEF done
<1>4. QED
  BY <1>1, <1>2, <1>3

(* D3D12's shutdown() collects up to the value of its fence, the one it    *)
(* has signalled or, when its wait has failed, the one before.             *)
LEMMA D3D12Ends ==
    ASSUME TimelineTyped, D3D12DestroyDevice
    PROVE  \E finished \in Nat : /\ finished = semaphore' /\ ShutDown(finished)
                                 /\ finished \in {semaphore, lastSubmitted + 1}
<1>1. semaphore \in Nat /\ lastSubmitted + 1 \in Nat
  BY DEF TimelineTyped
<1>2. CASE semaphore' = semaphore
  <2>1. ShutDown(semaphore)
    BY <1>2 DEF D3D12DestroyDevice
  <2>2. QED
    BY <1>1, <1>2, <2>1
<1>3. CASE semaphore' = lastSubmitted + 1
  <2>1. ShutDown(lastSubmitted + 1)
    BY <1>3 DEF D3D12DestroyDevice
  <2>2. QED
    BY <1>1, <1>3, <2>1
<1>4. QED
  BY <1>2, <1>3 DEF D3D12DestroyDevice

LEMMA D3D12Retiring ==
    ASSUME ListsTyped, TimelineTyped, D3D12RetireCommandBuffers
    PROVE  \E done \in Seq(Buffers) :
              /\ Range(done) = Range(inFlight) \cap {b \in Buffers : D3D12Retires(b)}
              /\ Distinct(inFlight) => Distinct(done)
              /\ Retire(done, semaphore, pool \o done) /\ pool \o done \in Seq(Buffers)
<1> DEFINE done == EntriesIn(inFlight, {b \in Buffers : D3D12Retires(b)})
<1>1. /\ done \in Seq(Buffers)
      /\ Range(done) = Range(inFlight) \cap {b \in Buffers : D3D12Retires(b)}
      /\ Distinct(inFlight) => Distinct(done)
  BY EntriesAre DEF ListsTyped
<1>2. pool \o done \in Seq(Buffers)
  BY <1>1, ConcatProperties DEF ListsTyped
<1>3. Retire(done, semaphore, pool \o done)
  BY DEF D3D12RetireCommandBuffers
<1> HIDE DEF done
<1>4. QED
  BY <1>1, <1>2, <1>3

LEMMA MetalRetiring ==
    ASSUME ListsTyped, TimelineTyped, MetalRetireCommandBuffers
    PROVE  \E done \in Seq(Buffers) :
              /\ Range(done) = Range(inFlight) \cap {b \in Buffers : Completed(b)}
              /\ Distinct(inFlight) => Distinct(done)
              /\ Retire(done, semaphore, pool)
<1> DEFINE done == EntriesIn(inFlight, {b \in Buffers : Completed(b)})
<1>1. /\ done \in Seq(Buffers)
      /\ Range(done) = Range(inFlight) \cap {b \in Buffers : Completed(b)}
      /\ Distinct(inFlight) => Distinct(done)
  BY EntriesAre DEF ListsTyped
<1>2. Retire(done, semaphore, pool)
  BY DEF MetalRetireCommandBuffers
<1> HIDE DEF done
<1>3. QED
  BY <1>1, <1>2

LEMMA FinishedAre ==
    ASSUME ListsTyped, NEW id
    PROVE  /\ Finished(id) \in Seq(Buffers)
           /\ Range(Finished(id)) = Range(inFlight) \cap {b \in Buffers : submissionID[b] <= id}
           /\ Distinct(inFlight) => Distinct(Finished(id))
BY EntriesAre DEF Finished, ListsTyped

LEMMA EventsComplete ==
    ASSUME TimelineTyped
    PROVE  /\ CompleteEvents \in 0..Len(events)
           /\ \A i \in 1..CompleteEvents : ~OnGpu(events[i])
           /\ CompleteEvents < Len(events) => OnGpu(events[CompleteEvents + 1])
<1> DEFINE S == {i \in 1..Len(events) : OnGpu(events[i])}
           P(n) == /\ \A i \in 1..n : ~OnGpu(events[i])
                   /\ n < Len(events) => OnGpu(events[n + 1])
<1>1. Len(events) \in Nat
  BY LenProperties DEF TimelineTyped
<1>2. \E m \in 0..Len(events) : (\A i \in 1..m : i \notin S) /\ (m < Len(events) => m + 1 \in S)
  <2>1. S \in SUBSET (1..Len(events))
    OBVIOUS
  <2> HIDE DEF S
  <2>2. QED
    BY <1>1, <2>1, FirstPlace
<1>3. \E m \in 0..Len(events) : P(m)
  <2>1. PICK m \in 0..Len(events) :
           (\A i \in 1..m : i \notin S) /\ (m < Len(events) => m + 1 \in S)
    BY <1>2
  <2>2. \A i \in 1..m : i \in 1..Len(events)
    BY <1>1
  <2>3. P(m)
    BY <2>1, <2>2
  <2>4. QED
    BY <2>3
<1>4. QED
  BY <1>3 DEF CompleteEvents

LEMMA FinishedNowTyped ==
    ASSUME TimelineTyped
    PROVE  FinishedNow \in 0..lastSubmitted
<1>1. CASE events # <<>> /\ CompleteEvents > 0
  <2>1. CompleteEvents \in 1..Len(events) /\ Len(events) \in Nat
    BY <1>1, EventsComplete, LenProperties DEF TimelineTyped
  <2>2. events[CompleteEvents] \in 0..lastSubmitted
    BY <2>1, ElementOfSeq DEF TimelineTyped
  <2>3. QED
    BY <1>1, <2>2 DEF FinishedNow, TimelineTyped
<1>2. CASE ~(events # <<>> /\ CompleteEvents > 0)
  BY <1>2 DEF FinishedNow, TimelineTyped
<1>3. QED
  BY <1>1, <1>2

LEMMA EventsDropped ==
    ASSUME TimelineTyped, DropEvents
    PROVE  /\ events' \in Seq(0..lastSubmitted)
           /\ Len(events) \in Nat /\ CompleteEvents \in 0..Len(events)
           /\ DOMAIN events = 1..Len(events) /\ DOMAIN events' = 1..(Len(events) - CompleteEvents)
           /\ \A i \in DOMAIN events' : events'[i] = events[CompleteEvents + i]
<1>1. CompleteEvents \in 0..Len(events) /\ Len(events) \in Nat
  BY EventsComplete, LenProperties DEF TimelineTyped
<1>2. events' = SubSeq(events, CompleteEvents + 1, Len(events))
  BY DEF DropEvents
<1>3. \A i \in (CompleteEvents + 1)..Len(events) : events[i] \in 0..lastSubmitted
  <2>1. \A i \in (CompleteEvents + 1)..Len(events) : i \in 1..Len(events)
    BY <1>1
  <2>2. QED
    BY <2>1, ElementOfSeq DEF TimelineTyped
<1> HIDE DEF CompleteEvents
<1>4. /\ events' \in Seq(0..lastSubmitted)
      /\ Len(events') = Len(events) - CompleteEvents
      /\ \A i \in 1..(Len(events) - CompleteEvents) : events'[i] = events[CompleteEvents + i]
  BY <1>1, <1>2, <1>3, SubSeqProperties
<1>5. QED
  BY <1>1, <1>4, LenProperties DEF TimelineTyped

LEMMA FromEmptyPool ==
    ASSUME ListsTyped, TimelineTyped, NEW b \in Buffers, CreateEncoderFromEmptyPool(b)
    PROVE  \E done \in Seq(Buffers), newPool \in Seq(Buffers) :
              /\ done = Finished(FinishedNow)
              /\ Retire(done, FinishedNow, newPool)
              /\ \/ done = <<>> /\ newPool = <<>> /\ ~Alive(b)
                 \/ done # <<>> /\ newPool = Tail(done) /\ b = Head(done)
<1> DEFINE done == Finished(FinishedNow)
           newPool == IF done = <<>> THEN <<>> ELSE Tail(done)
<1>1. done \in Seq(Buffers)
  BY FinishedAre
<1>2. newPool \in Seq(Buffers)
  BY <1>1, EmptySeq, HeadTailProperties
<1>3. Retire(done, FinishedNow, newPool) /\ IF done = <<>> THEN ~Alive(b) ELSE b = Head(done)
  BY DEF CreateEncoderFromEmptyPool
<1> HIDE DEF done
<1>4. QED
  BY <1>1, <1>2, <1>3 DEF done

LEMMA ListsNext == ListsTyped /\ RefsTyped /\ TimelineTyped /\ [Next]_vars =>
   ListsTyped'
<1> SUFFICES ASSUME ListsTyped, RefsTyped, TimelineTyped, [Next]_vars PROVE ListsTyped'
  OBVIOUS
<1> USE DEF lists, recording, submitter, timeline, device
<1>1. ASSUME NEW b \in Buffers, NEW r \in Resources, RecordTracked(b, r) PROVE
   ListsTyped'
  BY <1>1 DEF RecordTracked, ListsTyped
<1>2. ASSUME NEW b \in Buffers, NEW r \in Resources, RecordRaw(b, r) PROVE ListsTyped'
  BY <1>2 DEF RecordRaw, ListsTyped
<1>3. ASSUME NEW b \in Buffers, FinishEncoder(b) PROVE ListsTyped'
  BY <1>3 DEF FinishEncoder, ListsTyped
<1>4. ASSUME NEW b \in Buffers, ReleaseBuffer(b) PROVE ListsTyped'
  <2>1. CASE handles[b] = 1 /\ b \notin Range(pool) \cup Range(inFlight) \cup encoding
    <3>1. ResetBuffers({b})
      BY <1>4, <2>1 DEF ReleaseBuffer
    <3>2. submissionID' \in [Buffers -> Nat]
      BY <3>1, ResetTyped
    <3>3. handles' \in [Buffers -> Nat]
      <4>1. handles' = [handles EXCEPT ![b] = 0]
        BY <1>4, <2>1 DEF ReleaseBuffer
      <4>2. QED
        BY <4>1 DEF ListsTyped
    <3>4. QED
      BY <1>4, <2>1, <3>2, <3>3 DEF ReleaseBuffer, ListsTyped
  <2>2. CASE ~(handles[b] = 1 /\ b \notin Range(pool) \cup Range(inFlight) \cup encoding)
    BY <1>4, <2>2 DEF ReleaseBuffer, ListsTyped
  <2>3. QED
    BY <2>1, <2>2
<1>5. ASSUME NEW r \in Resources, ReleaseResource(r) PROVE ListsTyped'
  BY <1>5 DEF ReleaseResource, ListsTyped
<1>6. ASSUME ReleaseDevice PROVE ListsTyped'
  BY <1>6 DEF ReleaseDevice, ListsTyped
<1>7. ASSUME NEW r \in Resources, BreakDeviceReference(r) PROVE ListsTyped'
  BY <1>7 DEF BreakDeviceReference, ListsTyped
<1>8. ASSUME NEW b \in Buffers, CreateEncoder(b), backend = "CUDA" => pool # <<>> PROVE
   ListsTyped'
  <2>1. pool' \in Seq(Buffers)
    BY <1>8, HeadTailProperties DEF CreateEncoder, PoolAfterTake, ListsTyped
  <2>2. QED
    BY <1>8, <2>1 DEF CreateEncoder, ListsTyped
<1>9. ASSUME NEW b \in Buffers, DropEncoder(b) PROVE ListsTyped'
  <2>1. PICK ok \in Resets({b}) : ResetBuffers(ok)
    BY <1>9 DEF DropEncoder
  <2>2. ok \in SUBSET Buffers
    BY <2>1 DEF Resets
  <2>3. submissionID' \in [Buffers -> Nat]
    BY <2>1, <2>2, ResetTyped
  <2>4. Append(pool, b) \in Seq(Buffers)
    BY AppendProperties DEF ListsTyped
  <2>5. QED
    BY <1>9, <2>3, <2>4 DEF DropEncoder, ListsTyped
<1>10. ASSUME NEW bs \in SUBSET Buffers, backend # "CUDA", BeginSubmit(bs) PROVE
   ListsTyped'
  <2>1. PICK s \in SetToSeqs(bs) : inFlight' = inFlight \o s
    BY <1>10 DEF BeginSubmit
  <2>2. IsFiniteSet(bs)
    BY FS_Subset, CommandQueueAssumption DEF CommandQueueAssumption
  <2>3. s \in Seq(Buffers)
    BY <2>1, <2>2, OrdersOf, SeqMonotonic
  <2>4. inFlight' \in Seq(Buffers)
    BY <2>1, <2>3, ConcatProperties DEF ListsTyped
  <2>5. submissionID' \in [Buffers -> Nat]
    BY <1>10 DEF BeginSubmit, ListsTyped, TimelineTyped
  <2>6. QED
    BY <1>10, <2>4, <2>5 DEF BeginSubmit, ListsTyped
<1>11. ASSUME backend = "Vulkan", QueueSubmit PROVE ListsTyped'
  BY <1>11 DEF QueueSubmit, Work, ListsTyped
<1>12. ASSUME backend = "Vulkan", VulkanWaitOnHost PROVE ListsTyped'
  BY <1>12 DEF VulkanWaitOnHost, ListsTyped
<1>13. ASSUME backend = "Vulkan", VulkanRetireCommandBuffers PROVE ListsTyped'
  <2>1. PICK done \in Seq(Buffers) : Retire(done, semaphore, pool \o done) /\ pool \o
     done \in Seq(Buffers)
    BY <1>13, VulkanRetiring
  <2>2. semaphore \in Nat
    BY DEF TimelineTyped
  <2>3. QED
    BY <1>13, <2>1, <2>2, RetireTyped DEF VulkanRetireCommandBuffers, ListsTyped
<1>14. ASSUME backend = "Vulkan", VulkanGpuFinish PROVE ListsTyped'
  BY <1>14 DEF VulkanGpuFinish, ListsTyped
<1>15. ASSUME backend = "Vulkan", VulkanDestroyDevice PROVE ListsTyped'
  <2>1. ShutDown(semaphore) /\ semaphore \in Nat
    BY <1>15 DEF VulkanDestroyDevice, TimelineTyped
  <2>2. QED
    BY <1>15, <2>1, ShutTyped DEF VulkanDestroyDevice, ListsTyped
<1>16. ASSUME backend = "D3D12", FailToWaitForFence PROVE ListsTyped'
  BY <1>16 DEF FailToWaitForFence, ListsTyped
<1>17. ASSUME backend = "D3D12", Execute PROVE ListsTyped'
  BY <1>17 DEF Execute, Work, ListsTyped
<1>18. ASSUME backend = "D3D12", BeginWait PROVE ListsTyped'
  BY <1>18 DEF BeginWait, Work, ListsTyped
<1>19. ASSUME backend = "D3D12", EndWait PROVE ListsTyped'
  BY <1>19 DEF EndWait, ListsTyped
<1>20. ASSUME backend = "D3D12", D3D12RetireCommandBuffers PROVE ListsTyped'
  <2>1. PICK done \in Seq(Buffers) : Retire(done, semaphore, pool \o done) /\ pool \o
     done \in Seq(Buffers)
    BY <1>20, D3D12Retiring
  <2>2. semaphore \in Nat
    BY DEF TimelineTyped
  <2>3. QED
    BY <1>20, <2>1, <2>2, RetireTyped DEF D3D12RetireCommandBuffers, ListsTyped
<1>21. ASSUME backend = "D3D12", D3D12GpuFinish PROVE ListsTyped'
  BY <1>21 DEF D3D12GpuFinish, ListsTyped
<1>22. ASSUME backend = "D3D12", D3D12DestroyDevice PROVE ListsTyped'
  <2>1. PICK finished \in Nat : ShutDown(finished)
    BY <1>22, D3D12Ends
  <2>2. QED
    BY <2>1, ShutTyped DEF ListsTyped
<1>23. ASSUME backend = "Metal", Commit PROVE ListsTyped'
  BY <1>23 DEF Commit, ListsTyped
<1>24. ASSUME backend = "Metal", MetalWaitOnHost PROVE ListsTyped'
  BY <1>24 DEF MetalWaitOnHost, ListsTyped
<1>25. ASSUME backend = "Metal", MetalRetireCommandBuffers PROVE ListsTyped'
  <2>1. PICK done \in Seq(Buffers) : Retire(done, semaphore, pool)
    BY <1>25, MetalRetiring
  <2>2. semaphore \in Nat
    BY DEF TimelineTyped
  <2>3. QED
    BY <1>25, <2>1, <2>2, RetireTyped DEF MetalRetireCommandBuffers, ListsTyped
<1>26. ASSUME backend = "Metal", GpuSignal PROVE ListsTyped'
  BY <1>26 DEF GpuSignal, ListsTyped
<1>27. ASSUME backend = "Metal", GpuComplete PROVE ListsTyped'
  BY <1>27 DEF GpuComplete, ListsTyped
<1>28. ASSUME backend = "Metal", MetalDestroyDevice PROVE ListsTyped'
  <2>1. ShutDown(semaphore) /\ semaphore \in Nat
    BY <1>28 DEF MetalDestroyDevice, TimelineTyped
  <2>2. QED
    BY <1>28, <2>1, ShutTyped DEF MetalDestroyDevice, ListsTyped
<1>29. ASSUME NEW b \in Buffers, backend = "CUDA", CreateEncoderFromEmptyPool(b) PROVE
   ListsTyped'
  <2>1. PICK done \in Seq(Buffers), newPool \in Seq(Buffers) : Retire(done, FinishedNow, newPool)
    BY <1>29, FromEmptyPool
  <2>2. FinishedNow \in Nat
    BY FinishedNowTyped DEF TimelineTyped
  <2>3. QED
    BY <1>29, <2>1, <2>2, RetireTyped DEF CreateEncoderFromEmptyPool, ListsTyped
<1>30. ASSUME NEW bs \in SUBSET Buffers, NEW s \in Streams \cup {Default}, backend =
   "CUDA", BeginSubmitTo(bs, s) PROVE ListsTyped'
  BY <1>30 DEF BeginSubmitTo, ListsTyped
<1>31. ASSUME NEW b \in Buffers, backend = "CUDA", ExecuteBuffer(b) PROVE ListsTyped'
  <2>1. inFlight' \in Seq(Buffers)
    BY <1>31, AppendProperties DEF ExecuteBuffer, ListsTyped
  <2>2. QED
    BY <1>31, <2>1 DEF ExecuteBuffer, ListsTyped, TimelineTyped
<1>32. ASSUME backend = "CUDA", EndSubmit PROVE ListsTyped'
  BY <1>32 DEF EndSubmit, ListsTyped
<1>33. ASSUME backend = "CUDA", CUDARetireCommandBuffers PROVE ListsTyped'
  <2>1. Finished(FinishedNow) \in Seq(Buffers) /\ FinishedNow \in Nat
    BY FinishedAre, FinishedNowTyped DEF TimelineTyped
  <2>2. pool \o Finished(FinishedNow) \in Seq(Buffers)
    BY <2>1, ConcatProperties DEF ListsTyped
  <2>3. Retire(Finished(FinishedNow), FinishedNow, pool \o Finished(FinishedNow))
    BY <1>33 DEF CUDARetireCommandBuffers
  <2>4. QED
    BY <1>33, <2>1, <2>2, <2>3, RetireTyped DEF CUDARetireCommandBuffers, ListsTyped
<1>34. ASSUME backend = "CUDA", CUDAWaitOnHost PROVE ListsTyped'
  <2>1. inFlight \in Seq(Buffers) /\ pool \o inFlight \in Seq(Buffers) /\ lastSubmitted \in Nat
    BY ConcatProperties DEF ListsTyped, TimelineTyped
  <2>2. Retire(inFlight, lastSubmitted, pool \o inFlight)
    BY <1>34 DEF CUDAWaitOnHost
  <2>3. QED
    BY <1>34, <2>1, <2>2, RetireTyped DEF CUDAWaitOnHost, ListsTyped
<1>35. ASSUME NEW i \in DOMAIN gpu, backend = "CUDA", CUDAGpuFinish(i) PROVE ListsTyped'
  BY <1>35 DEF CUDAGpuFinish, ListsTyped
<1>36. ASSUME backend = "CUDA", CUDADestroyDevice PROVE ListsTyped'
  <2>1. ShutDown(lastSubmitted) /\ lastSubmitted \in Nat
    BY <1>36 DEF CUDADestroyDevice, TimelineTyped
  <2>2. QED
    BY <1>36, <2>1, ShutTyped DEF CUDADestroyDevice, ListsTyped
<1>37. CASE UNCHANGED vars
  BY <1>37 DEF vars, ListsTyped
<1>38. QED
  BY <1>1, <1>2, <1>3, <1>4, <1>5, <1>6, <1>7, <1>8, <1>9, <1>10, <1>11, <1>12, <1>13,
     <1>14, <1>15, <1>16, <1>17, <1>18, <1>19, <1>20, <1>21, <1>22, <1>23, <1>24, <1>25,
     <1>26, <1>27, <1>28, <1>29, <1>30, <1>31, <1>32, <1>33, <1>34, <1>35, <1>36, <1>37,
     CommandQueueAssumption DEF Next, ClientStep, SubmitterStep, GpuStep, DestroyDevice,
     VulkanClientStep, VulkanSubmitterStep, D3D12ClientStep, D3D12SubmitterStep,
     MetalClientStep, MetalSubmitterStep, MetalGpuStep, CUDAClientStep,
     CUDASubmitterStep, CUDAGpuStep

LEMMA RefsNext == ListsTyped /\ RefsTyped /\ TimelineTyped /\ [Next]_vars => RefsTyped'
<1> SUFFICES ASSUME ListsTyped, RefsTyped, TimelineTyped, [Next]_vars PROVE RefsTyped'
  OBVIOUS
<1> USE DEF lists, recording, submitter, timeline, device
<1>1. ASSUME NEW b \in Buffers, NEW r \in Resources, RecordTracked(b, r) PROVE
   RefsTyped'
  BY <1>1 DEF RecordTracked, RefsTyped
<1>2. ASSUME NEW b \in Buffers, NEW r \in Resources, RecordRaw(b, r) PROVE RefsTyped'
  BY <1>2 DEF RecordRaw, RefsTyped
<1>3. ASSUME NEW b \in Buffers, FinishEncoder(b) PROVE RefsTyped'
  BY <1>3 DEF FinishEncoder, RefsTyped
<1>4. ASSUME NEW b \in Buffers, ReleaseBuffer(b) PROVE RefsTyped'
  <2>1. CASE handles[b] = 1 /\ b \notin Range(pool) \cup Range(inFlight) \cup encoding
    <3>1. ResetBuffers({b})
      BY <1>4, <2>1 DEF ReleaseBuffer
    <3>2. QED
      BY <1>4, <2>1, <3>1, ResetTyped DEF ReleaseBuffer, RefsTyped
  <2>2. CASE ~(handles[b] = 1 /\ b \notin Range(pool) \cup Range(inFlight) \cup encoding)
    BY <1>4, <2>2 DEF ReleaseBuffer, RefsTyped
  <2>3. QED
    BY <2>1, <2>2
<1>5. ASSUME NEW r \in Resources, ReleaseResource(r) PROVE RefsTyped'
  <2>1. PICK d \in Deferred({r}) :
           deferred' = IF \A b \in Buffers : r \notin tracked[b] THEN deferred \o d ELSE deferred
    BY <1>5 DEF ReleaseResource
  <2>2. d \in Seq(Entries)
    BY Deferral
  <2>3. deferred' \in Seq(Entries)
    BY <2>1, <2>2, ConcatProperties DEF RefsTyped
  <2>4. QED
    BY <1>5, <2>3 DEF ReleaseResource, RefsTyped
<1>6. ASSUME ReleaseDevice PROVE RefsTyped'
  BY <1>6 DEF ReleaseDevice, RefsTyped
<1>7. ASSUME NEW r \in Resources, BreakDeviceReference(r) PROVE RefsTyped'
  BY <1>7 DEF BreakDeviceReference, RefsTyped
<1>8. ASSUME NEW b \in Buffers, CreateEncoder(b), backend = "CUDA" => pool # <<>> PROVE
   RefsTyped'
  BY <1>8 DEF CreateEncoder, PoolAfterTake, RefsTyped
<1>9. ASSUME NEW b \in Buffers, DropEncoder(b) PROVE RefsTyped'
  <2>1. PICK ok \in Resets({b}) : ResetBuffers(ok)
    BY <1>9 DEF DropEncoder
  <2>2. ok \in SUBSET Buffers
    BY <2>1 DEF Resets
  <2>3. QED
    BY <1>9, <2>1, <2>2, ResetTyped DEF DropEncoder, RefsTyped
<1>10. ASSUME NEW bs \in SUBSET Buffers, backend # "CUDA", BeginSubmit(bs) PROVE
   RefsTyped'
  BY <1>10 DEF BeginSubmit, RefsTyped
<1>11. ASSUME backend = "Vulkan", QueueSubmit PROVE RefsTyped'
  BY <1>11 DEF QueueSubmit, Work, RefsTyped
<1>12. ASSUME backend = "Vulkan", VulkanWaitOnHost PROVE RefsTyped'
  BY <1>12 DEF VulkanWaitOnHost, RefsTyped
<1>13. ASSUME backend = "Vulkan", VulkanRetireCommandBuffers PROVE RefsTyped'
  <2>1. PICK done \in Seq(Buffers) : Retire(done, semaphore, pool \o done) /\ pool \o
     done \in Seq(Buffers)
    BY <1>13, VulkanRetiring
  <2>2. semaphore \in Nat
    BY DEF TimelineTyped
  <2>3. QED
    BY <1>13, <2>1, <2>2, RetireTyped DEF VulkanRetireCommandBuffers, RefsTyped
<1>14. ASSUME backend = "Vulkan", VulkanGpuFinish PROVE RefsTyped'
  BY <1>14 DEF VulkanGpuFinish, RefsTyped
<1>15. ASSUME backend = "Vulkan", VulkanDestroyDevice PROVE RefsTyped'
  <2>1. ShutDown(semaphore) /\ semaphore \in Nat
    BY <1>15 DEF VulkanDestroyDevice, TimelineTyped
  <2>2. QED
    BY <1>15, <2>1, ShutTyped DEF VulkanDestroyDevice, RefsTyped
<1>16. ASSUME backend = "D3D12", FailToWaitForFence PROVE RefsTyped'
  BY <1>16 DEF FailToWaitForFence, RefsTyped
<1>17. ASSUME backend = "D3D12", Execute PROVE RefsTyped'
  BY <1>17 DEF Execute, Work, RefsTyped
<1>18. ASSUME backend = "D3D12", BeginWait PROVE RefsTyped'
  BY <1>18 DEF BeginWait, Work, RefsTyped
<1>19. ASSUME backend = "D3D12", EndWait PROVE RefsTyped'
  BY <1>19 DEF EndWait, RefsTyped
<1>20. ASSUME backend = "D3D12", D3D12RetireCommandBuffers PROVE RefsTyped'
  <2>1. PICK done \in Seq(Buffers) : Retire(done, semaphore, pool \o done) /\ pool \o
     done \in Seq(Buffers)
    BY <1>20, D3D12Retiring
  <2>2. semaphore \in Nat
    BY DEF TimelineTyped
  <2>3. QED
    BY <1>20, <2>1, <2>2, RetireTyped DEF D3D12RetireCommandBuffers, RefsTyped
<1>21. ASSUME backend = "D3D12", D3D12GpuFinish PROVE RefsTyped'
  BY <1>21 DEF D3D12GpuFinish, RefsTyped
<1>22. ASSUME backend = "D3D12", D3D12DestroyDevice PROVE RefsTyped'
  <2>1. PICK finished \in Nat : ShutDown(finished)
    BY <1>22, D3D12Ends
  <2>2. QED
    BY <2>1, ShutTyped DEF RefsTyped
<1>23. ASSUME backend = "Metal", Commit PROVE RefsTyped'
  BY <1>23 DEF Commit, RefsTyped
<1>24. ASSUME backend = "Metal", MetalWaitOnHost PROVE RefsTyped'
  BY <1>24 DEF MetalWaitOnHost, RefsTyped
<1>25. ASSUME backend = "Metal", MetalRetireCommandBuffers PROVE RefsTyped'
  <2>1. PICK done \in Seq(Buffers) : Retire(done, semaphore, pool)
    BY <1>25, MetalRetiring
  <2>2. semaphore \in Nat /\ pool \in Seq(Buffers)
    BY DEF TimelineTyped, ListsTyped
  <2>3. QED
    BY <1>25, <2>1, <2>2, RetireTyped DEF MetalRetireCommandBuffers, RefsTyped
<1>26. ASSUME backend = "Metal", GpuSignal PROVE RefsTyped'
  BY <1>26 DEF GpuSignal, RefsTyped
<1>27. ASSUME backend = "Metal", GpuComplete PROVE RefsTyped'
  BY <1>27 DEF GpuComplete, RefsTyped
<1>28. ASSUME backend = "Metal", MetalDestroyDevice PROVE RefsTyped'
  <2>1. ShutDown(semaphore) /\ semaphore \in Nat
    BY <1>28 DEF MetalDestroyDevice, TimelineTyped
  <2>2. QED
    BY <1>28, <2>1, ShutTyped DEF MetalDestroyDevice, RefsTyped
<1>29. ASSUME NEW b \in Buffers, backend = "CUDA", CreateEncoderFromEmptyPool(b) PROVE
   RefsTyped'
  <2>1. PICK done \in Seq(Buffers), newPool \in Seq(Buffers) : Retire(done, FinishedNow, newPool)
    BY <1>29, FromEmptyPool
  <2>2. FinishedNow \in Nat
    BY FinishedNowTyped DEF TimelineTyped
  <2>3. QED
    BY <1>29, <2>1, <2>2, RetireTyped DEF CreateEncoderFromEmptyPool, RefsTyped
<1>30. ASSUME NEW bs \in SUBSET Buffers, NEW s \in Streams \cup {Default}, backend =
   "CUDA", BeginSubmitTo(bs, s) PROVE RefsTyped'
  BY <1>30 DEF BeginSubmitTo, RefsTyped
<1>31. ASSUME NEW b \in Buffers, backend = "CUDA", ExecuteBuffer(b) PROVE RefsTyped'
  BY <1>31 DEF ExecuteBuffer, Work, RefsTyped
<1>32. ASSUME backend = "CUDA", EndSubmit PROVE RefsTyped'
  BY <1>32 DEF EndSubmit, RefsTyped
<1>33. ASSUME backend = "CUDA", CUDARetireCommandBuffers PROVE RefsTyped'
  <2>1. Finished(FinishedNow) \in Seq(Buffers) /\ FinishedNow \in Nat
    BY FinishedAre, FinishedNowTyped DEF TimelineTyped
  <2>2. pool \o Finished(FinishedNow) \in Seq(Buffers)
    BY <2>1, ConcatProperties DEF ListsTyped
  <2>3. Retire(Finished(FinishedNow), FinishedNow, pool \o Finished(FinishedNow))
    BY <1>33 DEF CUDARetireCommandBuffers
  <2>4. QED
    BY <1>33, <2>1, <2>2, <2>3, RetireTyped DEF CUDARetireCommandBuffers, RefsTyped
<1>34. ASSUME backend = "CUDA", CUDAWaitOnHost PROVE RefsTyped'
  <2>1. inFlight \in Seq(Buffers) /\ pool \o inFlight \in Seq(Buffers) /\ lastSubmitted \in Nat
    BY ConcatProperties DEF ListsTyped, TimelineTyped
  <2>2. Retire(inFlight, lastSubmitted, pool \o inFlight)
    BY <1>34 DEF CUDAWaitOnHost
  <2>3. QED
    BY <1>34, <2>1, <2>2, RetireTyped DEF CUDAWaitOnHost, RefsTyped
<1>35. ASSUME NEW i \in DOMAIN gpu, backend = "CUDA", CUDAGpuFinish(i) PROVE RefsTyped'
  BY <1>35 DEF CUDAGpuFinish, RefsTyped
<1>36. ASSUME backend = "CUDA", CUDADestroyDevice PROVE RefsTyped'
  <2>1. ShutDown(lastSubmitted) /\ lastSubmitted \in Nat
    BY <1>36 DEF CUDADestroyDevice, TimelineTyped
  <2>2. QED
    BY <1>36, <2>1, ShutTyped DEF CUDADestroyDevice, RefsTyped
<1>37. CASE UNCHANGED vars
  BY <1>37 DEF vars, RefsTyped
<1>38. QED
  BY <1>1, <1>2, <1>3, <1>4, <1>5, <1>6, <1>7, <1>8, <1>9, <1>10, <1>11, <1>12, <1>13,
     <1>14, <1>15, <1>16, <1>17, <1>18, <1>19, <1>20, <1>21, <1>22, <1>23, <1>24, <1>25,
     <1>26, <1>27, <1>28, <1>29, <1>30, <1>31, <1>32, <1>33, <1>34, <1>35, <1>36, <1>37,
     CommandQueueAssumption DEF Next, ClientStep, SubmitterStep, GpuStep, DestroyDevice,
     VulkanClientStep, VulkanSubmitterStep, D3D12ClientStep, D3D12SubmitterStep,
     MetalClientStep, MetalSubmitterStep, MetalGpuStep, CUDAClientStep,
     CUDASubmitterStep, CUDAGpuStep

LEMMA WorkTyped ==
    ASSUME RefsTyped, NEW id \in Nat, NEW bs \in SUBSET Buffers, NEW b \in BOOLEAN,
           NEW s \in Streams \cup {Default}
    PROVE  Work(id, bs, b, s) \in Submission
BY DEF Work, Submission, RefsTyped

LEMMA SignalTyped ==
    ASSUME RefsTyped, NEW id \in Nat
    PROVE  Work(id, {}, TRUE, Default) \in Submission
<1>1. /\ {} \in SUBSET Buffers /\ TRUE \in BOOLEAN /\ Default \in Streams \cup {Default}
  OBVIOUS
<1>2. QED
  BY <1>1, WorkTyped

LEMMA OneTyped ==
    ASSUME RefsTyped, NEW id \in Nat, NEW x \in Buffers, NEW b \in BOOLEAN,
           NEW s \in Streams \cup {Default}
    PROVE  Work(id, {x}, b, s) \in Submission
<1>1. {x} \in SUBSET Buffers
  OBVIOUS
<1>2. QED
  BY <1>1, WorkTyped

LEMMA GpuGrows ==
    ASSUME TimelineTyped, NEW w \in Submission, gpu' = Append(gpu, w)
    PROVE  /\ gpu' \in Seq(Submission)
           /\ Len(gpu) \in Nat
           /\ DOMAIN gpu = 1..Len(gpu) /\ DOMAIN gpu' = 1..(Len(gpu) + 1)
           /\ \A i \in 1..Len(gpu) : gpu'[i] = gpu[i]
           /\ gpu'[Len(gpu) + 1] = w
<1>1. gpu \in Seq(Submission)
  BY DEF TimelineTyped
<1>2. gpu' \in Seq(Submission)
  BY <1>1, AppendProperties
<1>3. QED
  BY <1>1, <1>2, AppendProperties, LenProperties

LEMMA GpuShrinks ==
    ASSUME TimelineTyped, gpu # <<>>, gpu' = Tail(gpu)
    PROVE  /\ Head(gpu) = gpu[1] /\ gpu[1] \in Submission
           /\ gpu' \in Seq(Submission)
           /\ Len(gpu) \in Nat /\ Len(gpu) >= 1
           /\ DOMAIN gpu = 1..Len(gpu) /\ DOMAIN gpu' = 1..(Len(gpu) - 1)
           /\ \A i \in 1..(Len(gpu) - 1) : gpu'[i] = gpu[i + 1]
<1>1. gpu \in Seq(Submission)
  BY DEF TimelineTyped
<1>2. Len(gpu) \in Nat /\ Len(gpu) # 0
  BY <1>1, EmptySeq, LenProperties
<1>3. gpu' \in Seq(Submission) /\ Len(gpu') = Len(gpu) - 1
  BY <1>1, HeadTailProperties
<1>4. Head(gpu) = gpu[1] /\ gpu[1] \in Submission
  BY <1>1, <1>2, ElementOfSeq
<1>5. \A i \in 1..(Len(gpu) - 1) : gpu'[i] = gpu[i + 1]
  BY <1>1, <1>3, HeadTailProperties
<1>6. QED
  BY <1>1, <1>2, <1>3, <1>4, <1>5, LenProperties

LEMMA GpuFirst ==
    ASSUME TimelineTyped, gpu # <<>>
    PROVE  /\ gpu \in Seq(Submission) /\ Head(gpu) = gpu[1] /\ gpu[1] \in Submission
           /\ Len(gpu) \in Nat /\ 1 \in 1..Len(gpu) /\ DOMAIN gpu = 1..Len(gpu)
<1>1. gpu \in Seq(Submission)
  BY DEF TimelineTyped
<1>2. Len(gpu) \in Nat /\ Len(gpu) # 0
  BY <1>1, EmptySeq, LenProperties
<1>3. QED
  BY <1>1, <1>2, ElementOfSeq, LenProperties

(* The command buffers of a submission on Metal.                           *)
LEMMA CommittedAre ==
    ASSUME ListsTyped, RefsTyped, TimelineTyped, NEW bs \in SUBSET Buffers
    PROVE  /\ Committed(bs) \in Seq(Submission)
           /\ \A i \in DOMAIN Committed(bs) :
                 \E c \in SUBSET bs, b \in BOOLEAN :
                    /\ Committed(bs)[i] = Work(lastSubmitted, c, b, Default)
                    /\ b <=> i = Len(Committed(bs))
<1> DEFINE s == EntriesIn(inFlight, bs)
           c == [i \in DOMAIN s |-> Work(lastSubmitted, {s[i]}, i = Len(s), Default)]
<1>0. lastSubmitted \in Nat /\ Default \in Streams \cup {Default}
  BY DEF TimelineTyped
<1>1. CASE bs = {}
  <2>1. Committed(bs) = << Work(lastSubmitted, {}, TRUE, Default) >>
    BY <1>1 DEF Committed
  <2>2. Work(lastSubmitted, {}, TRUE, Default) \in Submission
    BY <1>0, SignalTyped
  <2> DEFINE w == Work(lastSubmitted, {}, TRUE, Default)
  <2> HIDE DEF w
  <2>3. /\ <<w>> \in Seq(Submission) /\ Len(<<w>>) = 1 /\ DOMAIN <<w>> = {1} /\ <<w>>[1] = w
    <3>1. w \in Submission
      BY <2>2 DEF w
    <3>2. QED
      BY <3>1
  <2>4. ASSUME NEW i \in DOMAIN <<w>>
        PROVE  \E e \in SUBSET bs, b \in BOOLEAN :
                  /\ <<w>>[i] = Work(lastSubmitted, e, b, Default)
                  /\ b <=> i = Len(<<w>>)
    <3>1. /\ {} \in SUBSET bs /\ TRUE \in BOOLEAN
          /\ <<w>>[i] = Work(lastSubmitted, {}, TRUE, Default) /\ i = Len(<<w>>)
      BY <2>3 DEF w
    <3>2. QED
      BY <3>1
  <2>5. Committed(bs) = <<w>>
    BY <2>1 DEF w
  <2>6. QED
    BY <2>3, <2>4, <2>5
<1>2. CASE bs # {}
  <2>1. s \in Seq(Buffers) /\ Range(s) = Range(inFlight) \cap bs
    BY EntriesAre DEF ListsTyped
  <2>2. DOMAIN s = 1..Len(s) /\ Len(s) \in Nat /\ \A i \in DOMAIN s : s[i] \in bs
    BY <2>1, LenProperties DEF Range
  <2>3. Committed(bs) = c
    BY <1>2 DEF Committed
  <2> HIDE DEF s
  <2>4. \A i \in 1..Len(s) : c[i] = Work(lastSubmitted, {s[i]}, i = Len(s), Default)
    BY <2>2
  <2>5. \A i \in 1..Len(s) : c[i] \in Submission
    <3>1. SUFFICES ASSUME NEW i \in 1..Len(s) PROVE c[i] \in Submission
      OBVIOUS
    <3>2. s[i] \in Buffers /\ (i = Len(s)) \in BOOLEAN
      BY <2>2
    <3>3. Work(lastSubmitted, {s[i]}, i = Len(s), Default) \in Submission
      BY ONLY RefsTyped, <1>0, <3>2, OneTyped
    <3>4. c[i] = Work(lastSubmitted, {s[i]}, i = Len(s), Default)
      BY <2>4
    <3> HIDE DEF c
    <3>5. QED
      BY <3>3, <3>4, Zenon
  <2>6. c \in Seq(Submission) /\ Len(c) = Len(s) /\ DOMAIN c = 1..Len(s)
    <3>1. c = [i \in 1..Len(s) |-> c[i]]
      BY <2>2
    <3> HIDE DEF c
    <3>2. QED
      BY <2>2, <2>5, <3>1
  <2> HIDE DEF c
  <2>7. \A i \in 1..Len(s) : {s[i]} \in SUBSET bs /\ (i = Len(s)) \in BOOLEAN
    BY <2>2
  <2>8. ASSUME NEW i \in 1..Len(s)
        PROVE  \E e \in SUBSET bs, b \in BOOLEAN :
                  c[i] = Work(lastSubmitted, e, b, Default) /\ (b <=> i = Len(c))
    BY <2>4, <2>6, <2>7
  <2>9. QED
    BY <2>3, <2>6, <2>8
<1>3. QED
  BY <1>1, <1>2

(* A submission leaves the GPU before those that were sent earlier.        *)
LEMMA RemovedAt ==
    ASSUME NEW S, NEW s \in Seq(S), NEW i \in 1..Len(s)
    PROVE  /\ RemoveAt(s, i) \in Seq(S)
           /\ DOMAIN s = 1..Len(s) /\ Len(s) \in Nat
           /\ DOMAIN RemoveAt(s, i) = 1..(Len(s) - 1)
           /\ \A j \in 1..(Len(s) - 1) :
                 RemoveAt(s, i)[j] = IF j < i THEN s[j] ELSE s[j + 1]
<1> DEFINE before == SubSeq(s, 1, i - 1)
           after  == SubSeq(s, i + 1, Len(s))
<1>1. /\ before \in Seq(S)
      /\ Len(before) = i - 1
      /\ \A j \in 1..(i - 1) : before[j] = s[j]
  OBVIOUS
<1>2. /\ after \in Seq(S)
      /\ Len(after) = Len(s) - i
      /\ \A j \in 1..(Len(s) - i) : after[j] = s[i + j]
  OBVIOUS
<1> HIDE DEF before, after
<1>3. RemoveAt(s, i) = before \o after
  BY DEF RemoveAt, before, after
<1>4. /\ before \o after \in Seq(S)
      /\ Len(before \o after) = Len(s) - 1
      /\ DOMAIN (before \o after) = 1..(Len(s) - 1)
  <2>1. /\ before \o after \in Seq(S)
        /\ Len(before \o after) = Len(before) + Len(after)
    BY <1>1, <1>2, Concatenation
  <2>2. Len(before) + Len(after) = Len(s) - 1
    <3>1. i \in Nat /\ Len(s) \in Nat
      BY LenProperties
    <3>2. QED
      BY <1>1, <1>2, <3>1
  <2>3. DOMAIN (before \o after) = 1..Len(before \o after)
    BY <2>1, LenProperties
  <2>4. QED
    BY <2>1, <2>2, <2>3
<1>5. ASSUME NEW j \in 1..(Len(s) - 1)
      PROVE  (before \o after)[j] = IF j < i THEN s[j] ELSE s[j + 1]
  <2>1. CASE j < i
    BY <1>1, <1>2, <2>1
  <2>2. CASE ~(j < i)
    <3>1. /\ (before \o after)[j] = after[j - (i - 1)]
          /\ j - (i - 1) \in 1..(Len(s) - i)
      BY <1>1, <1>2, <2>2
    <3>2. after[j - (i - 1)] = s[j + 1]
      BY <1>2, <3>1
    <3>3. QED
      BY <2>2, <3>1, <3>2
  <2>3. QED
    BY <2>1, <2>2
<1>6. QED
  BY <1>3, <1>4, <1>5, LenProperties

LEMMA EventsKeepType ==
    ASSUME TimelineTyped, lastSubmitted' \in Nat, lastSubmitted' >= lastSubmitted
    PROVE  events \in Seq(0..lastSubmitted')
<1>1. 0..lastSubmitted \subseteq 0..lastSubmitted'
  BY DEF TimelineTyped
<1>2. QED
  BY <1>1, SeqMonotonic DEF TimelineTyped

LEMMA TimelineNext == ListsTyped /\ RefsTyped /\ TimelineTyped /\ IdsInv /\ [Next]_vars
   => TimelineTyped'
<1> SUFFICES ASSUME ListsTyped, RefsTyped, TimelineTyped, IdsInv, [Next]_vars PROVE
   TimelineTyped'
  OBVIOUS
<1> USE DEF lists, recording, submitter, timeline, device
<1>1. ASSUME NEW b \in Buffers, NEW r \in Resources, RecordTracked(b, r) PROVE
   TimelineTyped'
  BY <1>1 DEF RecordTracked, TimelineTyped
<1>2. ASSUME NEW b \in Buffers, NEW r \in Resources, RecordRaw(b, r) PROVE
   TimelineTyped'
  BY <1>2 DEF RecordRaw, TimelineTyped
<1>3. ASSUME NEW b \in Buffers, FinishEncoder(b) PROVE TimelineTyped'
  BY <1>3 DEF FinishEncoder, TimelineTyped
<1>4. ASSUME NEW b \in Buffers, ReleaseBuffer(b) PROVE TimelineTyped'
  BY <1>4 DEF ReleaseBuffer, TimelineTyped
<1>5. ASSUME NEW r \in Resources, ReleaseResource(r) PROVE TimelineTyped'
  BY <1>5 DEF ReleaseResource, TimelineTyped
<1>6. ASSUME ReleaseDevice PROVE TimelineTyped'
  BY <1>6 DEF ReleaseDevice, TimelineTyped
<1>7. ASSUME NEW r \in Resources, BreakDeviceReference(r) PROVE TimelineTyped'
  BY <1>7 DEF BreakDeviceReference, TimelineTyped
<1>8. ASSUME NEW b \in Buffers, CreateEncoder(b), backend = "CUDA" => pool # <<>> PROVE
   TimelineTyped'
  BY <1>8 DEF CreateEncoder, PoolAfterTake, TimelineTyped
<1>9. ASSUME NEW b \in Buffers, DropEncoder(b) PROVE TimelineTyped'
  BY <1>9 DEF DropEncoder, TimelineTyped
<1>10. ASSUME NEW bs \in SUBSET Buffers, backend # "CUDA", BeginSubmit(bs) PROVE
   TimelineTyped'
  <2>1. lastSubmitted' \in Nat /\ lastSubmitted' >= lastSubmitted
    BY <1>10 DEF BeginSubmit, TimelineTyped
  <2>2. events \in Seq(0..lastSubmitted')
    BY <2>1, EventsKeepType
  <2>3. QED
    BY <1>10, <2>1, <2>2 DEF BeginSubmit, TimelineTyped
<1>11. ASSUME backend = "Vulkan", QueueSubmit PROVE TimelineTyped'
  <2>1. CASE gpu' = Append(gpu, Work(lastSubmitted, sending, TRUE, Default))
    <3>1. Work(lastSubmitted, sending, TRUE, Default) \in Submission
      BY WorkTyped DEF ListsTyped, TimelineTyped
    <3>2. gpu' \in Seq(Submission)
      BY <2>1, <3>1, GpuGrows
    <3>3. QED
      BY <1>11, <3>2 DEF QueueSubmit, TimelineTyped
  <2>2. CASE UNCHANGED gpu
    BY <1>11, <2>2 DEF QueueSubmit, TimelineTyped
  <2>3. QED
    BY <1>11, <2>1, <2>2 DEF QueueSubmit
<1>12. ASSUME backend = "Vulkan", VulkanWaitOnHost PROVE TimelineTyped'
  BY <1>12 DEF VulkanWaitOnHost, TimelineTyped
<1>13. ASSUME backend = "Vulkan", VulkanRetireCommandBuffers PROVE TimelineTyped'
  <2>1. lastFinished' = semaphore
    BY <1>13 DEF VulkanRetireCommandBuffers, Retire
  <2>2. QED
    BY <1>13, <2>1 DEF VulkanRetireCommandBuffers, TimelineTyped
<1>14. ASSUME backend = "Vulkan", VulkanGpuFinish PROVE TimelineTyped'
  <2>1. gpu' \in Seq(Submission)
    BY <1>14, GpuShrinks DEF VulkanGpuFinish
  <2>2. Head(gpu) = gpu[1] /\ gpu[1].id \in 0..lastSubmitted
    BY <1>14, GpuFirst DEF VulkanGpuFinish, IdsInv, Submission, TimelineTyped
  <2>3. QED
    BY <1>14, <2>1, <2>2 DEF VulkanGpuFinish, TimelineTyped
<1>15. ASSUME backend = "Vulkan", VulkanDestroyDevice PROVE TimelineTyped'
  <2>1. lastFinished' = semaphore /\ destroyed' = TRUE /\ UNCHANGED <<submitter, backend, deviceHeld>>
    BY <1>15 DEF VulkanDestroyDevice, ShutDown
  <2>2. QED
    BY <1>15, <2>1 DEF VulkanDestroyDevice, TimelineTyped
<1>16. ASSUME backend = "D3D12", FailToWaitForFence PROVE TimelineTyped'
  <2>1. lastSubmitted' \in Nat /\ lastSubmitted' >= lastSubmitted
    BY <1>16 DEF FailToWaitForFence, TimelineTyped
  <2>2. events \in Seq(0..lastSubmitted')
    BY <2>1, EventsKeepType
  <2>3. QED
    BY <1>16, <2>1, <2>2 DEF FailToWaitForFence, TimelineTyped
<1>17. ASSUME backend = "D3D12", Execute PROVE TimelineTyped'
  <2>1. PICK signals \in BOOLEAN :
           gpu' = Append(gpu, Work(lastSubmitted, sending, signals, Default))
    BY <1>17 DEF Execute
  <2>2. Work(lastSubmitted, sending, signals, Default) \in Submission
    BY WorkTyped DEF ListsTyped, TimelineTyped
  <2>3. gpu' \in Seq(Submission)
    BY <2>1, <2>2, GpuGrows
  <2>4. QED
    BY <1>17, <2>3 DEF Execute, TimelineTyped
<1>18. ASSUME backend = "D3D12", BeginWait PROVE TimelineTyped'
  <2>1. lastSubmitted' \in Nat /\ lastSubmitted' = lastSubmitted + 1 /\ lastSubmitted' >= lastSubmitted
    BY <1>18 DEF BeginWait, TimelineTyped
  <2>2. events \in Seq(0..lastSubmitted')
    BY <2>1, EventsKeepType
  <2>3. gpu' \in Seq(Submission)
    <3>1. Work(lastSubmitted + 1, {}, TRUE, Default) \in Submission
      BY <2>1, SignalTyped
    <3>2. QED
      BY <1>18, <3>1, GpuGrows DEF BeginWait, TimelineTyped
  <2>4. /\ lastFinished' \in 0..lastSubmitted' /\ semaphore' \in 0..lastSubmitted'
        /\ UNCHANGED <<events, backend, stream, sinceEvent, deviceHeld, destroyed>>
        /\ pc' \in {"idle", "send", "wait", "retire"}
    <3>1. /\ UNCHANGED <<lastFinished, semaphore, events, backend, stream, sinceEvent,
                          deviceHeld, destroyed>>
          /\ pc' = "wait" \/ pc' = pc
      BY <1>18 DEF BeginWait
    <3>2. lastFinished \in 0..lastSubmitted' /\ semaphore \in 0..lastSubmitted'
      BY <2>1 DEF TimelineTyped
    <3>3. QED
      BY <3>1, <3>2 DEF TimelineTyped
  <2>5. QED
    BY <2>1, <2>2, <2>3, <2>4 DEF TimelineTyped
<1>19. ASSUME backend = "D3D12", EndWait PROVE TimelineTyped'
  BY <1>19 DEF EndWait, TimelineTyped
<1>20. ASSUME backend = "D3D12", D3D12RetireCommandBuffers PROVE TimelineTyped'
  <2>1. lastFinished' = semaphore
    BY <1>20 DEF D3D12RetireCommandBuffers, Retire
  <2>2. QED
    BY <1>20, <2>1 DEF D3D12RetireCommandBuffers, TimelineTyped
<1>21. ASSUME backend = "D3D12", D3D12GpuFinish PROVE TimelineTyped'
  <2>1. gpu' \in Seq(Submission)
    BY <1>21, GpuShrinks DEF D3D12GpuFinish
  <2>2. Head(gpu) = gpu[1] /\ gpu[1].id \in 0..lastSubmitted
    BY <1>21, GpuFirst DEF D3D12GpuFinish, IdsInv, Submission, TimelineTyped
  <2>3. QED
    BY <1>21, <2>1, <2>2 DEF D3D12GpuFinish, TimelineTyped
<1>22. ASSUME backend = "D3D12", D3D12DestroyDevice PROVE TimelineTyped'
  <2>1. PICK finished \in Nat : /\ finished = semaphore' /\ ShutDown(finished)
                              /\ finished \in {semaphore, lastSubmitted + 1}
    BY <1>22, D3D12Ends
  <2>2. /\ lastFinished' = finished /\ destroyed' = TRUE
        /\ UNCHANGED <<submitter, backend, deviceHeld>>
    BY <2>1 DEF ShutDown
  <2>3. lastSubmitted' \in Nat /\ lastSubmitted' = lastSubmitted + 1 /\ lastSubmitted' >= lastSubmitted
    BY <1>22 DEF D3D12DestroyDevice, TimelineTyped
  <2>4. finished \in 0..lastSubmitted'
    BY <2>1, <2>3 DEF TimelineTyped
  <2>5. events \in Seq(0..lastSubmitted')
    BY <2>3, EventsKeepType
  <2>6. gpu' = <<>> /\ gpu' \in Seq(Submission) /\ UNCHANGED <<events, sinceEvent>>
    BY <1>22 DEF D3D12DestroyDevice
  <2>7. QED
    BY <2>1, <2>2, <2>3, <2>4, <2>5, <2>6 DEF TimelineTyped
<1>23. ASSUME backend = "Metal", Commit PROVE TimelineTyped'
  <2>1. Committed(sending) \in Seq(Submission)
    BY CommittedAre DEF ListsTyped
  <2>2. gpu' \in Seq(Submission)
    BY <1>23, <2>1, ConcatProperties DEF Commit, TimelineTyped
  <2>3. QED
    BY <1>23, <2>2 DEF Commit, TimelineTyped
<1>24. ASSUME backend = "Metal", MetalWaitOnHost PROVE TimelineTyped'
  BY <1>24 DEF MetalWaitOnHost, TimelineTyped
<1>25. ASSUME backend = "Metal", MetalRetireCommandBuffers PROVE TimelineTyped'
  <2>1. lastFinished' = semaphore
    BY <1>25 DEF MetalRetireCommandBuffers, Retire
  <2>2. QED
    BY <1>25, <2>1 DEF MetalRetireCommandBuffers, TimelineTyped
<1>26. ASSUME backend = "Metal", GpuSignal PROVE TimelineTyped'
  <2>1. gpu \in Seq(Submission) /\ Head(gpu) = gpu[1] /\ gpu[1] \in Submission /\ 1 \in 1..Len(gpu)
    BY <1>26, GpuFirst DEF GpuSignal
  <2>2. gpu[1].id \in 0..lastSubmitted
    BY <2>1 DEF IdsInv, Submission, TimelineTyped
  <2>3. gpu' = [gpu EXCEPT ![1] = [@ EXCEPT !.signals = FALSE, !.uses = {}]]
    BY <1>26, <2>1 DEF GpuSignal
  <2>4. [gpu[1] EXCEPT !.signals = FALSE, !.uses = {}] \in Submission
    BY <2>1 DEF Submission
  <2>5. gpu' \in Seq(Submission)
    BY <2>1, <2>3, <2>4, ExceptSeq
  <2>6. QED
    BY <1>26, <2>1, <2>2, <2>5 DEF GpuSignal, TimelineTyped
<1>27. ASSUME backend = "Metal", GpuComplete PROVE TimelineTyped'
  <2>1. gpu' \in Seq(Submission)
    BY <1>27, GpuShrinks DEF GpuComplete
  <2>2. QED
    BY <1>27, <2>1 DEF GpuComplete, TimelineTyped
<1>28. ASSUME backend = "Metal", MetalDestroyDevice PROVE TimelineTyped'
  <2>1. lastFinished' = semaphore /\ destroyed' = TRUE /\ UNCHANGED <<submitter, backend, deviceHeld>>
    BY <1>28 DEF MetalDestroyDevice, ShutDown
  <2>2. QED
    BY <1>28, <2>1 DEF MetalDestroyDevice, TimelineTyped
<1>29. ASSUME NEW b \in Buffers, backend = "CUDA", CreateEncoderFromEmptyPool(b) PROVE
   TimelineTyped'
  <2>1. lastFinished' = FinishedNow /\ FinishedNow \in 0..lastSubmitted
    BY <1>29, FinishedNowTyped DEF CreateEncoderFromEmptyPool, Retire
  <2>2. events' \in Seq(0..lastSubmitted)
    BY <1>29, EventsDropped DEF CreateEncoderFromEmptyPool
  <2>3. QED
    BY <1>29, <2>1, <2>2 DEF CreateEncoderFromEmptyPool, TimelineTyped
<1>30. ASSUME NEW bs \in SUBSET Buffers, NEW s \in Streams \cup {Default}, backend =
   "CUDA", BeginSubmitTo(bs, s) PROVE TimelineTyped'
  BY <1>30 DEF BeginSubmitTo, TimelineTyped
<1>31. ASSUME NEW b \in Buffers, backend = "CUDA", ExecuteBuffer(b) PROVE TimelineTyped'
  <2>1. lastSubmitted' = lastSubmitted + 1 /\ lastSubmitted' \in Nat /\ lastSubmitted' >= lastSubmitted
    BY <1>31 DEF ExecuteBuffer, TimelineTyped
  <2>2. gpu' \in Seq(Submission)
    <3>1. Work(lastSubmitted + 1, {b}, TRUE, stream) \in Submission
      BY <2>1, OneTyped DEF TimelineTyped
    <3>2. QED
      BY <1>31, <3>1, GpuGrows DEF ExecuteBuffer
  <2>3. events' \in Seq(0..lastSubmitted')
    <3>1. events \in Seq(0..lastSubmitted') /\ lastSubmitted' \in 0..lastSubmitted'
      BY <2>1, EventsKeepType
    <3>2. Append(events, lastSubmitted') \in Seq(0..lastSubmitted')
      BY <3>1, AppendProperties
    <3>3. QED
      BY <1>31, <2>1, <3>1, <3>2 DEF ExecuteBuffer
  <2>4. sinceEvent' \in Nat
    BY <1>31 DEF ExecuteBuffer, TimelineTyped
  <2>5. /\ lastFinished' \in 0..lastSubmitted' /\ semaphore' \in 0..lastSubmitted'
        /\ UNCHANGED <<backend, stream, deviceHeld, destroyed, pc>>
    BY <1>31, <2>1 DEF ExecuteBuffer, TimelineTyped
  <2>6. QED
    BY <2>1, <2>2, <2>3, <2>4, <2>5 DEF TimelineTyped
<1>32. ASSUME backend = "CUDA", EndSubmit PROVE TimelineTyped'
  BY <1>32 DEF EndSubmit, TimelineTyped
<1>33. ASSUME backend = "CUDA", CUDARetireCommandBuffers PROVE TimelineTyped'
  <2>1. lastFinished' = FinishedNow /\ FinishedNow \in 0..lastSubmitted
    BY <1>33, FinishedNowTyped DEF CUDARetireCommandBuffers, Retire
  <2>2. events' \in Seq(0..lastSubmitted)
    BY <1>33, EventsDropped DEF CUDARetireCommandBuffers
  <2>3. QED
    BY <1>33, <2>1, <2>2 DEF CUDARetireCommandBuffers, TimelineTyped
<1>34. ASSUME backend = "CUDA", CUDAWaitOnHost PROVE TimelineTyped'
  <2>1. lastFinished' = lastSubmitted /\ events' \in Seq(0..lastSubmitted)
    BY <1>34, EmptySeq DEF CUDAWaitOnHost, Retire
  <2>2. QED
    BY <1>34, <2>1 DEF CUDAWaitOnHost, TimelineTyped
<1>35. ASSUME NEW i \in DOMAIN gpu, backend = "CUDA", CUDAGpuFinish(i) PROVE
   TimelineTyped'
  <2>1. gpu' \in Seq(Submission)
    BY <1>35, RemovedAt, LenProperties DEF CUDAGpuFinish, TimelineTyped
  <2>2. QED
    BY <1>35, <2>1 DEF CUDAGpuFinish, TimelineTyped
<1>36. ASSUME backend = "CUDA", CUDADestroyDevice PROVE TimelineTyped'
  <2>1. /\ lastFinished' = lastSubmitted /\ destroyed' = TRUE
        /\ UNCHANGED <<submitter, backend, deviceHeld>>
    BY <1>36 DEF CUDADestroyDevice, ShutDown
  <2>2. events' \in Seq(0..lastSubmitted)
    BY <1>36, EmptySeq DEF CUDADestroyDevice
  <2>3. QED
    BY <1>36, <2>1, <2>2 DEF CUDADestroyDevice, TimelineTyped
<1>37. CASE UNCHANGED vars
  BY <1>37 DEF vars, TimelineTyped
<1>38. QED
  BY <1>1, <1>2, <1>3, <1>4, <1>5, <1>6, <1>7, <1>8, <1>9, <1>10, <1>11, <1>12, <1>13,
     <1>14, <1>15, <1>16, <1>17, <1>18, <1>19, <1>20, <1>21, <1>22, <1>23, <1>24, <1>25,
     <1>26, <1>27, <1>28, <1>29, <1>30, <1>31, <1>32, <1>33, <1>34, <1>35, <1>36, <1>37,
     CommandQueueAssumption DEF Next, ClientStep, SubmitterStep, GpuStep, DestroyDevice,
     VulkanClientStep, VulkanSubmitterStep, D3D12ClientStep, D3D12SubmitterStep,
     MetalClientStep, MetalSubmitterStep, MetalGpuStep, CUDAClientStep,
     CUDASubmitterStep, CUDAGpuStep

-----------------------------------------------------------------------------
(* Owners of command buffers.                                              *)

LEMMA DistinctTail ==
    ASSUME NEW S, NEW s \in Seq(S), s # <<>>, Distinct(s)
    PROVE  /\ Tail(s) \in Seq(S) /\ Distinct(Tail(s))
           /\ Head(s) \in Range(s) /\ Range(Tail(s)) = Range(s) \ {Head(s)}
<1>1. Len(s) \in Nat /\ Len(s) # 0 /\ DOMAIN s = 1..Len(s) /\ Head(s) = s[1]
  BY EmptySeq, LenProperties
<1>2. Tail(s) \in Seq(S) /\ Len(Tail(s)) = Len(s) - 1 /\ \A i \in 1..Len(Tail(s)) : Tail(s)[i] = s[i + 1]
  BY HeadTailProperties
<1>3. DOMAIN Tail(s) = 1..(Len(s) - 1)
  BY <1>2, LenProperties
<1>4. Distinct(Tail(s))
  BY <1>1, <1>2, <1>3 DEF Distinct
<1>5. ASSUME NEW x \in Range(s) \ {Head(s)} PROVE x \in Range(Tail(s))
  <2>1. PICK i \in 1..Len(s) : s[i] = x
    BY <1>1 DEF Range
  <2>2. i - 1 \in 1..(Len(s) - 1) /\ (i - 1) + 1 = i
    BY <1>1, <1>5, <2>1
  <2>3. Tail(s)[i - 1] = x
    BY <1>2, <2>1, <2>2
  <2>4. QED
    BY <1>3, <2>2, <2>3 DEF Range
<1>6. ASSUME NEW x \in Range(Tail(s)) PROVE x \in Range(s) \ {Head(s)}
  <2>1. PICK i \in 1..(Len(s) - 1) : Tail(s)[i] = x
    BY <1>3 DEF Range
  <2>2. i + 1 \in 1..Len(s) /\ s[i + 1] = x /\ 1 < i + 1
    BY <1>1, <1>2, <2>1
  <2>3. QED
    BY <1>1, <2>2 DEF Range, Distinct
<1>7. Head(s) \in Range(s)
  <2>1. 1 \in DOMAIN s
    BY <1>1
  <2>2. QED
    BY <1>1, <2>1 DEF Range
<1>8. QED
  BY <1>2, <1>4, <1>5, <1>6, <1>7

LEMMA DistinctAppend ==
    ASSUME NEW S, NEW s \in Seq(S), NEW e \in S, Distinct(s), e \notin Range(s)
    PROVE  /\ Append(s, e) \in Seq(S) /\ Distinct(Append(s, e))
           /\ Range(Append(s, e)) = Range(s) \cup {e}
<1>1. /\ <<e>> \in Seq(S) /\ Len(<<e>>) = 1 /\ DOMAIN <<e>> = {1} /\ <<e>>[1] = e
  OBVIOUS
<1>2. Distinct(<<e>>) /\ Range(<<e>>) = {e}
  BY <1>1 DEF Distinct, Range
<1>3. Append(s, e) = s \o <<e>>
  BY AppendIsConcat
<1>4. Range(s) \cap Range(<<e>>) = {}
  BY <1>2
<1> DEFINE t == <<e>>
<1> HIDE DEF t
<1>5. s \o t \in Seq(S) /\ Range(s \o t) = Range(s) \cup Range(t) /\ Distinct(s \o t)
  <2>1. t \in Seq(S) /\ Distinct(t) /\ Range(s) \cap Range(t) = {}
    BY <1>1, <1>2, <1>4 DEF t
  <2>2. QED
    BY <2>1, Concatenation, DistinctJoined
<1>6. QED
  BY <1>2, <1>3, <1>5 DEF t

LEMMA EmptyRange == Range(<<>>) = {} /\ Distinct(<<>>)
BY DEF Range, Distinct

LEMMA RetireLists ==
    ASSUME ListsTyped, OwnerInv, NEW done \in Seq(Buffers), NEW finished, NEW newPool,
           Retire(done, finished, newPool)
    PROVE  /\ inFlight' \in Seq(Buffers) /\ Distinct(inFlight')
           /\ Range(inFlight') = Range(inFlight) \ Range(done)
           /\ pool' = newPool
<1>1. inFlight' = EntriesIn(inFlight, Buffers \ Range(done)) /\ pool' = newPool
  BY DEF Retire
<1>2. Range(inFlight) \subseteq Buffers
  BY RangeTyped DEF ListsTyped
<1>3. QED
  BY <1>1, <1>2, EntriesAre DEF ListsTyped, OwnerInv

LEMMA OwnersAfterRetiring ==
    ASSUME ListsTyped, OwnerInv, NEW done \in Seq(Buffers), NEW finished,
           NEW newPool \in Seq(Buffers), Retire(done, finished, newPool),
           Range(done) \subseteq Range(inFlight), Distinct(done),
           newPool \in {pool, pool \o done},
           UNCHANGED <<encoding, unsubmitted, sending, handles>>
    PROVE  OwnerInv'
<1>1. /\ Distinct(inFlight') /\ Range(inFlight') = Range(inFlight) \ Range(done)
      /\ pool' = newPool
  BY RetireLists
<1>2. Distinct(pool \o done) /\ Range(pool \o done) = Range(pool) \cup Range(done)
  BY DistinctJoined, Concatenation DEF OwnerInv, ListsTyped
<1>3. Distinct(pool') /\ Range(pool') \subseteq Range(pool) \cup Range(done)
  BY <1>1, <1>2 DEF OwnerInv
<1>4. QED
  BY <1>1, <1>3 DEF OwnerInv

LEMMA OwnersKept ==
    ASSUME OwnerInv, UNCHANGED <<lists, encoding, unsubmitted, handles>>, sending' \subseteq sending
    PROVE  OwnerInv'
BY DEF OwnerInv, lists

LEMMA OwnerNext == ListsTyped /\ TimelineTyped /\ OwnerInv /\ SendInv /\ [Next]_vars =>
   OwnerInv'
<1> SUFFICES ASSUME ListsTyped, TimelineTyped, OwnerInv, SendInv, [Next]_vars PROVE
   OwnerInv'
  OBVIOUS
<1> USE DEF lists, recording, submitter, timeline, device
<1>1. ASSUME NEW b \in Buffers, NEW r \in Resources, RecordTracked(b, r) PROVE OwnerInv'
  BY <1>1, OwnersKept DEF RecordTracked
<1>2. ASSUME NEW b \in Buffers, NEW r \in Resources, RecordRaw(b, r) PROVE OwnerInv'
  BY <1>2, OwnersKept DEF RecordRaw
<1>3. ASSUME NEW b \in Buffers, FinishEncoder(b) PROVE OwnerInv'
  <2>1. /\ UNCHANGED <<pool, inFlight, sending>> /\ b \in encoding
        /\ encoding' = encoding \ {b} /\ unsubmitted' = unsubmitted \cup {b}
        /\ handles' = [handles EXCEPT ![b] = @ + 1]
    BY <1>3 DEF FinishEncoder
  <2>2. \A c \in Buffers : handles[c] > 0 => handles'[c] > 0
    BY <2>1 DEF ListsTyped
  <2>3. handles'[b] > 0
    BY <2>1 DEF ListsTyped
  <2>4. QED
    BY <2>1, <2>2, <2>3 DEF OwnerInv, ListsTyped
<1>4. ASSUME NEW b \in Buffers, ReleaseBuffer(b) PROVE OwnerInv'
  <2>1. /\ UNCHANGED <<pool, inFlight, encoding, sending>> /\ b \notin sending /\ handles[b] > 0
        /\ handles' = [handles EXCEPT ![b] = @ - 1]
        /\ IF handles[b] = 1 /\ b \notin Range(pool) \cup Range(inFlight) \cup encoding
           THEN unsubmitted' = unsubmitted \ {b} ELSE unsubmitted' = unsubmitted
    BY <1>4 DEF ReleaseBuffer
  <2>2. \A c \in Buffers \ {b} : handles'[c] = handles[c]
    BY <2>1 DEF ListsTyped
  <2>3. b \in unsubmitted' => handles'[b] > 0
    BY <2>1 DEF ListsTyped, OwnerInv
  <2>4. unsubmitted' \subseteq unsubmitted
    BY <2>1
  <2>5. QED
    BY <2>1, <2>2, <2>3, <2>4 DEF OwnerInv, ListsTyped
<1>5. ASSUME NEW r \in Resources, ReleaseResource(r) PROVE OwnerInv'
  BY <1>5, OwnersKept DEF ReleaseResource
<1>6. ASSUME ReleaseDevice PROVE OwnerInv'
  BY <1>6, OwnersKept DEF ReleaseDevice
<1>7. ASSUME NEW r \in Resources, BreakDeviceReference(r) PROVE OwnerInv'
  BY <1>7, OwnersKept DEF BreakDeviceReference
<1>8. ASSUME NEW b \in Buffers, CreateEncoder(b), backend = "CUDA" => pool # <<>> PROVE
   OwnerInv'
  <2>1. /\ UNCHANGED <<inFlight, unsubmitted, sending, handles>> /\ encoding' = encoding \cup {b}
        /\ IF pool = <<>> THEN ~Alive(b) /\ pool' = pool ELSE b = Head(pool) /\ pool' = Tail(pool)
    BY <1>8 DEF CreateEncoder, PoolAfterTake
  <2>2. CASE pool = <<>>
    <3>1. ~Alive(b) /\ pool' = pool
      BY <2>1, <2>2
    <3>2. b \notin Range(pool) /\ b \notin Range(inFlight) /\ handles[b] = 0
      BY <3>1 DEF Alive, ListsTyped
    <3>3. b \notin unsubmitted
      BY <3>2 DEF OwnerInv
    <3>4. QED
      BY <2>1, <3>1, <3>2, <3>3 DEF OwnerInv
  <2>3. CASE pool # <<>>
    <3>1. b \in Range(pool) /\ Distinct(pool') /\ Range(pool') = Range(pool) \ {b}
      BY <2>1, <2>3, DistinctTail DEF OwnerInv, ListsTyped
    <3>2. QED
      BY <2>1, <3>1 DEF OwnerInv
  <2>4. QED
    BY <2>2, <2>3
<1>9. ASSUME NEW b \in Buffers, DropEncoder(b) PROVE OwnerInv'
  <2>1. /\ UNCHANGED <<inFlight, unsubmitted, sending, handles>> /\ b \in encoding
        /\ encoding' = encoding \ {b}
        /\ pool' = IF backend = "Metal" THEN pool ELSE Append(pool, b)
    BY <1>9 DEF DropEncoder
  <2>2. b \notin Range(pool) /\ b \notin Range(inFlight) /\ b \notin unsubmitted
    BY <2>1 DEF OwnerInv
  <2>3. Distinct(Append(pool, b)) /\ Range(Append(pool, b)) = Range(pool) \cup {b}
    BY <2>2, DistinctAppend DEF OwnerInv, ListsTyped
  <2>4. Distinct(pool') /\ Range(pool') \subseteq Range(pool) \cup {b}
    BY <2>1, <2>3 DEF OwnerInv
  <2>5. QED
    BY <2>1, <2>2, <2>4 DEF OwnerInv
<1>10. ASSUME NEW bs \in SUBSET Buffers, backend # "CUDA", BeginSubmit(bs) PROVE
   OwnerInv'
  <2>1. PICK s \in SetToSeqs(bs) : inFlight' = inFlight \o s
    BY <1>10 DEF BeginSubmit
  <2>2. /\ UNCHANGED <<pool, encoding, handles>> /\ bs \subseteq unsubmitted
        /\ unsubmitted' = unsubmitted \ bs /\ sending' = bs
    BY <1>10 DEF BeginSubmit
  <2>3. IsFiniteSet(bs)
    BY FS_Subset, CommandQueueAssumption DEF CommandQueueAssumption
  <2>4. s \in Seq(Buffers) /\ Distinct(s) /\ Range(s) = bs
    BY <2>1, <2>3, OrdersOf, SeqMonotonic
  <2>5. Range(inFlight) \cap bs = {}
    BY <2>2 DEF OwnerInv
  <2>6. Distinct(inFlight') /\ Range(inFlight') = Range(inFlight) \cup bs
    BY <2>1, <2>4, <2>5, Concatenation, DistinctJoined DEF OwnerInv, ListsTyped
  <2>7. QED
    BY <2>2, <2>6 DEF OwnerInv
<1>11. ASSUME backend = "Vulkan", QueueSubmit PROVE OwnerInv'
  BY <1>11, OwnersKept DEF QueueSubmit, Work
<1>12. ASSUME backend = "Vulkan", VulkanWaitOnHost PROVE OwnerInv'
  BY <1>12, OwnersKept DEF VulkanWaitOnHost
<1>13. ASSUME backend = "Vulkan", VulkanRetireCommandBuffers PROVE OwnerInv'
  <2>1. Distinct(inFlight)
    BY DEF OwnerInv
  <2>2. PICK done \in Seq(Buffers) :
           /\ Range(done) \subseteq Range(inFlight) /\ Distinct(done)
           /\ Retire(done, semaphore, pool \o done) /\ pool \o done \in Seq(Buffers)
    BY <1>13, <2>1, VulkanRetiring DEF ListsTyped
  <2>3. UNCHANGED <<encoding, unsubmitted, sending, handles>>
    BY <1>13 DEF VulkanRetireCommandBuffers
  <2>4. QED
    BY <2>2, <2>3, OwnersAfterRetiring
<1>14. ASSUME backend = "Vulkan", VulkanGpuFinish PROVE OwnerInv'
  BY <1>14, OwnersKept DEF VulkanGpuFinish
<1>15. ASSUME backend = "Vulkan", VulkanDestroyDevice PROVE OwnerInv'
  <2>1. pool' = <<>> /\ inFlight' = <<>> /\ UNCHANGED <<encoding, unsubmitted, sending, handles>>
    BY <1>15 DEF VulkanDestroyDevice, ShutDown
  <2>2. QED
    BY <2>1, EmptyRange DEF OwnerInv
<1>16. ASSUME backend = "D3D12", FailToWaitForFence PROVE OwnerInv'
  BY <1>16, OwnersKept DEF FailToWaitForFence
<1>17. ASSUME backend = "D3D12", Execute PROVE OwnerInv'
  BY <1>17, OwnersKept DEF Execute, Work
<1>18. ASSUME backend = "D3D12", BeginWait PROVE OwnerInv'
  BY <1>18, OwnersKept DEF BeginWait, Work
<1>19. ASSUME backend = "D3D12", EndWait PROVE OwnerInv'
  BY <1>19, OwnersKept DEF EndWait
<1>20. ASSUME backend = "D3D12", D3D12RetireCommandBuffers PROVE OwnerInv'
  <2>1. Distinct(inFlight)
    BY DEF OwnerInv
  <2>2. PICK done \in Seq(Buffers) :
           /\ Range(done) \subseteq Range(inFlight) /\ Distinct(done)
           /\ Retire(done, semaphore, pool \o done) /\ pool \o done \in Seq(Buffers)
    BY <1>20, <2>1, D3D12Retiring DEF ListsTyped
  <2>3. UNCHANGED <<encoding, unsubmitted, sending, handles>>
    BY <1>20 DEF D3D12RetireCommandBuffers
  <2>4. QED
    BY <2>2, <2>3, OwnersAfterRetiring
<1>21. ASSUME backend = "D3D12", D3D12GpuFinish PROVE OwnerInv'
  BY <1>21, OwnersKept DEF D3D12GpuFinish
<1>22. ASSUME backend = "D3D12", D3D12DestroyDevice PROVE OwnerInv'
  <2>1. pool' = <<>> /\ inFlight' = <<>> /\ UNCHANGED <<encoding, unsubmitted, sending, handles>>
    BY <1>22 DEF D3D12DestroyDevice, ShutDown
  <2>2. QED
    BY <2>1, EmptyRange DEF OwnerInv
<1>23. ASSUME backend = "Metal", Commit PROVE OwnerInv'
  BY <1>23, OwnersKept DEF Commit
<1>24. ASSUME backend = "Metal", MetalWaitOnHost PROVE OwnerInv'
  BY <1>24, OwnersKept DEF MetalWaitOnHost
<1>25. ASSUME backend = "Metal", MetalRetireCommandBuffers PROVE OwnerInv'
  <2>1. Distinct(inFlight)
    BY DEF OwnerInv
  <2>2. PICK done \in Seq(Buffers) :
           /\ Range(done) \subseteq Range(inFlight) /\ Distinct(done)
           /\ Retire(done, semaphore, pool) /\ pool \in Seq(Buffers)
    BY <1>25, <2>1, MetalRetiring DEF ListsTyped
  <2>3. UNCHANGED <<encoding, unsubmitted, sending, handles>>
    BY <1>25 DEF MetalRetireCommandBuffers
  <2>4. QED
    BY <2>2, <2>3, OwnersAfterRetiring
<1>26. ASSUME backend = "Metal", GpuSignal PROVE OwnerInv'
  BY <1>26, OwnersKept DEF GpuSignal
<1>27. ASSUME backend = "Metal", GpuComplete PROVE OwnerInv'
  BY <1>27, OwnersKept DEF GpuComplete
<1>28. ASSUME backend = "Metal", MetalDestroyDevice PROVE OwnerInv'
  <2>1. pool' = <<>> /\ inFlight' = <<>> /\ UNCHANGED <<encoding, unsubmitted, sending, handles>>
    BY <1>28 DEF MetalDestroyDevice, ShutDown
  <2>2. QED
    BY <2>1, EmptyRange DEF OwnerInv
<1>29. ASSUME NEW b \in Buffers, backend = "CUDA", CreateEncoderFromEmptyPool(b) PROVE
   OwnerInv'
  <2>1. PICK done \in Seq(Buffers), newPool \in Seq(Buffers) :
           /\ done = Finished(FinishedNow)
           /\ Retire(done, FinishedNow, newPool)
           /\ \/ done = <<>> /\ newPool = <<>> /\ ~Alive(b)
              \/ done # <<>> /\ newPool = Tail(done) /\ b = Head(done)
    BY <1>29, FromEmptyPool
  <2>2. /\ UNCHANGED <<unsubmitted, sending, handles>> /\ encoding' = encoding \cup {b}
    BY <1>29 DEF CreateEncoderFromEmptyPool
  <2>3. Range(done) \subseteq Range(inFlight) /\ Distinct(done)
    BY <2>1, FinishedAre DEF OwnerInv
  <2>4. /\ Distinct(inFlight') /\ Range(inFlight') = Range(inFlight) \ Range(done)
        /\ pool' = newPool
    BY <2>1, RetireLists
  <2>5. CASE done = <<>> /\ newPool = <<>> /\ ~Alive(b)
    <3>1. b \notin Range(inFlight) /\ handles[b] = 0
      BY <2>5 DEF Alive, ListsTyped
    <3>2. b \notin unsubmitted
      BY <3>1 DEF OwnerInv
    <3>3. Range(pool') = {} /\ Distinct(pool')
      BY <2>4, <2>5, EmptyRange
    <3>4. QED
      BY <2>2, <2>4, <3>1, <3>2, <3>3 DEF OwnerInv
  <2>6. CASE done # <<>> /\ newPool = Tail(done) /\ b = Head(done)
    <3>1. b \in Range(done) /\ Distinct(pool') /\ Range(pool') = Range(done) \ {b}
      BY <2>3, <2>4, <2>6, DistinctTail
    <3>2. QED
      BY <2>2, <2>3, <2>4, <3>1 DEF OwnerInv
  <2>7. QED
    BY <2>1, <2>5, <2>6
<1>30. ASSUME NEW bs \in SUBSET Buffers, NEW s \in Streams \cup {Default}, backend =
   "CUDA", BeginSubmitTo(bs, s) PROVE OwnerInv'
  <2>1. /\ UNCHANGED <<pool, inFlight, encoding, handles>> /\ bs \subseteq unsubmitted
        /\ unsubmitted' = unsubmitted \ bs /\ sending' = bs
    BY <1>30 DEF BeginSubmitTo
  <2>2. QED
    BY <2>1 DEF OwnerInv
<1>31. ASSUME NEW b \in Buffers, backend = "CUDA", ExecuteBuffer(b) PROVE OwnerInv'
  <2>1. /\ UNCHANGED <<pool, encoding, unsubmitted, handles>> /\ b \in sending
        /\ sending' = sending \ {b} /\ inFlight' = Append(inFlight, b)
    BY <1>31 DEF ExecuteBuffer
  <2>2. /\ b \notin Range(inFlight) /\ b \notin Range(pool)
        /\ b \notin encoding /\ b \notin unsubmitted
    BY <1>31, <2>1 DEF SendInv
  <2>3. Distinct(inFlight') /\ Range(inFlight') = Range(inFlight) \cup {b}
    BY <2>1, <2>2, DistinctAppend DEF OwnerInv, ListsTyped
  <2>4. QED
    BY <2>1, <2>2, <2>3 DEF OwnerInv
<1>32. ASSUME backend = "CUDA", EndSubmit PROVE OwnerInv'
  <2>1. /\ UNCHANGED <<pool, inFlight, encoding, handles>> /\ sending' = {}
        /\ unsubmitted' = unsubmitted \cup sending
    BY <1>32 DEF EndSubmit
  <2>2. QED
    BY <1>32, <2>1 DEF OwnerInv, SendInv
<1>33. ASSUME backend = "CUDA", CUDARetireCommandBuffers PROVE OwnerInv'
  <2>1. PICK done \in Seq(Buffers) :
           done = Finished(FinishedNow) /\ Range(done) \subseteq Range(inFlight) /\ Distinct(done)
    BY FinishedAre DEF OwnerInv
  <2>2. pool \o done \in Seq(Buffers)
    BY <2>1, ConcatProperties DEF ListsTyped
  <2>3. Retire(done, FinishedNow, pool \o done) /\ UNCHANGED <<encoding, unsubmitted, sending, handles>>
    BY <1>33, <2>1 DEF CUDARetireCommandBuffers
  <2>4. QED
    BY <2>1, <2>2, <2>3, OwnersAfterRetiring
<1>34. ASSUME backend = "CUDA", CUDAWaitOnHost PROVE OwnerInv'
  <2>1. Distinct(inFlight) /\ inFlight \in Seq(Buffers) /\ pool \o inFlight \in Seq(Buffers)
    BY ConcatProperties DEF ListsTyped, OwnerInv
  <2>2. /\ Retire(inFlight, lastSubmitted, pool \o inFlight)
        /\ UNCHANGED <<encoding, unsubmitted, sending, handles>>
    BY <1>34 DEF CUDAWaitOnHost
  <2>3. QED
    BY <2>1, <2>2, OwnersAfterRetiring
<1>35. ASSUME NEW i \in DOMAIN gpu, backend = "CUDA", CUDAGpuFinish(i) PROVE OwnerInv'
  BY <1>35, OwnersKept DEF CUDAGpuFinish
<1>36. ASSUME backend = "CUDA", CUDADestroyDevice PROVE OwnerInv'
  <2>1. pool' = <<>> /\ inFlight' = <<>> /\ UNCHANGED <<encoding, unsubmitted, sending, handles>>
    BY <1>36 DEF CUDADestroyDevice, ShutDown
  <2>2. QED
    BY <2>1, EmptyRange DEF OwnerInv
<1>37. CASE UNCHANGED vars
  BY <1>37, OwnersKept DEF vars
<1>38. QED
  BY <1>1, <1>2, <1>3, <1>4, <1>5, <1>6, <1>7, <1>8, <1>9, <1>10, <1>11, <1>12, <1>13,
     <1>14, <1>15, <1>16, <1>17, <1>18, <1>19, <1>20, <1>21, <1>22, <1>23, <1>24, <1>25,
     <1>26, <1>27, <1>28, <1>29, <1>30, <1>31, <1>32, <1>33, <1>34, <1>35, <1>36, <1>37,
     CommandQueueAssumption DEF Next, ClientStep, SubmitterStep, GpuStep, DestroyDevice,
     VulkanClientStep, VulkanSubmitterStep, D3D12ClientStep, D3D12SubmitterStep,
     MetalClientStep, MetalSubmitterStep, MetalGpuStep, CUDAClientStep,
     CUDASubmitterStep, CUDAGpuStep

LEMMA SendKept ==
    ASSUME SendInv,
           UNCHANGED <<backend, pc, sending, lists, encoding, unsubmitted, submissionID, lastSubmitted>>
    PROVE  SendInv'
BY DEF SendInv, lists

LEMMA NothingToSend ==
    ASSUME sending' = {} PROVE SendInv'
BY DEF SendInv

LEMMA SendNext == ListsTyped /\ TimelineTyped /\ OwnerInv /\ SendInv /\ EndInv /\
   [Next]_vars => SendInv'
<1> SUFFICES ASSUME ListsTyped, TimelineTyped, OwnerInv, SendInv, EndInv, [Next]_vars
   PROVE SendInv'
  OBVIOUS
<1> USE DEF lists, recording, submitter, timeline, device
<1>1. ASSUME NEW b \in Buffers, NEW r \in Resources, RecordTracked(b, r) PROVE SendInv'
  <2>1. UNCHANGED <<backend, pc, sending, lists, encoding, unsubmitted, submissionID, lastSubmitted>>
    BY <1>1 DEF RecordTracked
  <2>2. QED
    BY <2>1, SendKept DEF SendInv
<1>2. ASSUME NEW b \in Buffers, NEW r \in Resources, RecordRaw(b, r) PROVE SendInv'
  <2>1. UNCHANGED <<backend, pc, sending, lists, encoding, unsubmitted, submissionID, lastSubmitted>>
    BY <1>2 DEF RecordRaw
  <2>2. QED
    BY <2>1, SendKept DEF SendInv
<1>3. ASSUME NEW b \in Buffers, FinishEncoder(b) PROVE SendInv'
  <2>1. /\ UNCHANGED <<backend, pc, sending, lists, submissionID, lastSubmitted>>
        /\ b \in encoding /\ encoding' = encoding \ {b} /\ unsubmitted' = unsubmitted \cup {b}
    BY <1>3 DEF FinishEncoder
  <2>2. QED
    BY <2>1 DEF SendInv, lists
<1>4. ASSUME NEW b \in Buffers, ReleaseBuffer(b) PROVE SendInv'
  <2>1. /\ UNCHANGED <<backend, pc, sending, lists, encoding, lastSubmitted>>
        /\ unsubmitted' \subseteq unsubmitted
    BY <1>4 DEF ReleaseBuffer
  <2>2. backend # "CUDA" => UNCHANGED submissionID
    BY <1>4 DEF ReleaseBuffer, ResetBuffers, ListsTyped
  <2>3. QED
    BY <2>1, <2>2 DEF SendInv, lists
<1>5. ASSUME NEW r \in Resources, ReleaseResource(r) PROVE SendInv'
  <2>1. UNCHANGED <<backend, pc, sending, lists, encoding, unsubmitted, submissionID, lastSubmitted>>
    BY <1>5 DEF ReleaseResource
  <2>2. QED
    BY <2>1, SendKept DEF SendInv
<1>6. ASSUME ReleaseDevice PROVE SendInv'
  <2>1. UNCHANGED <<backend, pc, sending, lists, encoding, unsubmitted, submissionID, lastSubmitted>>
    BY <1>6 DEF ReleaseDevice
  <2>2. QED
    BY <2>1, SendKept DEF SendInv
<1>7. ASSUME NEW r \in Resources, BreakDeviceReference(r) PROVE SendInv'
  <2>1. UNCHANGED <<backend, pc, sending, lists, encoding, unsubmitted, submissionID, lastSubmitted>>
    BY <1>7 DEF BreakDeviceReference
  <2>2. QED
    BY <2>1, SendKept DEF SendInv
<1>8. ASSUME NEW b \in Buffers, CreateEncoder(b), backend = "CUDA" => pool # <<>> PROVE
   SendInv'
  <2>1. /\ UNCHANGED <<backend, pc, sending, inFlight, unsubmitted, submissionID, lastSubmitted>>
        /\ encoding' = encoding \cup {b}
        /\ backend = "CUDA" => pool # <<>> /\ b = Head(pool) /\ pool' = Tail(pool)
    BY <1>8 DEF CreateEncoder, PoolAfterTake
  <2>2. backend = "CUDA" => b \in Range(pool) /\ Range(pool') = Range(pool) \ {b}
    BY <2>1, DistinctTail DEF OwnerInv, ListsTyped
  <2>3. QED
    BY <2>1, <2>2 DEF SendInv
<1>9. ASSUME NEW b \in Buffers, DropEncoder(b) PROVE SendInv'
  <2>1. /\ UNCHANGED <<backend, pc, sending, inFlight, unsubmitted, lastSubmitted>>
        /\ b \in encoding /\ encoding' = encoding \ {b}
        /\ backend = "CUDA" => pool' = Append(pool, b)
    BY <1>9 DEF DropEncoder
  <2>2. backend # "CUDA" => UNCHANGED submissionID
    BY <1>9 DEF DropEncoder, ResetBuffers, ListsTyped
  <2>3. Range(Append(pool, b)) = Range(pool) \cup {b}
    BY <2>1, DistinctAppend DEF OwnerInv, ListsTyped
  <2>4. QED
    BY <2>1, <2>2, <2>3 DEF SendInv
<1>10. ASSUME NEW bs \in SUBSET Buffers, backend # "CUDA", BeginSubmit(bs) PROVE
   SendInv'
  <2>1. PICK s \in SetToSeqs(bs) : inFlight' = inFlight \o s
    BY <1>10 DEF BeginSubmit
  <2>2. /\ backend' = backend /\ backend # "CUDA" /\ pc' = "send" /\ sending' = bs
        /\ \A b \in bs : submissionID'[b] = lastSubmitted'
    BY <1>10 DEF BeginSubmit
  <2>3. IsFiniteSet(bs)
    BY FS_Subset, CommandQueueAssumption DEF CommandQueueAssumption
  <2>4. s \in Seq(Buffers) /\ Range(s) = bs
    BY <2>1, <2>3, OrdersOf, SeqMonotonic
  <2>5. bs \subseteq Range(inFlight')
    BY <2>1, <2>4, Concatenation DEF ListsTyped
  <2>6. QED
    BY <2>2, <2>5 DEF SendInv
<1>11. ASSUME backend = "Vulkan", QueueSubmit PROVE SendInv'
  <2>1. sending' = {}
    BY <1>11 DEF QueueSubmit, Work, SendInv
  <2>2. QED
    BY <2>1, NothingToSend
<1>12. ASSUME backend = "Vulkan", VulkanWaitOnHost PROVE SendInv'
  <2>1. sending' = {}
    BY <1>12 DEF VulkanWaitOnHost, SendInv
  <2>2. QED
    BY <2>1, NothingToSend
<1>13. ASSUME backend = "Vulkan", VulkanRetireCommandBuffers PROVE SendInv'
  <2>1. sending' = {}
    BY <1>13 DEF VulkanRetireCommandBuffers, SendInv
  <2>2. QED
    BY <2>1, NothingToSend
<1>14. ASSUME backend = "Vulkan", VulkanGpuFinish PROVE SendInv'
  <2>1. UNCHANGED <<backend, pc, sending, lists, encoding, unsubmitted, submissionID, lastSubmitted>>
    BY <1>14 DEF VulkanGpuFinish
  <2>2. QED
    BY <2>1, SendKept DEF SendInv
<1>15. ASSUME backend = "Vulkan", VulkanDestroyDevice PROVE SendInv'
  <2>1. deviceHeld = FALSE /\ UNCHANGED <<sending, pc>>
    BY <1>15 DEF VulkanDestroyDevice, ShutDown, DeviceReferenced, TimelineTyped
  <2>2. sending' = {}
    BY <2>1 DEF SendInv, EndInv
  <2>3. QED
    BY <2>2, NothingToSend
<1>16. ASSUME backend = "D3D12", FailToWaitForFence PROVE SendInv'
  <2>1. sending' = {}
    BY <1>16 DEF FailToWaitForFence, SendInv
  <2>2. QED
    BY <2>1, NothingToSend
<1>17. ASSUME backend = "D3D12", Execute PROVE SendInv'
  <2>1. sending' = {}
    BY <1>17 DEF Execute, Work, SendInv
  <2>2. QED
    BY <2>1, NothingToSend
<1>18. ASSUME backend = "D3D12", BeginWait PROVE SendInv'
  <2>1. sending' = {}
    BY <1>18 DEF BeginWait, Work, SendInv
  <2>2. QED
    BY <2>1, NothingToSend
<1>19. ASSUME backend = "D3D12", EndWait PROVE SendInv'
  <2>1. sending' = {}
    BY <1>19 DEF EndWait, SendInv
  <2>2. QED
    BY <2>1, NothingToSend
<1>20. ASSUME backend = "D3D12", D3D12RetireCommandBuffers PROVE SendInv'
  <2>1. sending' = {}
    BY <1>20 DEF D3D12RetireCommandBuffers, SendInv
  <2>2. QED
    BY <2>1, NothingToSend
<1>21. ASSUME backend = "D3D12", D3D12GpuFinish PROVE SendInv'
  <2>1. UNCHANGED <<backend, pc, sending, lists, encoding, unsubmitted, submissionID, lastSubmitted>>
    BY <1>21 DEF D3D12GpuFinish
  <2>2. QED
    BY <2>1, SendKept DEF SendInv
<1>22. ASSUME backend = "D3D12", D3D12DestroyDevice PROVE SendInv'
  <2>1. deviceHeld = FALSE /\ UNCHANGED <<sending, pc>>
    BY <1>22 DEF D3D12DestroyDevice, ShutDown, DeviceReferenced, TimelineTyped
  <2>2. sending' = {}
    BY <2>1 DEF SendInv, EndInv
  <2>3. QED
    BY <2>2, NothingToSend
<1>23. ASSUME backend = "Metal", Commit PROVE SendInv'
  <2>1. sending' = {}
    BY <1>23 DEF Commit, SendInv
  <2>2. QED
    BY <2>1, NothingToSend
<1>24. ASSUME backend = "Metal", MetalWaitOnHost PROVE SendInv'
  <2>1. sending' = {}
    BY <1>24 DEF MetalWaitOnHost, SendInv
  <2>2. QED
    BY <2>1, NothingToSend
<1>25. ASSUME backend = "Metal", MetalRetireCommandBuffers PROVE SendInv'
  <2>1. sending' = {}
    BY <1>25 DEF MetalRetireCommandBuffers, SendInv
  <2>2. QED
    BY <2>1, NothingToSend
<1>26. ASSUME backend = "Metal", GpuSignal PROVE SendInv'
  <2>1. UNCHANGED <<backend, pc, sending, lists, encoding, unsubmitted, submissionID, lastSubmitted>>
    BY <1>26 DEF GpuSignal
  <2>2. QED
    BY <2>1, SendKept DEF SendInv
<1>27. ASSUME backend = "Metal", GpuComplete PROVE SendInv'
  <2>1. UNCHANGED <<backend, pc, sending, lists, encoding, unsubmitted, submissionID, lastSubmitted>>
    BY <1>27 DEF GpuComplete
  <2>2. QED
    BY <2>1, SendKept DEF SendInv
<1>28. ASSUME backend = "Metal", MetalDestroyDevice PROVE SendInv'
  <2>1. deviceHeld = FALSE /\ UNCHANGED <<sending, pc>>
    BY <1>28 DEF MetalDestroyDevice, ShutDown, DeviceReferenced, TimelineTyped
  <2>2. sending' = {}
    BY <2>1 DEF SendInv, EndInv
  <2>3. QED
    BY <2>2, NothingToSend
<1>29. ASSUME NEW b \in Buffers, backend = "CUDA", CreateEncoderFromEmptyPool(b) PROVE
   SendInv'
  <2>1. sending' = {}
    BY <1>29 DEF CreateEncoderFromEmptyPool, SendInv
  <2>2. QED
    BY <2>1, NothingToSend
<1>30. ASSUME NEW bs \in SUBSET Buffers, NEW s \in Streams \cup {Default}, backend =
   "CUDA", BeginSubmitTo(bs, s) PROVE SendInv'
  <2>1. /\ UNCHANGED <<backend, lists, encoding>> /\ bs \subseteq unsubmitted
        /\ unsubmitted' = unsubmitted \ bs /\ sending' = bs /\ pc' = "send" /\ backend = "CUDA"
    BY <1>30 DEF BeginSubmitTo
  <2>2. QED
    BY <2>1 DEF OwnerInv, SendInv, lists
<1>31. ASSUME NEW b \in Buffers, backend = "CUDA", ExecuteBuffer(b) PROVE SendInv'
  <2>1. /\ UNCHANGED <<backend, pool, encoding, unsubmitted, pc>> /\ b \in sending /\ pc = "send"
        /\ sending' = sending \ {b} /\ inFlight' = Append(inFlight, b) /\ backend = "CUDA"
    BY <1>31 DEF ExecuteBuffer
  <2>2. b \notin Range(inFlight)
    BY <1>31, <2>1 DEF SendInv
  <2>3. Range(inFlight') = Range(inFlight) \cup {b}
    BY <2>1, <2>2, DistinctAppend DEF OwnerInv, ListsTyped
  <2>4. QED
    BY <2>1, <2>3 DEF SendInv
<1>32. ASSUME backend = "CUDA", EndSubmit PROVE SendInv'
  <2>1. sending' = {}
    BY <1>32 DEF EndSubmit, SendInv
  <2>2. QED
    BY <2>1, NothingToSend
<1>33. ASSUME backend = "CUDA", CUDARetireCommandBuffers PROVE SendInv'
  <2>1. sending' = {}
    BY <1>33 DEF CUDARetireCommandBuffers, SendInv
  <2>2. QED
    BY <2>1, NothingToSend
<1>34. ASSUME backend = "CUDA", CUDAWaitOnHost PROVE SendInv'
  <2>1. sending' = {}
    BY <1>34 DEF CUDAWaitOnHost, SendInv
  <2>2. QED
    BY <2>1, NothingToSend
<1>35. ASSUME NEW i \in DOMAIN gpu, backend = "CUDA", CUDAGpuFinish(i) PROVE SendInv'
  <2>1. UNCHANGED <<backend, pc, sending, lists, encoding, unsubmitted, submissionID, lastSubmitted>>
    BY <1>35 DEF CUDAGpuFinish
  <2>2. QED
    BY <2>1, SendKept DEF SendInv
<1>36. ASSUME backend = "CUDA", CUDADestroyDevice PROVE SendInv'
  <2>1. deviceHeld = FALSE /\ UNCHANGED <<sending, pc>>
    BY <1>36 DEF CUDADestroyDevice, ShutDown, DeviceReferenced, TimelineTyped
  <2>2. sending' = {}
    BY <2>1 DEF SendInv, EndInv
  <2>3. QED
    BY <2>2, NothingToSend
<1>37. CASE UNCHANGED vars
  <2>1. UNCHANGED <<backend, pc, sending, lists, encoding, unsubmitted, submissionID, lastSubmitted>>
    BY <1>37 DEF vars
  <2>2. QED
    BY <2>1, SendKept DEF SendInv
<1>38. QED
  BY <1>1, <1>2, <1>3, <1>4, <1>5, <1>6, <1>7, <1>8, <1>9, <1>10, <1>11, <1>12, <1>13,
     <1>14, <1>15, <1>16, <1>17, <1>18, <1>19, <1>20, <1>21, <1>22, <1>23, <1>24, <1>25,
     <1>26, <1>27, <1>28, <1>29, <1>30, <1>31, <1>32, <1>33, <1>34, <1>35, <1>36, <1>37,
     CommandQueueAssumption DEF Next, ClientStep, SubmitterStep, GpuStep, DestroyDevice,
     VulkanClientStep, VulkanSubmitterStep, D3D12ClientStep, D3D12SubmitterStep,
     MetalClientStep, MetalSubmitterStep, MetalGpuStep, CUDAClientStep,
     CUDASubmitterStep, CUDAGpuStep

-----------------------------------------------------------------------------
(* What is finished.                                                       *)

(* What CUDA takes as finished the GPU has done.                           *)
LEMMA NothingFinishedOnGpu ==
    ASSUME TimelineTyped, IdsInv, EventsInv, backend = "CUDA"
    PROVE  \A i \in DOMAIN gpu : gpu[i].id > FinishedNow
<1>1. SUFFICES ASSUME NEW i \in DOMAIN gpu PROVE gpu[i].id > FinishedNow
  OBVIOUS
<1>2. gpu[i].id \in Nat /\ gpu[i].id > lastFinished /\ lastFinished \in Nat
  <2>1. gpu[i] \in Submission
    BY ElementOfSeq, LenProperties DEF TimelineTyped
  <2>2. gpu[i].id > lastFinished
    BY DEF IdsInv, Reached
  <2>3. QED
    BY <2>1, <2>2 DEF Submission, TimelineTyped
<1>3. DOMAIN events = 1..Len(events) /\ Len(events) \in Nat /\ \A k \in DOMAIN events : events[k] \in Nat
  BY LenProperties, ElementOfSeq DEF TimelineTyped
<1>4. CASE events # <<>> /\ CompleteEvents > 0 /\ events[CompleteEvents] > lastFinished
  <2>1. CompleteEvents \in 1..Len(events) /\ \A k \in 1..CompleteEvents : ~OnGpu(events[k])
    BY <1>3, <1>4, EventsComplete
  <2>2. FinishedNow = events[CompleteEvents]
    BY <1>4 DEF FinishedNow
  <2> HIDE DEF CompleteEvents, FinishedNow
  <2>3. PICK n \in 1..Len(events) : n = CompleteEvents
    BY <2>1
  <2>4. FinishedNow = events[n] /\ n \in DOMAIN events /\ \A k \in 1..n : ~OnGpu(events[k])
    BY <1>3, <2>1, <2>2, <2>3
  <2>5. CASE gpu[i].stream # Default
    <3>1. PICK k \in DOMAIN events : events[k] = gpu[i].id
      BY <2>5 DEF EventsInv
    <3>2. k \notin 1..n
      BY <2>4, <3>1 DEF OnGpu
    <3>3. n < k
      BY <1>3, <3>2
    <3>4. events[n] < events[k]
      BY <2>4, <3>3 DEF EventsInv
    <3>5. QED
      BY <1>2, <1>3, <2>4, <3>1, <3>4
  <2>6. CASE gpu[i].stream = Default
    <3>1. ~OnGpu(events[n]) /\ gpu[i].id # events[n]
      BY <1>3, <2>4 DEF OnGpu
    <3>2. ~(gpu[i].id < events[n])
      BY <2>4, <2>6, <3>1 DEF EventsInv
    <3>3. QED
      BY <1>2, <1>3, <2>4, <3>1, <3>2
  <2>7. QED
    BY <2>5, <2>6
<1>5. CASE events = <<>> /\ inFlight # <<>> /\ StreamIdle
  <2>1. gpu[i].stream # Default
    BY <1>5 DEF StreamIdle
  <2>2. \E k \in DOMAIN events : events[k] = gpu[i].id
    BY <2>1 DEF EventsInv
  <2>3. FALSE
    BY <1>5, <2>2
  <2>4. QED
    BY <2>3
<1>6. CASE ~(events # <<>> /\ CompleteEvents > 0 /\ events[CompleteEvents] > lastFinished)
           /\ ~(events = <<>> /\ inFlight # <<>> /\ StreamIdle)
  <2>1. FinishedNow = lastFinished
    BY <1>6 DEF FinishedNow
  <2>2. QED
    BY <1>2, <2>1
<1>7. QED
  BY <1>4, <1>5, <1>6

(* What a retirement with this ID does not touch.                          *)
NotFinished(finished) ==
    \A i \in DOMAIN gpu : gpu[i].uses # {} => gpu[i].id > finished

(* A retirement, as far as references are concerned.                       *)
Retired ==
    \E done \in Seq(Buffers), ok \in SUBSET Buffers, finished \in Nat :
       \E d \in Deferred(LastReferenced(ok)) :
          RetireWith(done, finished, ok, d) /\ NotFinished(finished)

LEMMA RetiredBy ==
    ASSUME RefsTyped, NEW done \in Seq(Buffers), NEW finished \in Nat, NEW newPool,
           Retire(done, finished, newPool), NotFinished(finished)
    PROVE  Retired
<1>1. PICK ok \in SUBSET Range(done) : \E d \in Deferred(LastReferenced(ok)) :
         RetireWith(done, finished, ok, d)
  BY RetireSplit
<1>2. PICK d \in Deferred(LastReferenced(ok)) : RetireWith(done, finished, ok, d)
  BY <1>1
<1>3. ok \in SUBSET Buffers
  BY RangeTyped
<1>4. QED
  BY <1>2, <1>3 DEF Retired

(* How a step changes the references to resources and the queue of         *)
(* deferred deletes.                                                       *)
RefsStep ==
    \/ UNCHANGED <<tracked, owned, resource, deferred>> /\ lastSubmitted' >= lastSubmitted
    \/ \E b \in Buffers, r \in Resources : RecordTracked(b, r)
    \/ \E ok \in SUBSET Buffers : ResetBuffers(ok) /\ UNCHANGED <<owned, lastSubmitted, gpu>>
    \/ Retired /\ UNCHANGED <<owned, lastSubmitted, gpu>>
    \/ \E r \in Resources : ReleaseResource(r)
    \/ \E r \in Resources : BreakDeviceReference(r)
    \/ /\ \E finished \in Nat : ShutDown(finished)
       /\ gpu' = <<>> /\ lastSubmitted' >= lastSubmitted

LEMMA RefsSteps == ListsTyped /\ RefsTyped /\ TimelineTyped /\ IdsInv /\ EventsInv /\
   [Next]_vars => RefsStep
<1> SUFFICES ASSUME ListsTyped, RefsTyped, TimelineTyped, IdsInv, EventsInv, [Next]_vars
   PROVE RefsStep
  OBVIOUS
<1> USE DEF lists, recording, submitter, timeline, device
<1>1. ASSUME NEW b \in Buffers, NEW r \in Resources, RecordTracked(b, r) PROVE RefsStep
  BY <1>1 DEF RefsStep
<1>2. ASSUME NEW b \in Buffers, NEW r \in Resources, RecordRaw(b, r) PROVE RefsStep
  BY <1>2 DEF RecordRaw, RefsStep, TimelineTyped
<1>3. ASSUME NEW b \in Buffers, FinishEncoder(b) PROVE RefsStep
  BY <1>3 DEF FinishEncoder, RefsStep, TimelineTyped
<1>4. ASSUME NEW b \in Buffers, ReleaseBuffer(b) PROVE RefsStep
  <2>1. CASE handles[b] = 1 /\ b \notin Range(pool) \cup Range(inFlight) \cup encoding
    <3>1. ResetBuffers({b}) /\ UNCHANGED <<owned, lastSubmitted, gpu>>
      BY <1>4, <2>1 DEF ReleaseBuffer
    <3>2. QED
      BY <3>1 DEF RefsStep
  <2>2. CASE ~(handles[b] = 1 /\ b \notin Range(pool) \cup Range(inFlight) \cup encoding)
    BY <1>4, <2>2 DEF ReleaseBuffer, RefsStep, TimelineTyped
  <2>3. QED
    BY <2>1, <2>2
<1>5. ASSUME NEW r \in Resources, ReleaseResource(r) PROVE RefsStep
  BY <1>5 DEF RefsStep
<1>6. ASSUME ReleaseDevice PROVE RefsStep
  BY <1>6 DEF ReleaseDevice, RefsStep, TimelineTyped
<1>7. ASSUME NEW r \in Resources, BreakDeviceReference(r) PROVE RefsStep
  BY <1>7 DEF RefsStep
<1>8. ASSUME NEW b \in Buffers, CreateEncoder(b), backend = "CUDA" => pool # <<>> PROVE
   RefsStep
  BY <1>8 DEF CreateEncoder, PoolAfterTake, RefsStep, TimelineTyped
<1>9. ASSUME NEW b \in Buffers, DropEncoder(b) PROVE RefsStep
  <2>1. PICK ok \in Resets({b}) : ResetBuffers(ok)
    BY <1>9 DEF DropEncoder
  <2>2. ok \in SUBSET Buffers
    BY <2>1 DEF Resets
  <2>3. UNCHANGED <<owned, lastSubmitted, gpu>>
    BY <1>9 DEF DropEncoder
  <2>4. QED
    BY <2>1, <2>2, <2>3 DEF RefsStep
<1>10. ASSUME NEW bs \in SUBSET Buffers, backend # "CUDA", BeginSubmit(bs) PROVE
   RefsStep
  BY <1>10 DEF BeginSubmit, RefsStep, TimelineTyped
<1>11. ASSUME backend = "Vulkan", QueueSubmit PROVE RefsStep
  BY <1>11 DEF QueueSubmit, Work, RefsStep, TimelineTyped
<1>12. ASSUME backend = "Vulkan", VulkanWaitOnHost PROVE RefsStep
  BY <1>12 DEF VulkanWaitOnHost, RefsStep, TimelineTyped
<1>13. ASSUME backend = "Vulkan", VulkanRetireCommandBuffers PROVE RefsStep
  <2>1. PICK done \in Seq(Buffers) : Retire(done, semaphore, pool \o done)
    BY <1>13, VulkanRetiring
  <2>2. semaphore \in Nat /\ NotFinished(semaphore)
    BY <1>13 DEF TimelineTyped, NotFinished, IdsInv, Reached
  <2>3. UNCHANGED <<owned, lastSubmitted, gpu>>
    BY <1>13 DEF VulkanRetireCommandBuffers
  <2>4. QED
    BY <2>1, <2>2, <2>3, RetiredBy DEF RefsStep
<1>14. ASSUME backend = "Vulkan", VulkanGpuFinish PROVE RefsStep
  BY <1>14 DEF VulkanGpuFinish, RefsStep, TimelineTyped
<1>15. ASSUME backend = "Vulkan", VulkanDestroyDevice PROVE RefsStep
  <2>1. ShutDown(semaphore) /\ semaphore \in Nat
    BY <1>15 DEF VulkanDestroyDevice, TimelineTyped
  <2>2. gpu' = <<>> /\ lastSubmitted' >= lastSubmitted
    BY <1>15 DEF VulkanDestroyDevice, TimelineTyped
  <2>3. QED
    BY <2>1, <2>2 DEF RefsStep
<1>16. ASSUME backend = "D3D12", FailToWaitForFence PROVE RefsStep
  BY <1>16 DEF FailToWaitForFence, RefsStep, TimelineTyped
<1>17. ASSUME backend = "D3D12", Execute PROVE RefsStep
  BY <1>17 DEF Execute, Work, RefsStep, TimelineTyped
<1>18. ASSUME backend = "D3D12", BeginWait PROVE RefsStep
  BY <1>18 DEF BeginWait, Work, RefsStep, TimelineTyped
<1>19. ASSUME backend = "D3D12", EndWait PROVE RefsStep
  BY <1>19 DEF EndWait, RefsStep, TimelineTyped
<1>20. ASSUME backend = "D3D12", D3D12RetireCommandBuffers PROVE RefsStep
  <2>1. PICK done \in Seq(Buffers) : Retire(done, semaphore, pool \o done)
    BY <1>20, D3D12Retiring
  <2>2. semaphore \in Nat /\ NotFinished(semaphore)
    BY <1>20 DEF TimelineTyped, NotFinished, IdsInv, Reached
  <2>3. UNCHANGED <<owned, lastSubmitted, gpu>>
    BY <1>20 DEF D3D12RetireCommandBuffers
  <2>4. QED
    BY <2>1, <2>2, <2>3, RetiredBy DEF RefsStep
<1>21. ASSUME backend = "D3D12", D3D12GpuFinish PROVE RefsStep
  BY <1>21 DEF D3D12GpuFinish, RefsStep, TimelineTyped
<1>22. ASSUME backend = "D3D12", D3D12DestroyDevice PROVE RefsStep
  <2>1. PICK finished \in Nat : ShutDown(finished)
    BY <1>22, D3D12Ends
  <2>2. gpu' = <<>> /\ lastSubmitted' >= lastSubmitted
    BY <1>22 DEF D3D12DestroyDevice, TimelineTyped
  <2>3. QED
    BY <2>1, <2>2 DEF RefsStep
<1>23. ASSUME backend = "Metal", Commit PROVE RefsStep
  BY <1>23 DEF Commit, RefsStep, TimelineTyped
<1>24. ASSUME backend = "Metal", MetalWaitOnHost PROVE RefsStep
  BY <1>24 DEF MetalWaitOnHost, RefsStep, TimelineTyped
<1>25. ASSUME backend = "Metal", MetalRetireCommandBuffers PROVE RefsStep
  <2>1. PICK done \in Seq(Buffers) : Retire(done, semaphore, pool)
    BY <1>25, MetalRetiring
  <2>2. semaphore \in Nat /\ NotFinished(semaphore)
    BY <1>25 DEF TimelineTyped, NotFinished, IdsInv, Reached
  <2>3. UNCHANGED <<owned, lastSubmitted, gpu>>
    BY <1>25 DEF MetalRetireCommandBuffers
  <2>4. QED
    BY <2>1, <2>2, <2>3, RetiredBy DEF RefsStep
<1>26. ASSUME backend = "Metal", GpuSignal PROVE RefsStep
  BY <1>26 DEF GpuSignal, RefsStep, TimelineTyped
<1>27. ASSUME backend = "Metal", GpuComplete PROVE RefsStep
  BY <1>27 DEF GpuComplete, RefsStep, TimelineTyped
<1>28. ASSUME backend = "Metal", MetalDestroyDevice PROVE RefsStep
  <2>1. ShutDown(semaphore) /\ semaphore \in Nat
    BY <1>28 DEF MetalDestroyDevice, TimelineTyped
  <2>2. gpu = <<>> /\ gpu' = <<>> /\ lastSubmitted' >= lastSubmitted
    BY <1>28 DEF MetalDestroyDevice, TimelineTyped
  <2>3. QED
    BY <2>1, <2>2 DEF RefsStep
<1>29. ASSUME NEW b \in Buffers, backend = "CUDA", CreateEncoderFromEmptyPool(b) PROVE
   RefsStep
  <2>1. PICK done \in Seq(Buffers), newPool \in Seq(Buffers) : Retire(done, FinishedNow, newPool)
    BY <1>29, FromEmptyPool
  <2>2. FinishedNow \in Nat /\ NotFinished(FinishedNow)
    BY <1>29, FinishedNowTyped, NothingFinishedOnGpu DEF TimelineTyped, NotFinished
  <2>3. UNCHANGED <<owned, lastSubmitted, gpu>>
    BY <1>29 DEF CreateEncoderFromEmptyPool
  <2>4. QED
    BY <2>1, <2>2, <2>3, RetiredBy DEF RefsStep
<1>30. ASSUME NEW bs \in SUBSET Buffers, NEW s \in Streams \cup {Default}, backend =
   "CUDA", BeginSubmitTo(bs, s) PROVE RefsStep
  BY <1>30 DEF BeginSubmitTo, RefsStep, TimelineTyped
<1>31. ASSUME NEW b \in Buffers, backend = "CUDA", ExecuteBuffer(b) PROVE RefsStep
  BY <1>31 DEF ExecuteBuffer, Work, RefsStep, TimelineTyped
<1>32. ASSUME backend = "CUDA", EndSubmit PROVE RefsStep
  BY <1>32 DEF EndSubmit, RefsStep, TimelineTyped
<1>33. ASSUME backend = "CUDA", CUDARetireCommandBuffers PROVE RefsStep
  <2>1. Finished(FinishedNow) \in Seq(Buffers)
    BY FinishedAre
  <2>2. Retire(Finished(FinishedNow), FinishedNow, pool \o Finished(FinishedNow))
    BY <1>33 DEF CUDARetireCommandBuffers
  <2>3. FinishedNow \in Nat /\ NotFinished(FinishedNow)
    BY <1>33, FinishedNowTyped, NothingFinishedOnGpu DEF TimelineTyped, NotFinished
  <2>4. UNCHANGED <<owned, lastSubmitted, gpu>>
    BY <1>33 DEF CUDARetireCommandBuffers
  <2>5. QED
    BY <2>1, <2>2, <2>3, <2>4, RetiredBy DEF RefsStep
<1>34. ASSUME backend = "CUDA", CUDAWaitOnHost PROVE RefsStep
  <2>1. Retire(inFlight, lastSubmitted, pool \o inFlight) /\ gpu = <<>>
    BY <1>34 DEF CUDAWaitOnHost
  <2>2. inFlight \in Seq(Buffers) /\ lastSubmitted \in Nat /\ NotFinished(lastSubmitted)
    BY <2>1 DEF ListsTyped, TimelineTyped, NotFinished
  <2>3. UNCHANGED <<owned, lastSubmitted, gpu>>
    BY <1>34 DEF CUDAWaitOnHost
  <2>4. QED
    BY <2>1, <2>2, <2>3, RetiredBy DEF RefsStep
<1>35. ASSUME NEW i \in DOMAIN gpu, backend = "CUDA", CUDAGpuFinish(i) PROVE RefsStep
  BY <1>35 DEF CUDAGpuFinish, RefsStep, TimelineTyped
<1>36. ASSUME backend = "CUDA", CUDADestroyDevice PROVE RefsStep
  <2>1. ShutDown(lastSubmitted) /\ lastSubmitted \in Nat
    BY <1>36 DEF CUDADestroyDevice, TimelineTyped
  <2>2. gpu = <<>> /\ gpu' = <<>> /\ lastSubmitted' >= lastSubmitted
    BY <1>36 DEF CUDADestroyDevice, TimelineTyped
  <2>3. QED
    BY <2>1, <2>2 DEF RefsStep
<1>37. CASE UNCHANGED vars
  BY <1>37 DEF vars, RefsStep, TimelineTyped
<1>38. QED
  BY <1>1, <1>2, <1>3, <1>4, <1>5, <1>6, <1>7, <1>8, <1>9, <1>10, <1>11, <1>12, <1>13,
     <1>14, <1>15, <1>16, <1>17, <1>18, <1>19, <1>20, <1>21, <1>22, <1>23, <1>24, <1>25,
     <1>26, <1>27, <1>28, <1>29, <1>30, <1>31, <1>32, <1>33, <1>34, <1>35, <1>36, <1>37,
     CommandQueueAssumption DEF Next, ClientStep, SubmitterStep, GpuStep, DestroyDevice,
     VulkanClientStep, VulkanSubmitterStep, D3D12ClientStep, D3D12SubmitterStep,
     MetalClientStep, MetalSubmitterStep, MetalGpuStep, CUDAClientStep,
     CUDASubmitterStep, CUDAGpuStep

-----------------------------------------------------------------------------
(* References to resources and deferred deletes.                           *)

(* What nobody else refers to is live, and not in the queue.               *)
LEMMA GoneIsLive ==
    ASSUME RefsTyped, LiveInv, NEW ok \in SUBSET Buffers
    PROVE  /\ LastReferenced(ok) \in SUBSET Resources
           /\ \A r \in LastReferenced(ok) : resource[r] = "live" /\ r \notin owned
           /\ \A r \in LastReferenced(ok), b \in Buffers \ ok : r \notin tracked[b]
<1>1. LastReferenced(ok) \in SUBSET Resources
  BY GoneTyped
<1>2. \A r \in LastReferenced(ok) :
         /\ r \notin owned /\ \A b \in Buffers \ ok : r \notin tracked[b]
         /\ \E b \in ok : r \in tracked[b]
  BY DEF LastReferenced
<1>3. \A r \in LastReferenced(ok) : \E b \in Buffers : r \in tracked[b]
  BY <1>2
<1>4. QED
  BY <1>1, <1>2, <1>3 DEF LiveInv

(* What is still referred to when those buffers let go.                    *)
LEMMA StillReferenced ==
    ASSUME RefsTyped, LiveInv, NEW ok \in SUBSET Buffers,
           tracked' = [b \in Buffers |-> IF b \in ok THEN {} ELSE tracked[b]], owned' = owned
    PROVE  \A r \in Resources :
              (resource[r] = "live" /\ r \notin LastReferenced(ok)) <=>
                 (r \in owned' \/ \E b \in Buffers : r \in tracked'[b])
<1>1. SUFFICES ASSUME NEW r \in Resources
               PROVE (resource[r] = "live" /\ r \notin LastReferenced(ok)) <=>
                        (r \in owned' \/ \E b \in Buffers : r \in tracked'[b])
  OBVIOUS
<1>2. \A b \in Buffers : tracked'[b] = IF b \in ok THEN {} ELSE tracked[b]
  OBVIOUS
<1>3. ASSUME resource[r] = "live", r \notin LastReferenced(ok)
      PROVE  r \in owned' \/ \E b \in Buffers : r \in tracked'[b]
  <2>1. r \in owned \/ \E b \in Buffers : r \in tracked[b]
    BY <1>3 DEF LiveInv
  <2>2. CASE r \in owned
    BY <2>2
  <2>3. CASE r \notin owned /\ \E b \in Buffers \ ok : r \in tracked[b]
    BY <1>2, <2>3
  <2>4. CASE r \notin owned /\ \A b \in Buffers \ ok : r \notin tracked[b]
    <3>1. \E b \in ok : r \in tracked[b]
      BY <2>1, <2>4
    <3>2. r \in LastReferenced(ok)
      BY <2>4, <3>1 DEF LastReferenced
    <3>3. QED
      BY <1>3, <3>2
  <2>5. QED
    BY <2>2, <2>3, <2>4
<1>4. ASSUME r \in owned' \/ \E b \in Buffers : r \in tracked'[b]
      PROVE  resource[r] = "live" /\ r \notin LastReferenced(ok)
  <2>1. r \in owned \/ \E b \in Buffers \ ok : r \in tracked[b]
    BY <1>2, <1>4
  <2>2. resource[r] = "live"
    BY <2>1 DEF LiveInv
  <2>3. r \notin LastReferenced(ok)
    BY <2>1, GoneIsLive
  <2>4. QED
    BY <2>2, <2>3
<1>5. QED
  BY <1>3, <1>4

(* deferDelete() of several resources keeps the queue ordered.             *)
LEMMA DeferAppends ==
    ASSUME RefsTyped, TimelineTyped, DeferredInv, NEW rs \in SUBSET Resources,
           \A r \in rs : resource[r] = "live", NEW d \in Deferred(rs)
    PROVE  /\ deferred \o d \in Seq(Entries) /\ Ordered(deferred \o d)
           /\ \A k \in DOMAIN (deferred \o d) : (deferred \o d)[k].id <= lastSubmitted
           /\ \A r \in Resources :
                 Waiting(deferred \o d, r) <=> resource[r] \in {"pushed", "deferred"} \/ r \in rs
           /\ \A k \in DOMAIN deferred :
                 k \in DOMAIN (deferred \o d) /\ (deferred \o d)[k] = deferred[k]
           /\ \A r \in rs : \E k \in DOMAIN (deferred \o d) :
                 (deferred \o d)[k].res = r /\ (deferred \o d)[k].id = lastSubmitted
<1>1. /\ d \in Seq(Entries) /\ deferred \in Seq(Entries)
      /\ \A k \in DOMAIN d : d[k].id = lastSubmitted /\ d[k].res \in rs
      /\ \A r \in rs : \E k \in DOMAIN d : d[k].res = r
      /\ \A k, l \in DOMAIN d : k < l => d[k].res # d[l].res
  BY Deferral DEF RefsTyped
<1> DEFINE q == deferred \o d
           m == Len(deferred)
<1>2. /\ q \in Seq(Entries) /\ m \in Nat /\ Len(d) \in Nat
      /\ DOMAIN deferred = 1..m /\ DOMAIN d = 1..Len(d) /\ DOMAIN q = 1..(m + Len(d))
      /\ \A i \in 1..m : q[i] = deferred[i]
      /\ \A i \in 1..Len(d) : q[m + i] = d[i]
  BY <1>1, Concatenation
<1> HIDE DEF q, m
<1>3. \A i \in 1..m : deferred[i].id \in Nat /\ deferred[i].id <= lastSubmitted /\ deferred[i].res \in Resources
  <2>1. m = Len(deferred) /\ \A i \in 1..Len(deferred) : deferred[i].id \in Nat /\ deferred[i].res \in Resources
    BY <1>1, EntriesTyped DEF m
  <2>2. QED
    BY <1>2, <2>1 DEF DeferredInv
<1>4. \A i \in (m + 1)..(m + Len(d)) :
         i - m \in DOMAIN d /\ q[i] = d[i - m] /\ q[i].id = lastSubmitted /\ q[i].res \in rs
  <2>1. SUFFICES ASSUME NEW i \in (m + 1)..(m + Len(d))
                 PROVE  i - m \in DOMAIN d /\ q[i] = d[i - m]
    BY <1>1
  <2>2. i - m \in 1..Len(d) /\ m + (i - m) = i
    BY <1>2
  <2>3. QED
    BY <1>2, <2>2
<1>5. \A i \in 1..m : deferred[i].res \notin rs
  <2>1. \A i \in 1..m : Waiting(deferred, deferred[i].res)
    BY <1>2 DEF Waiting
  <2>2. \A i \in 1..m : resource[deferred[i].res] \in {"pushed", "deferred"}
    BY <1>3, <2>1 DEF DeferredInv
  <2>3. QED
    BY <2>2
<1>6. lastSubmitted \in Nat
  BY DEF TimelineTyped
<1>7. Ordered(q)
  <2>1. SUFFICES ASSUME NEW i \in 1..(m + Len(d)), NEW j \in 1..(m + Len(d)), i < j
                 PROVE  q[i].id <= q[j].id /\ q[i].res # q[j].res
    BY <1>2 DEF Ordered
  <2>2. CASE j \in 1..m
    <3>1. i \in 1..m
      BY <1>2, <2>1, <2>2
    <3>2. QED
      BY <1>2, <2>1, <2>2, <3>1 DEF DeferredInv, Ordered
  <2>3. CASE i \in 1..m /\ j \in (m + 1)..(m + Len(d))
    BY <1>2, <1>3, <1>4, <1>5, <2>3
  <2>4. CASE i \in (m + 1)..(m + Len(d)) /\ j \in (m + 1)..(m + Len(d))
    <3>1. i - m \in DOMAIN d /\ j - m \in DOMAIN d /\ i - m < j - m
      BY <1>2, <1>4, <2>1, <2>4
    <3>2. d[i - m].res # d[j - m].res
      BY <1>1, <3>1
    <3>3. q[i].id <= q[j].id
      BY <1>4, <1>6, <2>4
    <3>4. QED
      BY <1>4, <2>4, <3>2, <3>3
  <2>5. QED
    BY <1>2, <2>1, <2>2, <2>3, <2>4
<1>8. \A k \in DOMAIN q : q[k].id <= lastSubmitted
  <2>1. \A k \in DOMAIN q : k \in 1..m \/ k \in (m + 1)..(m + Len(d))
    BY <1>2
  <2>2. QED
    BY <1>2, <1>3, <1>4, <1>6, <2>1
<1>9. ASSUME NEW r \in rs
      PROVE  \E k \in DOMAIN q : q[k].res = r /\ q[k].id = lastSubmitted
  <2>1. PICK k \in DOMAIN d : d[k].res = r
    BY <1>1
  <2>2. m + k \in DOMAIN q /\ q[m + k] = d[k]
    BY <1>2, <2>1
  <2>3. QED
    BY <1>1, <2>1, <2>2
<1>10. ASSUME NEW r \in Resources
       PROVE  Waiting(q, r) <=> resource[r] \in {"pushed", "deferred"} \/ r \in rs
  <2>1. ASSUME Waiting(q, r) PROVE Waiting(deferred, r) \/ r \in rs
    <3>1. PICK k \in DOMAIN q : q[k].res = r
      BY <2>1 DEF Waiting
    <3>2. CASE k \in 1..m
      BY <1>2, <3>1, <3>2 DEF Waiting
    <3>3. CASE k \in (m + 1)..(m + Len(d))
      BY <1>4, <3>1, <3>3
    <3>4. QED
      BY <1>2, <3>1, <3>2, <3>3
  <2>2. ASSUME Waiting(deferred, r) PROVE Waiting(q, r)
    <3>1. PICK k \in DOMAIN deferred : deferred[k].res = r
      BY <2>2 DEF Waiting
    <3>2. k \in DOMAIN q /\ q[k] = deferred[k]
      BY <1>2, <3>1
    <3>3. QED
      BY <3>1, <3>2 DEF Waiting
  <2>3. r \in rs => Waiting(q, r)
    BY <1>9 DEF Waiting
  <2>4. Waiting(deferred, r) <=> resource[r] \in {"pushed", "deferred"}
    BY DEF DeferredInv
  <2>5. QED
    BY <2>1, <2>2, <2>3, <2>4
<1>11. \A k \in DOMAIN deferred : k \in DOMAIN q /\ q[k] = deferred[k]
  BY <1>2
<1>12. QED
  BY <1>2, <1>7, <1>8, <1>9, <1>10, <1>11 DEF q

(* executeDeferredDeletes() leaves exactly the entries that are not        *)
(* finished.                                                               *)
LEMMA DeletesExecuted ==
    ASSUME NEW q \in Seq(Entries), Ordered(q), NEW finished \in Nat,
           NEW last \in Nat, \A k \in DOMAIN q : q[k].id <= last
    PROVE  LET n == DeletablePrefix(q, finished)
               p == SubSeq(q, n + 1, Len(q))
               deleted == {q[i].res : i \in 1..n}
           IN  /\ Ordered(p) /\ \A k \in DOMAIN p : p[k].id <= last
               /\ \A r : Waiting(p, r) <=> Waiting(q, r) /\ r \notin deleted
               /\ \A k \in DOMAIN q : q[k].id > finished =>
                     \E l \in DOMAIN p : p[l] = q[k]
               /\ \A r \in deleted : Waiting(q, r)
               /\ last <= finished => p = <<>>
<1> DEFINE n == DeletablePrefix(q, finished)
           p == SubSeq(q, n + 1, Len(q))
           deleted == {q[i].res : i \in 1..n}
<1>1. /\ n \in 0..Len(q) /\ \A i \in 1..n : q[i].id <= finished
      /\ n < Len(q) => q[n + 1].id > finished
  BY PrefixIsDeletable
<1>2. Len(q) \in Nat /\ DOMAIN q = 1..Len(q) /\ \A k \in 1..Len(q) : q[k].id \in Nat
  BY EntriesTyped
<1> HIDE DEF n
<1>3. \A i \in (n + 1)..Len(q) : q[i] \in Entries
  <2>1. \A i \in (n + 1)..Len(q) : i \in 1..Len(q)
    BY <1>1, <1>2
  <2>2. QED
    BY <2>1, ElementOfSeq
<1>4. /\ p \in Seq(Entries) /\ Len(p) = Len(q) - n
      /\ \A i \in 1..(Len(q) - n) : p[i] = q[n + i]
  <2>1. PICK m \in Int : m = n + 1
    BY <1>1, <1>2
  <2>2. PICK z \in Int : z = Len(q)
    <3>1. Len(q) \in Int
      BY <1>2
    <3>2. QED
      BY ONLY <3>1
  <2>3. \A i \in m..z : q[i] \in Entries
    BY <1>3, <2>1, <2>2
  <2>4. /\ SubSeq(q, m, z) \in Seq(Entries)
        /\ Len(SubSeq(q, m, z)) = IF m <= z THEN z - m + 1 ELSE 0
        /\ \A i \in 1..(z - m + 1) : SubSeq(q, m, z)[i] = q[m + i - 1]
    BY <2>3, SubSeqProperties
  <2>5. p = SubSeq(q, m, z)
    BY <2>1, <2>2
  <2>6. z - m + 1 = Len(q) - n /\ (IF m <= z THEN z - m + 1 ELSE 0) = Len(q) - n
    <3>1. n \in Nat /\ z \in Nat /\ n <= z
      BY <1>1, <1>2, <2>2
    <3>2. z - m + 1 = z - n /\ (IF m <= z THEN z - m + 1 ELSE 0) = z - n
      BY ONLY <2>1, <3>1
    <3>3. QED
      BY <2>2, <3>2
  <2>7. \A i \in 1..(Len(q) - n) : m + i - 1 = n + i
    BY <1>1, <1>2, <2>1
  <2> HIDE DEF p
  <2>8. QED
    BY <2>4, <2>5, <2>6, <2>7
<1>5. DOMAIN p = 1..(Len(q) - n)
  BY <1>4, LenProperties
<1> HIDE DEF p
<1>6. \A i \in 1..(Len(q) - n) : n + i \in 1..Len(q)
  BY <1>1, <1>2
<1>7. Ordered(p)
  <2>1. SUFFICES ASSUME NEW i \in 1..(Len(q) - n), NEW j \in 1..(Len(q) - n), i < j
                 PROVE  p[i].id <= p[j].id /\ p[i].res # p[j].res
    BY <1>5 DEF Ordered
  <2>2. n + i \in DOMAIN q /\ n + j \in DOMAIN q /\ n + i < n + j
    BY <1>1, <1>2, <2>1, <1>6
  <2>3. QED
    BY <1>4, <2>2 DEF Ordered
<1>8. \A k \in DOMAIN p : p[k].id <= last
  BY <1>2, <1>4, <1>5, <1>6
<1>9. ASSUME NEW k \in DOMAIN q, k \notin 1..n PROVE k - n \in DOMAIN p /\ p[k - n] = q[k]
  <2>1. k - n \in 1..(Len(q) - n) /\ n + (k - n) = k
    BY <1>1, <1>2, <1>9
  <2>2. QED
    BY <1>4, <1>5, <2>1
<1>10. ASSUME NEW r PROVE Waiting(p, r) <=> Waiting(q, r) /\ r \notin deleted
  <2>1. ASSUME Waiting(p, r) PROVE Waiting(q, r) /\ r \notin deleted
    <3>1. PICK k \in 1..(Len(q) - n) : p[k].res = r
      BY <1>5, <2>1 DEF Waiting
    <3>2. n + k \in DOMAIN q /\ q[n + k].res = r
      BY <1>2, <1>4, <1>6, <3>1
    <3>3. \A i \in 1..n : i \in DOMAIN q /\ i < n + k
      BY <1>1, <1>2, <3>1
    <3>4. \A i \in 1..n : q[i].res # r
      BY <3>2, <3>3 DEF Ordered
    <3>5. QED
      BY <3>2, <3>4 DEF Waiting
  <2>2. ASSUME Waiting(q, r), r \notin deleted PROVE Waiting(p, r)
    <3>1. PICK k \in DOMAIN q : q[k].res = r
      BY <2>2 DEF Waiting
    <3>2. k \notin 1..n
      BY <2>2, <3>1
    <3>3. QED
      BY <1>9, <3>1, <3>2 DEF Waiting
  <2>3. QED
    BY <2>1, <2>2
<1>11. ASSUME NEW k \in DOMAIN q, q[k].id > finished PROVE \E l \in DOMAIN p : p[l] = q[k]
  <2>1. k \notin 1..n
    BY <1>1, <1>2, <1>11
  <2>2. QED
    BY <1>9, <2>1
<1>12. \A r \in deleted : Waiting(q, r)
  BY <1>1, <1>2 DEF Waiting
<1>13. ASSUME last <= finished PROVE p = <<>>
  <2>1. ~(n < Len(q))
    <3>1. SUFFICES ASSUME n < Len(q) PROVE FALSE
      OBVIOUS
    <3>2. n + 1 \in DOMAIN q /\ q[n + 1].id > finished
      BY <1>1, <1>2, <3>1
    <3>3. q[n + 1].id <= last /\ q[n + 1].id \in Nat
      BY <1>2, <3>2
    <3>4. QED
      BY <1>13, <3>2, <3>3
  <2>2. Len(p) = 0
    <3>1. n = Len(q)
      <4>1. n \in 0..Len(q) /\ Len(q) \in Nat
        BY <1>1, <1>2
      <4>2. QED
        BY <2>1, <4>1
    <3>2. QED
      BY <1>2, <1>4, <3>1
  <2>3. QED
    BY <1>4, <2>2, EmptySeq
<1>14. QED
  BY <1>7, <1>8, <1>10, <1>11, <1>12, <1>13 DEF p, n

(* A retirement: the resources it lets go of are queued, and what is       *)
(* finished is deleted.                                                    *)
Retirement(ok, finished, q, deleted) ==
    /\ Ordered(q) /\ \A k \in DOMAIN q : q[k].id <= lastSubmitted
    /\ \A r \in Resources :
          Waiting(q, r) <=> resource[r] \in {"pushed", "deferred"} \/ r \in LastReferenced(ok)
    /\ \A k \in DOMAIN deferred : k \in DOMAIN q /\ q[k] = deferred[k]
    /\ \A r \in LastReferenced(ok) :
          \E k \in DOMAIN q : q[k].res = r /\ q[k].id = lastSubmitted
    /\ Ordered(deferred') /\ \A k \in DOMAIN deferred' : deferred'[k].id <= lastSubmitted
    /\ \A r : Waiting(deferred', r) <=> Waiting(q, r) /\ r \notin deleted
    /\ \A k \in DOMAIN q : q[k].id > finished =>
          \E l \in DOMAIN deferred' : deferred'[l] = q[k]
    /\ \A r \in deleted : Waiting(q, r)
    /\ resource' = [r \in Resources |->
                       IF r \in deleted THEN "deleted"
                       ELSE IF r \in LastReferenced(ok) THEN "deferred" ELSE resource[r]]

LEMMA RetirementIs ==
    ASSUME RefsTyped, TimelineTyped, LiveInv, DeferredInv, NEW ok \in SUBSET Buffers,
           NEW finished \in Nat, NEW done, NEW d \in Deferred(LastReferenced(ok)),
           RetireWith(done, finished, ok, d)
    PROVE  \E q \in Seq(Entries), deleted \in SUBSET Resources :
              Retirement(ok, finished, q, deleted)
<1>1. LastReferenced(ok) \in SUBSET Resources /\ \A r \in LastReferenced(ok) : resource[r] = "live"
  BY GoneIsLive
<1>2. PICK q \in Seq(Entries) : q = deferred \o d
  BY <1>1, DeferAppends
<1>3. /\ Ordered(q) /\ \A k \in DOMAIN q : q[k].id <= lastSubmitted
      /\ \A r \in Resources :
            Waiting(q, r) <=> resource[r] \in {"pushed", "deferred"} \/ r \in LastReferenced(ok)
      /\ \A k \in DOMAIN deferred : k \in DOMAIN q /\ q[k] = deferred[k]
      /\ \A r \in LastReferenced(ok) :
            \E k \in DOMAIN q : q[k].res = r /\ q[k].id = lastSubmitted
  BY <1>1, <1>2, DeferAppends
<1> DEFINE n == DeletablePrefix(q, finished)
           deleted == {q[i].res : i \in 1..n}
<1>4. deferred' = SubSeq(q, n + 1, Len(q))
  BY <1>2 DEF RetireWith
<1>5. resource' = [r \in Resources |->
                      IF r \in deleted THEN "deleted"
                      ELSE IF r \in LastReferenced(ok) THEN "deferred" ELSE resource[r]]
  BY <1>2 DEF RetireWith
<1>6. /\ Ordered(deferred') /\ \A k \in DOMAIN deferred' : deferred'[k].id <= lastSubmitted
      /\ \A r : Waiting(deferred', r) <=> Waiting(q, r) /\ r \notin deleted
      /\ \A k \in DOMAIN q : q[k].id > finished =>
            \E l \in DOMAIN deferred' : deferred'[l] = q[k]
      /\ \A r \in deleted : Waiting(q, r)
  <2>1. PICK last \in Nat : last = lastSubmitted
    BY DEF TimelineTyped
  <2>2. Ordered(q) /\ \A k \in DOMAIN q : q[k].id <= last
    BY <1>3, <2>1
  <2>3. LET p == SubSeq(q, n + 1, Len(q))
        IN  /\ Ordered(p) /\ \A k \in DOMAIN p : p[k].id <= last
            /\ \A r : Waiting(p, r) <=> Waiting(q, r) /\ r \notin deleted
            /\ \A k \in DOMAIN q : q[k].id > finished =>
                  \E l \in DOMAIN p : p[l] = q[k]
            /\ \A r \in deleted : Waiting(q, r)
    BY <2>2, DeletesExecuted
  <2> HIDE DEF n, deleted
  <2>4. QED
    BY <1>4, <2>1, <2>3
<1>7. deleted \in SUBSET Resources
  <2>1. n \in 0..Len(q) /\ Len(q) \in Nat
    BY PrefixIsDeletable, LenProperties
  <2>2. \A i \in 1..Len(q) : q[i].res \in Resources
    BY EntriesTyped
  <2> HIDE DEF n
  <2>3. QED
    BY <2>1, <2>2
<1> HIDE DEF deleted
<1>8. Retirement(ok, finished, q, deleted)
  BY <1>3, <1>5, <1>6 DEF Retirement
<1>9. QED
  BY <1>7, <1>8

(* The deferred deletes that shutdown() executes.                          *)
LEMMA ShutDownIs ==
    ASSUME RefsTyped, TimelineTyped, DeferredInv, NEW finished \in Nat, ShutDown(finished)
    PROVE  \E deleted :
              /\ Ordered(deferred') /\ \A k \in DOMAIN deferred' : deferred'[k].id <= lastSubmitted
              /\ \A r : Waiting(deferred', r) <=> Waiting(deferred, r) /\ r \notin deleted
              /\ \A r \in deleted : Waiting(deferred, r)
              /\ resource' = [r \in Resources |-> IF r \in deleted THEN "deleted" ELSE resource[r]]
              /\ lastSubmitted <= finished => deferred' = <<>>
<1> DEFINE n == DeletablePrefix(deferred, finished)
           deleted == {deferred[i].res : i \in 1..n}
<1>1. deferred' = SubSeq(deferred, n + 1, Len(deferred))
  BY DEF ShutDown
<1>2. resource' = [r \in Resources |-> IF r \in deleted THEN "deleted" ELSE resource[r]]
  <2>1. \A r \in Resources : (\E i \in 1..n : deferred[i].res = r) <=> r \in deleted
    OBVIOUS
  <2>2. resource' = [r \in Resources |-> IF \E i \in 1..n : deferred[i].res = r THEN "deleted"
                                         ELSE resource[r]]
    BY DEF ShutDown
  <2> HIDE DEF deleted
  <2>3. QED
    BY <2>1, <2>2
<1>3. /\ Ordered(deferred') /\ \A k \in DOMAIN deferred' : deferred'[k].id <= lastSubmitted
      /\ \A r : Waiting(deferred', r) <=> Waiting(deferred, r) /\ r \notin deleted
      /\ \A r \in deleted : Waiting(deferred, r)
      /\ lastSubmitted <= finished => deferred' = <<>>
  BY <1>1, DeletesExecuted DEF TimelineTyped, RefsTyped, DeferredInv
<1> HIDE DEF deleted
<1>4. QED
  BY <1>2, <1>3

LEMMA LiveNext ==
    ASSUME RefsTyped, TimelineTyped, LiveInv, DeferredInv, RefsStep
    PROVE  LiveInv'
<1>1. CASE UNCHANGED <<tracked, owned, resource, deferred>>
  BY <1>1 DEF LiveInv
<1>2. ASSUME NEW b \in Buffers, NEW r \in Resources, RecordTracked(b, r) PROVE LiveInv'
  <2>1. /\ r \in owned /\ owned' = owned /\ resource' = resource
        /\ \A c \in Buffers : tracked'[c] = IF c = b THEN tracked[c] \cup {r} ELSE tracked[c]
    BY <1>2 DEF RecordTracked, RefsTyped
  <2>2. QED
    BY <2>1 DEF LiveInv
<1>3. ASSUME NEW ok \in SUBSET Buffers, ResetBuffers(ok), owned' = owned PROVE LiveInv'
  <2>1. tracked' = [b \in Buffers |-> IF b \in ok THEN {} ELSE tracked[b]]
    BY <1>3 DEF ResetBuffers
  <2>2. \A r \in Resources : resource'[r] = IF r \in LastReferenced(ok) THEN "deferred" ELSE resource[r]
    BY <1>3 DEF ResetBuffers
  <2>3. \A r \in Resources :
           (resource[r] = "live" /\ r \notin LastReferenced(ok)) <=>
              (r \in owned' \/ \E b \in Buffers : r \in tracked'[b])
    BY <1>3, <2>1, StillReferenced
  <2>4. \A r \in Resources : resource'[r] = "live" <=> resource[r] = "live" /\ r \notin LastReferenced(ok)
    BY <2>2
  <2>5. QED
    BY <2>3, <2>4 DEF LiveInv
<1>4. ASSUME Retired, owned' = owned PROVE LiveInv'
  <2>1. PICK done \in Seq(Buffers), ok \in SUBSET Buffers, finished \in Nat :
           \E d \in Deferred(LastReferenced(ok)) : RetireWith(done, finished, ok, d)
    BY <1>4 DEF Retired
  <2>2. PICK d \in Deferred(LastReferenced(ok)) : RetireWith(done, finished, ok, d)
    BY <2>1
  <2>30. PICK q \in Seq(Entries), deleted \in SUBSET Resources :
          Retirement(ok, finished, q, deleted)
    BY <2>2, RetirementIs
  <2>3.
           /\ \A r \in Resources :
                 Waiting(q, r) <=> resource[r] \in {"pushed", "deferred"} \/ r \in LastReferenced(ok)
           /\ \A r \in deleted : Waiting(q, r)
           /\ resource' = [r \in Resources |->
                              IF r \in deleted THEN "deleted"
                              ELSE IF r \in LastReferenced(ok) THEN "deferred" ELSE resource[r]]
    BY <2>30 DEF Retirement
  <2>4. tracked' = [b \in Buffers |-> IF b \in ok THEN {} ELSE tracked[b]]
    BY <2>2 DEF RetireWith
  <2>5. \A r \in Resources :
           (resource[r] = "live" /\ r \notin LastReferenced(ok)) <=>
              (r \in owned' \/ \E b \in Buffers : r \in tracked'[b])
    BY <1>4, <2>4, StillReferenced
  <2>6. \A r \in Resources : resource'[r] = "live" <=> resource[r] = "live" /\ r \notin LastReferenced(ok)
    <3>1. SUFFICES ASSUME NEW r \in Resources
                   PROVE resource'[r] = "live" <=> resource[r] = "live" /\ r \notin LastReferenced(ok)
      OBVIOUS
    <3>2. r \in deleted => resource[r] \in {"pushed", "deferred"} \/ r \in LastReferenced(ok)
      BY <2>3
    <3>3. resource'[r] = IF r \in deleted THEN "deleted"
                         ELSE IF r \in LastReferenced(ok) THEN "deferred" ELSE resource[r]
      BY <2>3
    <3>4. QED
      BY <3>2, <3>3
  <2>7. QED
    BY <2>5, <2>6 DEF LiveInv
<1>5. ASSUME NEW r \in Resources, ReleaseResource(r) PROVE LiveInv'
  <2>1. /\ r \in owned /\ owned' = owned \ {r} /\ tracked' = tracked
        /\ resource' = IF \A b \in Buffers : r \notin tracked[b]
                       THEN [resource EXCEPT ![r] = "pushed"] ELSE resource
    BY <1>5 DEF ReleaseResource, recording
  <2>2. CASE \A b \in Buffers : r \notin tracked[b]
    <3>1. \A s \in Resources : resource'[s] = IF s = r THEN "pushed" ELSE resource[s]
      BY <2>1, <2>2 DEF RefsTyped
    <3>2. QED
      BY <2>1, <2>2, <3>1 DEF LiveInv
  <2>3. CASE ~(\A b \in Buffers : r \notin tracked[b])
    BY <2>1, <2>3 DEF LiveInv
  <2>4. QED
    BY <2>2, <2>3
<1>6. ASSUME NEW r \in Resources, BreakDeviceReference(r) PROVE LiveInv'
  <2>1. /\ resource[r] = "pushed" /\ owned' = owned /\ tracked' = tracked
        /\ \A s \in Resources : resource'[s] = IF s = r THEN "deferred" ELSE resource[s]
    BY <1>6 DEF BreakDeviceReference, RefsTyped
  <2>2. QED
    BY <2>1 DEF LiveInv
<1>7. ASSUME NEW finished \in Nat, ShutDown(finished) PROVE LiveInv'
  <2>1. PICK deleted :
           /\ \A r \in deleted : Waiting(deferred, r)
           /\ resource' = [r \in Resources |-> IF r \in deleted THEN "deleted" ELSE resource[r]]
    BY <1>7, ShutDownIs
  <2>2. owned' = owned /\ tracked' = tracked
    BY <1>7 DEF ShutDown
  <2>3. \A r \in Resources : r \in deleted => resource[r] \in {"pushed", "deferred"}
    BY <2>1 DEF DeferredInv
  <2>4. \A r \in Resources : resource'[r] = "live" <=> resource[r] = "live"
    BY <2>1, <2>3
  <2>5. QED
    BY <2>2, <2>4 DEF LiveInv
<1>8. QED
  BY <1>1, <1>2, <1>3, <1>4, <1>5, <1>6, <1>7 DEF RefsStep

LEMMA DeferredNext ==
    ASSUME RefsTyped, TimelineTyped, LiveInv, DeferredInv, RefsStep, TimelineTyped'
    PROVE  DeferredInv'
<1>1. CASE UNCHANGED <<tracked, owned, resource, deferred>> /\ lastSubmitted' >= lastSubmitted
  <2>1. \A i \in DOMAIN deferred : deferred[i].id \in Nat
    BY EntriesTyped DEF RefsTyped
  <2>2. lastSubmitted \in Nat /\ lastSubmitted' \in Nat
    BY DEF TimelineTyped
  <2>3. \A i \in DOMAIN deferred : deferred[i].id <= lastSubmitted'
    BY <1>1, <2>1, <2>2 DEF DeferredInv
  <2>4. Ordered(deferred') /\ \A r \in Resources : Waiting(deferred', r) <=> Waiting(deferred, r)
    BY <1>1 DEF DeferredInv
  <2>5. QED
    BY <1>1, <2>3, <2>4 DEF DeferredInv
<1>2. ASSUME NEW b \in Buffers, NEW r \in Resources, RecordTracked(b, r) PROVE DeferredInv'
  BY <1>2 DEF RecordTracked, DeferredInv
<1>3. ASSUME NEW ok \in SUBSET Buffers, ResetBuffers(ok), UNCHANGED <<owned, lastSubmitted>>
      PROVE  DeferredInv'
  <2>1. PICK d \in Deferred(LastReferenced(ok)) : deferred' = deferred \o d
    BY <1>3 DEF ResetBuffers
  <2>2. LastReferenced(ok) \in SUBSET Resources /\ \A r \in LastReferenced(ok) : resource[r] = "live"
    BY GoneIsLive
  <2>3. /\ Ordered(deferred')
        /\ \A k \in DOMAIN deferred' : deferred'[k].id <= lastSubmitted
        /\ \A r \in Resources :
              Waiting(deferred', r) <=> resource[r] \in {"pushed", "deferred"} \/ r \in LastReferenced(ok)
    BY <2>1, <2>2, DeferAppends
  <2>4. \A r \in Resources : resource'[r] = IF r \in LastReferenced(ok) THEN "deferred" ELSE resource[r]
    BY <1>3 DEF ResetBuffers
  <2>5. QED
    BY <1>3, <2>3, <2>4 DEF DeferredInv
<1>4. ASSUME Retired, UNCHANGED <<owned, lastSubmitted>> PROVE DeferredInv'
  <2>1. PICK done \in Seq(Buffers), ok \in SUBSET Buffers, finished \in Nat :
           \E d \in Deferred(LastReferenced(ok)) : RetireWith(done, finished, ok, d)
    BY <1>4 DEF Retired
  <2>2. PICK d \in Deferred(LastReferenced(ok)) : RetireWith(done, finished, ok, d)
    BY <2>1
  <2>30. PICK q \in Seq(Entries), deleted \in SUBSET Resources :
          Retirement(ok, finished, q, deleted)
    BY <2>2, RetirementIs
  <2>3.
           /\ \A r \in Resources :
                 Waiting(q, r) <=> resource[r] \in {"pushed", "deferred"} \/ r \in LastReferenced(ok)
           /\ Ordered(deferred') /\ \A k \in DOMAIN deferred' : deferred'[k].id <= lastSubmitted
           /\ \A r : Waiting(deferred', r) <=> Waiting(q, r) /\ r \notin deleted
           /\ \A r \in deleted : Waiting(q, r)
           /\ resource' = [r \in Resources |->
                              IF r \in deleted THEN "deleted"
                              ELSE IF r \in LastReferenced(ok) THEN "deferred" ELSE resource[r]]
    BY <2>30 DEF Retirement
  <2>4. \A r \in Resources : resource'[r] \in {"pushed", "deferred"} <=> Waiting(deferred', r)
    <3>1. SUFFICES ASSUME NEW r \in Resources
                   PROVE resource'[r] \in {"pushed", "deferred"} <=> Waiting(deferred', r)
      OBVIOUS
    <3>2. resource'[r] = IF r \in deleted THEN "deleted"
                         ELSE IF r \in LastReferenced(ok) THEN "deferred" ELSE resource[r]
      BY <2>3
    <3>3. Waiting(deferred', r) <=>
             (resource[r] \in {"pushed", "deferred"} \/ r \in LastReferenced(ok)) /\ r \notin deleted
      BY <2>3
    <3>4. QED
      BY <3>2, <3>3
  <2>5. QED
    BY <1>4, <2>3, <2>4 DEF DeferredInv
<1>5. ASSUME NEW r \in Resources, ReleaseResource(r) PROVE DeferredInv'
  <2>1. /\ r \in owned /\ lastSubmitted' = lastSubmitted
        /\ \E d \in Deferred({r}) :
              deferred' = IF \A b \in Buffers : r \notin tracked[b] THEN deferred \o d ELSE deferred
        /\ resource' = IF \A b \in Buffers : r \notin tracked[b]
                       THEN [resource EXCEPT ![r] = "pushed"] ELSE resource
    BY <1>5 DEF ReleaseResource
  <2>2. PICK d \in Deferred({r}) :
           deferred' = IF \A b \in Buffers : r \notin tracked[b] THEN deferred \o d ELSE deferred
    BY <2>1
  <2>3. CASE \A b \in Buffers : r \notin tracked[b]
    <3>1. \A s \in Resources : resource'[s] = IF s = r THEN "pushed" ELSE resource[s]
      BY <2>1, <2>3 DEF RefsTyped
    <3>2. {r} \in SUBSET Resources /\ \A s \in {r} : resource[s] = "live"
      BY <2>1 DEF LiveInv
    <3>3. deferred' = deferred \o d
      BY <2>2, <2>3
    <3>4. /\ Ordered(deferred')
          /\ \A k \in DOMAIN deferred' : deferred'[k].id <= lastSubmitted
          /\ \A s \in Resources :
                Waiting(deferred', s) <=> resource[s] \in {"pushed", "deferred"} \/ s \in {r}
      <4>1. PICK rs \in SUBSET Resources : rs = {r}
        BY <3>2
      <4>2. d \in Deferred(rs) /\ \A s \in rs : resource[s] = "live"
        BY <2>2, <3>2, <4>1
      <4>3. QED
        BY <3>3, <4>1, <4>2, DeferAppends
    <3>5. QED
      BY <2>1, <3>1, <3>4 DEF DeferredInv
  <2>4. CASE ~(\A b \in Buffers : r \notin tracked[b])
    BY <2>1, <2>2, <2>4 DEF DeferredInv
  <2>5. QED
    BY <2>3, <2>4
<1>6. ASSUME NEW r \in Resources, BreakDeviceReference(r) PROVE DeferredInv'
  <2>1. /\ resource[r] = "pushed" /\ UNCHANGED <<deferred, lastSubmitted>>
        /\ \A s \in Resources : resource'[s] = IF s = r THEN "deferred" ELSE resource[s]
    BY <1>6 DEF BreakDeviceReference, RefsTyped
  <2>2. QED
    BY <2>1 DEF DeferredInv
<1>7. ASSUME NEW finished \in Nat, ShutDown(finished), lastSubmitted' >= lastSubmitted PROVE DeferredInv'
  <2>1. PICK deleted :
           /\ Ordered(deferred') /\ \A k \in DOMAIN deferred' : deferred'[k].id <= lastSubmitted
           /\ \A r : Waiting(deferred', r) <=> Waiting(deferred, r) /\ r \notin deleted
           /\ resource' = [r \in Resources |-> IF r \in deleted THEN "deleted" ELSE resource[r]]
    BY <1>7, ShutDownIs
  <2>2. lastSubmitted \in Nat /\ lastSubmitted' \in Nat /\ \A k \in DOMAIN deferred' : deferred'[k].id \in Nat
    <3>1. deferred' \in Seq(Entries)
      BY <1>7, ShutTyped
    <3>2. QED
      BY <3>1, EntriesTyped DEF TimelineTyped
  <2>3. \A k \in DOMAIN deferred' : deferred'[k].id <= lastSubmitted'
    BY <1>7, <2>1, <2>2
  <2>4. \A r \in Resources : resource'[r] \in {"pushed", "deferred"} <=> Waiting(deferred', r)
    BY <2>1 DEF DeferredInv
  <2>5. QED
    BY <2>1, <2>3, <2>4 DEF DeferredInv
<1>8. QED
  BY <1>1, <1>2, <1>3, <1>4, <1>5, <1>6, <1>7 DEF RefsStep

-----------------------------------------------------------------------------
(* What buffers have recorded.                                             *)

LEMMA RecordedKept ==
    ASSUME RecordedInv, UNCHANGED <<tracked, recorded, owned>>,
           encoding' \cup unsubmitted' \cup sending' \subseteq encoding \cup unsubmitted \cup sending,
           encoding \cup unsubmitted \cup sending \cup Range(inFlight)
              \subseteq encoding' \cup unsubmitted' \cup sending' \cup Range(inFlight')
    PROVE  RecordedInv'
BY DEF RecordedInv

LEMMA RetireRecorded ==
    ASSUME RefsTyped, NEW done \in Seq(Buffers), NEW finished, NEW newPool,
           Retire(done, finished, newPool)
    PROVE  \A b \in Buffers :
              /\ b \in Range(done) => recorded'[b] = {}
              /\ b \notin Range(done) => recorded'[b] = recorded[b] /\ tracked'[b] = tracked[b]
<1>1. PICK ok \in SUBSET Range(done) : \E d \in Deferred(LastReferenced(ok)) :
         RetireWith(done, finished, ok, d)
  BY RetireSplit
<1>2. tracked' = [b \in Buffers |-> IF b \in ok THEN {} ELSE tracked[b]]
  BY <1>1 DEF RetireWith
<1>3. recorded' = [b \in Buffers |-> IF b \in Range(done) THEN {} ELSE recorded[b]]
  BY DEF Retire
<1>4. QED
  BY <1>1, <1>2, <1>3

(* A buffer that was retired may be recorded into again.                   *)
LEMMA RecordedAfterRetiring ==
    ASSUME ListsTyped, RefsTyped, OwnerInv, RecordedInv, NEW done \in Seq(Buffers), NEW finished,
           NEW newPool, Retire(done, finished, newPool), UNCHANGED <<owned, unsubmitted, sending>>,
           encoding \subseteq encoding',
           \A b \in encoding' \ encoding : b \in Buffers /\ recorded'[b] = {}
    PROVE  RecordedInv'
<1>1. Range(inFlight') = Range(inFlight) \ Range(done)
  BY RetireLists
<1>2. \A b \in Buffers :
         /\ b \in Range(done) => recorded'[b] = {}
         /\ b \notin Range(done) => recorded'[b] = recorded[b] /\ tracked'[b] = tracked[b]
  BY RetireRecorded
<1>3. ASSUME NEW b \in encoding' \cup unsubmitted' \cup sending', NEW r \in recorded'[b]
      PROVE  r \in owned' \/ r \in tracked'[b]
  <2>1. b \in encoding \cup unsubmitted \cup sending /\ b \in Buffers
    BY <1>3 DEF ListsTyped
  <2>2. recorded'[b] = recorded[b] /\ tracked'[b] = tracked[b]
    BY <1>2, <1>3, <2>1
  <2>3. QED
    BY <1>3, <2>1, <2>2 DEF RecordedInv
<1>4. ASSUME NEW b \in Buffers \ (encoding' \cup unsubmitted' \cup sending' \cup Range(inFlight'))
      PROVE  recorded'[b] = {}
  <2>1. CASE b \in Range(done)
    BY <1>2, <2>1
  <2>2. CASE b \notin Range(done)
    <3>1. b \in Buffers \ (encoding \cup unsubmitted \cup sending \cup Range(inFlight))
      BY <1>1, <2>2
    <3>2. recorded[b] = {} /\ recorded'[b] = recorded[b]
      BY <1>2, <2>2, <3>1 DEF RecordedInv
    <3>3. QED
      BY <3>2
  <2>3. QED
    BY <2>1, <2>2
<1>5. QED
  BY <1>3, <1>4 DEF RecordedInv

LEMMA RecordedNext == ListsTyped /\ RefsTyped /\ TimelineTyped /\ OwnerInv /\ SendInv /\
   RecordedInv /\ [Next]_vars => RecordedInv'
<1> SUFFICES ASSUME ListsTyped, RefsTyped, TimelineTyped, OwnerInv, SendInv,
   RecordedInv, [Next]_vars PROVE RecordedInv'
  OBVIOUS
<1> USE DEF lists, recording, submitter, timeline, device
<1>1. ASSUME NEW b \in Buffers, NEW r \in Resources, RecordTracked(b, r) PROVE
   RecordedInv'
  <2>1. /\ b \in encoding /\ UNCHANGED <<encoding, unsubmitted, sending, inFlight, owned>>
        /\ tracked' = [tracked EXCEPT ![b] = @ \cup {r}]
        /\ recorded' = [recorded EXCEPT ![b] = @ \cup {r}]
    BY <1>1 DEF RecordTracked
  <2>2. \A c \in Buffers :
           /\ c = b => tracked'[c] = tracked[c] \cup {r} /\ recorded'[c] = recorded[c] \cup {r}
           /\ c # b => tracked'[c] = tracked[c] /\ recorded'[c] = recorded[c]
    BY <2>1 DEF RefsTyped
  <2>3. encoding \cup unsubmitted \cup sending \subseteq Buffers
    BY DEF ListsTyped
  <2>4. QED
    BY <2>1, <2>2, <2>3 DEF RecordedInv
<1>2. ASSUME NEW b \in Buffers, NEW r \in Resources, RecordRaw(b, r) PROVE RecordedInv'
  <2>1. /\ b \in encoding /\ r \in owned /\ UNCHANGED <<encoding, unsubmitted, sending, inFlight, owned, tracked>>
        /\ recorded' = [recorded EXCEPT ![b] = @ \cup {r}]
    BY <1>2 DEF RecordRaw
  <2>2. \A c \in Buffers : recorded'[c] = IF c = b THEN recorded[c] \cup {r} ELSE recorded[c]
    BY <2>1 DEF RefsTyped
  <2>3. encoding \cup unsubmitted \cup sending \subseteq Buffers
    BY DEF ListsTyped
  <2>4. QED
    BY <2>1, <2>2, <2>3 DEF RecordedInv
<1>3. ASSUME NEW b \in Buffers, FinishEncoder(b) PROVE RecordedInv'
  BY <1>3, RecordedKept DEF FinishEncoder
<1>4. ASSUME NEW b \in Buffers, ReleaseBuffer(b) PROVE RecordedInv'
  <2>1. CASE handles[b] = 1 /\ b \notin Range(pool) \cup Range(inFlight) \cup encoding
    <3>1. /\ UNCHANGED <<encoding, sending, inFlight, owned>>
          /\ unsubmitted' = unsubmitted \ {b} /\ recorded' = [recorded EXCEPT ![b] = {}]
      BY <1>4, <2>1 DEF ReleaseBuffer
    <3>2. tracked' = [c \in Buffers |-> IF c \in {b} THEN {} ELSE tracked[c]]
      BY <1>4, <2>1 DEF ReleaseBuffer, ResetBuffers
    <3>3. \A c \in Buffers :
             /\ c = b => recorded'[c] = {}
             /\ c # b => tracked'[c] = tracked[c] /\ recorded'[c] = recorded[c]
      BY <3>1, <3>2 DEF RefsTyped
    <3>4. encoding \cup unsubmitted \cup sending \subseteq Buffers
      BY DEF ListsTyped
    <3>5. QED
      BY <3>1, <3>3, <3>4 DEF RecordedInv
  <2>2. CASE ~(handles[b] = 1 /\ b \notin Range(pool) \cup Range(inFlight) \cup encoding)
    BY <1>4, <2>2, RecordedKept DEF ReleaseBuffer
  <2>3. QED
    BY <2>1, <2>2
<1>5. ASSUME NEW r \in Resources, ReleaseResource(r) PROVE RecordedInv'
  <2>1. /\ owned' = owned \ {r}
        /\ UNCHANGED <<encoding, unsubmitted, sending, inFlight, tracked, recorded>>
        /\ \A b \in encoding \cup unsubmitted \cup sending : r \notin recorded[b] \ tracked[b]
    BY <1>5 DEF ReleaseResource, Raw
  <2>2. QED
    BY <2>1 DEF RecordedInv
<1>6. ASSUME ReleaseDevice PROVE RecordedInv'
  BY <1>6, RecordedKept DEF ReleaseDevice
<1>7. ASSUME NEW r \in Resources, BreakDeviceReference(r) PROVE RecordedInv'
  BY <1>7, RecordedKept DEF BreakDeviceReference
<1>8. ASSUME NEW b \in Buffers, CreateEncoder(b), backend = "CUDA" => pool # <<>> PROVE
   RecordedInv'
  <2>1. /\ UNCHANGED <<inFlight, unsubmitted, sending, tracked, recorded, owned>>
        /\ encoding' = encoding \cup {b}
        /\ IF pool = <<>> THEN ~Alive(b) ELSE b = Head(pool)
    BY <1>8 DEF CreateEncoder
  <2>2. CASE pool = <<>>
    <3>1. b \notin encoding /\ b \notin Range(inFlight) /\ handles[b] = 0
      BY <2>1, <2>2 DEF Alive, ListsTyped
    <3>2. b \notin encoding \cup unsubmitted \cup sending \cup Range(inFlight)
      BY <3>1 DEF OwnerInv
    <3>3. recorded[b] = {}
      BY <3>2 DEF RecordedInv
    <3>4. QED
      BY <2>1, <3>3 DEF RecordedInv
  <2>3. CASE pool # <<>>
    <3>1. b \in Range(pool)
      BY <2>1, <2>3, DistinctTail DEF OwnerInv, ListsTyped
    <3>2. b \notin encoding \cup unsubmitted \cup sending \cup Range(inFlight)
      BY <1>8, <3>1 DEF OwnerInv, SendInv
    <3>3. recorded[b] = {}
      BY <3>2 DEF RecordedInv
    <3>4. QED
      BY <2>1, <3>3 DEF RecordedInv
  <2>4. QED
    BY <2>2, <2>3
<1>9. ASSUME NEW b \in Buffers, DropEncoder(b) PROVE RecordedInv'
  <2>1. PICK ok \in Resets({b}) : ResetBuffers(ok)
    BY <1>9 DEF DropEncoder
  <2>2. ok \subseteq {b}
    BY <2>1 DEF Resets
  <2>3. /\ UNCHANGED <<unsubmitted, sending, inFlight, owned>>
        /\ encoding' = encoding \ {b} /\ recorded' = [recorded EXCEPT ![b] = {}]
    BY <1>9 DEF DropEncoder
  <2>4. tracked' = [c \in Buffers |-> IF c \in ok THEN {} ELSE tracked[c]]
    BY <2>1 DEF ResetBuffers
  <2>5. \A c \in Buffers :
           /\ c = b => recorded'[c] = {}
           /\ c # b => tracked'[c] = tracked[c] /\ recorded'[c] = recorded[c]
    BY <2>2, <2>3, <2>4 DEF RefsTyped
  <2>6. encoding \cup unsubmitted \cup sending \subseteq Buffers
    BY DEF ListsTyped
  <2>7. QED
    BY <2>3, <2>5, <2>6 DEF RecordedInv
<1>10. ASSUME NEW bs \in SUBSET Buffers, backend # "CUDA", BeginSubmit(bs) PROVE
   RecordedInv'
  <2>1. PICK s \in SetToSeqs(bs) : inFlight' = inFlight \o s
    BY <1>10 DEF BeginSubmit
  <2>2. /\ UNCHANGED <<encoding, tracked, recorded, owned>> /\ bs \subseteq unsubmitted
        /\ unsubmitted' = unsubmitted \ bs /\ sending' = bs /\ pc = "idle"
    BY <1>10 DEF BeginSubmit
  <2>3. IsFiniteSet(bs)
    BY FS_Subset, CommandQueueAssumption DEF CommandQueueAssumption
  <2>4. s \in Seq(Buffers) /\ Range(s) = bs
    BY <2>1, <2>3, OrdersOf, SeqMonotonic
  <2>5. Range(inFlight') = Range(inFlight) \cup bs
    BY <2>1, <2>4, Concatenation DEF ListsTyped
  <2>6. sending = {}
    BY <2>2 DEF SendInv
  <2>7. QED
    BY <2>2, <2>5, <2>6, RecordedKept
<1>11. ASSUME backend = "Vulkan", QueueSubmit PROVE RecordedInv'
  <2>1. UNCHANGED <<encoding, unsubmitted, inFlight, tracked, recorded, owned>> /\ sending' = {}
    BY <1>11 DEF QueueSubmit
  <2>2. sending \subseteq Range(inFlight)
    BY <1>11 DEF SendInv
  <2>3. QED
    BY <2>1, <2>2, RecordedKept
<1>12. ASSUME backend = "Vulkan", VulkanWaitOnHost PROVE RecordedInv'
  BY <1>12, RecordedKept DEF VulkanWaitOnHost
<1>13. ASSUME backend = "Vulkan", VulkanRetireCommandBuffers PROVE RecordedInv'
  <2>1. PICK done \in Seq(Buffers) : Retire(done, semaphore, pool \o done)
    BY <1>13, VulkanRetiring
  <2>2. UNCHANGED <<owned, unsubmitted, sending, encoding>>
    BY <1>13 DEF VulkanRetireCommandBuffers
  <2>3. QED
    BY <2>1, <2>2, RecordedAfterRetiring
<1>14. ASSUME backend = "Vulkan", VulkanGpuFinish PROVE RecordedInv'
  BY <1>14, RecordedKept DEF VulkanGpuFinish
<1>15. ASSUME backend = "Vulkan", VulkanDestroyDevice PROVE RecordedInv'
  <2>1. UNCHANGED <<encoding, unsubmitted, sending, tracked, recorded, owned>> /\ inFlight' = inFlight
    BY <1>15 DEF VulkanDestroyDevice, ShutDown, DeviceReferenced
  <2>2. QED
    BY <2>1, RecordedKept
<1>16. ASSUME backend = "D3D12", FailToWaitForFence PROVE RecordedInv'
  BY <1>16, RecordedKept DEF FailToWaitForFence
<1>17. ASSUME backend = "D3D12", Execute PROVE RecordedInv'
  <2>1. UNCHANGED <<encoding, unsubmitted, inFlight, tracked, recorded, owned>> /\ sending' = {}
    BY <1>17 DEF Execute
  <2>2. sending \subseteq Range(inFlight)
    BY <1>17 DEF SendInv
  <2>3. QED
    BY <2>1, <2>2, RecordedKept
<1>18. ASSUME backend = "D3D12", BeginWait PROVE RecordedInv'
  BY <1>18, RecordedKept DEF BeginWait, Work
<1>19. ASSUME backend = "D3D12", EndWait PROVE RecordedInv'
  BY <1>19, RecordedKept DEF EndWait
<1>20. ASSUME backend = "D3D12", D3D12RetireCommandBuffers PROVE RecordedInv'
  <2>1. PICK done \in Seq(Buffers) : Retire(done, semaphore, pool \o done)
    BY <1>20, D3D12Retiring
  <2>2. UNCHANGED <<owned, unsubmitted, sending, encoding>>
    BY <1>20 DEF D3D12RetireCommandBuffers
  <2>3. QED
    BY <2>1, <2>2, RecordedAfterRetiring
<1>21. ASSUME backend = "D3D12", D3D12GpuFinish PROVE RecordedInv'
  BY <1>21, RecordedKept DEF D3D12GpuFinish
<1>22. ASSUME backend = "D3D12", D3D12DestroyDevice PROVE RecordedInv'
  <2>1. UNCHANGED <<encoding, unsubmitted, sending, tracked, recorded, owned>> /\ inFlight' = inFlight
    BY <1>22 DEF D3D12DestroyDevice, ShutDown, DeviceReferenced
  <2>2. QED
    BY <2>1, RecordedKept
<1>23. ASSUME backend = "Metal", Commit PROVE RecordedInv'
  <2>1. UNCHANGED <<encoding, unsubmitted, inFlight, tracked, recorded, owned>> /\ sending' = {}
    BY <1>23 DEF Commit
  <2>2. sending \subseteq Range(inFlight)
    BY <1>23 DEF SendInv
  <2>3. QED
    BY <2>1, <2>2, RecordedKept
<1>24. ASSUME backend = "Metal", MetalWaitOnHost PROVE RecordedInv'
  BY <1>24, RecordedKept DEF MetalWaitOnHost
<1>25. ASSUME backend = "Metal", MetalRetireCommandBuffers PROVE RecordedInv'
  <2>1. PICK done \in Seq(Buffers) : Retire(done, semaphore, pool)
    BY <1>25, MetalRetiring
  <2>2. UNCHANGED <<owned, unsubmitted, sending, encoding>>
    BY <1>25 DEF MetalRetireCommandBuffers
  <2>3. QED
    BY <2>1, <2>2, RecordedAfterRetiring
<1>26. ASSUME backend = "Metal", GpuSignal PROVE RecordedInv'
  BY <1>26, RecordedKept DEF GpuSignal
<1>27. ASSUME backend = "Metal", GpuComplete PROVE RecordedInv'
  BY <1>27, RecordedKept DEF GpuComplete
<1>28. ASSUME backend = "Metal", MetalDestroyDevice PROVE RecordedInv'
  <2>1. UNCHANGED <<encoding, unsubmitted, sending, tracked, recorded, owned>> /\ inFlight' = inFlight
    BY <1>28 DEF MetalDestroyDevice, ShutDown, DeviceReferenced
  <2>2. QED
    BY <2>1, RecordedKept
<1>29. ASSUME NEW b \in Buffers, backend = "CUDA", CreateEncoderFromEmptyPool(b) PROVE
   RecordedInv'
  <2>1. PICK done \in Seq(Buffers), newPool \in Seq(Buffers) :
           /\ Retire(done, FinishedNow, newPool)
           /\ \/ done = <<>> /\ newPool = <<>> /\ ~Alive(b)
              \/ done # <<>> /\ newPool = Tail(done) /\ b = Head(done)
    BY <1>29, FromEmptyPool
  <2>2. UNCHANGED <<owned, unsubmitted, sending>> /\ encoding' = encoding \cup {b}
    BY <1>29 DEF CreateEncoderFromEmptyPool
  <2>3. recorded'[b] = {}
    <3>1. CASE ~Alive(b)
      <4>1. b \notin encoding /\ b \notin Range(inFlight) /\ handles[b] = 0
        BY <3>1 DEF Alive, ListsTyped
      <4>2. b \notin encoding \cup unsubmitted \cup sending \cup Range(inFlight)
        BY <4>1 DEF OwnerInv
      <4>3. recorded[b] = {}
        BY <4>2 DEF RecordedInv
      <4>4. QED
        BY <2>1, <4>3, RetireRecorded
    <3>2. CASE done # <<>> /\ b = Head(done)
      <4>1. b \in Range(done)
        <5>1. Len(done) \in Nat /\ Len(done) # 0 /\ DOMAIN done = 1..Len(done) /\ Head(done) = done[1]
          BY <3>2, EmptySeq, LenProperties
        <5>2. QED
          BY <3>2, <5>1 DEF Range
      <4>2. QED
        BY <2>1, <4>1, RetireRecorded
    <3>3. QED
      BY <2>1, <3>1, <3>2
  <2>4. QED
    BY <2>1, <2>2, <2>3, RecordedAfterRetiring
<1>30. ASSUME NEW bs \in SUBSET Buffers, NEW s \in Streams \cup {Default}, backend =
   "CUDA", BeginSubmitTo(bs, s) PROVE RecordedInv'
  <2>1. /\ UNCHANGED <<encoding, inFlight, tracked, recorded, owned>> /\ bs \subseteq unsubmitted
        /\ unsubmitted' = unsubmitted \ bs /\ sending' = bs /\ pc = "idle"
    BY <1>30 DEF BeginSubmitTo
  <2>2. sending = {}
    BY <2>1 DEF SendInv
  <2>3. QED
    BY <2>1, <2>2, RecordedKept
<1>31. ASSUME NEW b \in Buffers, backend = "CUDA", ExecuteBuffer(b) PROVE RecordedInv'
  <2>1. /\ UNCHANGED <<encoding, unsubmitted, tracked, recorded, owned>> /\ b \in sending
        /\ sending' = sending \ {b} /\ inFlight' = Append(inFlight, b)
    BY <1>31 DEF ExecuteBuffer
  <2>2. b \notin Range(inFlight)
    BY <1>31, <2>1 DEF SendInv
  <2>3. Range(inFlight') = Range(inFlight) \cup {b}
    BY <2>1, <2>2, DistinctAppend DEF OwnerInv, ListsTyped
  <2>4. QED
    BY <2>1, <2>3, RecordedKept
<1>32. ASSUME backend = "CUDA", EndSubmit PROVE RecordedInv'
  BY <1>32, RecordedKept DEF EndSubmit
<1>33. ASSUME backend = "CUDA", CUDARetireCommandBuffers PROVE RecordedInv'
  <2>1. Finished(FinishedNow) \in Seq(Buffers)
    BY FinishedAre
  <2>2. Retire(Finished(FinishedNow), FinishedNow, pool \o Finished(FinishedNow))
    BY <1>33 DEF CUDARetireCommandBuffers
  <2>3. UNCHANGED <<owned, unsubmitted, sending, encoding>>
    BY <1>33 DEF CUDARetireCommandBuffers
  <2>4. QED
    BY <2>1, <2>2, <2>3, RecordedAfterRetiring
<1>34. ASSUME backend = "CUDA", CUDAWaitOnHost PROVE RecordedInv'
  <2>1. Retire(inFlight, lastSubmitted, pool \o inFlight) /\ inFlight \in Seq(Buffers)
    BY <1>34 DEF CUDAWaitOnHost, ListsTyped
  <2>2. UNCHANGED <<owned, unsubmitted, sending, encoding>>
    BY <1>34 DEF CUDAWaitOnHost
  <2>3. QED
    BY <2>1, <2>2, RecordedAfterRetiring
<1>35. ASSUME NEW i \in DOMAIN gpu, backend = "CUDA", CUDAGpuFinish(i) PROVE
   RecordedInv'
  BY <1>35, RecordedKept DEF CUDAGpuFinish
<1>36. ASSUME backend = "CUDA", CUDADestroyDevice PROVE RecordedInv'
  <2>1. UNCHANGED <<encoding, unsubmitted, sending, tracked, recorded, owned>> /\ inFlight' = inFlight
    BY <1>36 DEF CUDADestroyDevice, ShutDown, DeviceReferenced
  <2>2. QED
    BY <2>1, RecordedKept
<1>37. CASE UNCHANGED vars
  BY <1>37, RecordedKept DEF vars
<1>38. QED
  BY <1>1, <1>2, <1>3, <1>4, <1>5, <1>6, <1>7, <1>8, <1>9, <1>10, <1>11, <1>12, <1>13,
     <1>14, <1>15, <1>16, <1>17, <1>18, <1>19, <1>20, <1>21, <1>22, <1>23, <1>24, <1>25,
     <1>26, <1>27, <1>28, <1>29, <1>30, <1>31, <1>32, <1>33, <1>34, <1>35, <1>36, <1>37,
     CommandQueueAssumption DEF Next, ClientStep, SubmitterStep, GpuStep, DestroyDevice,
     VulkanClientStep, VulkanSubmitterStep, D3D12ClientStep, D3D12SubmitterStep,
     MetalClientStep, MetalSubmitterStep, MetalGpuStep, CUDAClientStep,
     CUDASubmitterStep, CUDAGpuStep

-----------------------------------------------------------------------------
(* What the GPU has to do.                                                 *)

(* Work that was on the GPU before the step, and work the step adds.       *)
Earlier(w) ==
    \E j \in DOMAIN gpu :
       w.id = gpu[j].id /\ w.buffers = gpu[j].buffers /\ w.uses \subseteq gpu[j].uses

Sent(w) ==
    /\ w.id = lastSubmitted' /\ w.buffers \subseteq sending
    /\ w.uses = UNION {recorded[b] : b \in w.buffers}
    /\ sending' # sending \/ w.buffers = {}
    /\ UNCHANGED <<tracked, owned, resource, deferred>>

GpuWork == \A i \in DOMAIN gpu' : Earlier(gpu'[i]) \/ Sent(gpu'[i])

LEMMA WorkIsSent ==
    ASSUME NEW bs, bs \subseteq sending, NEW b, NEW s,
           sending' # sending \/ bs = {}, UNCHANGED <<tracked, owned, resource, deferred>>
    PROVE  Sent(Work(lastSubmitted', bs, b, s))
BY DEF Sent, Work

LEMMA OneMoreSent ==
    ASSUME TimelineTyped, NEW w \in Submission, gpu' = Append(gpu, w), Sent(w)
    PROVE  GpuWork
<1>1. /\ Len(gpu) \in Nat
      /\ DOMAIN gpu = 1..Len(gpu) /\ DOMAIN gpu' = 1..(Len(gpu) + 1)
      /\ \A i \in 1..Len(gpu) : gpu'[i] = gpu[i]
      /\ gpu'[Len(gpu) + 1] = w
  BY GpuGrows
<1>2. \A i \in DOMAIN gpu' : (i \in DOMAIN gpu /\ gpu'[i] = gpu[i]) \/ gpu'[i] = w
  BY <1>1
<1>3. QED
  BY <1>2 DEF GpuWork, Earlier

LEMMA GpuKept ==
    ASSUME gpu' = gpu
    PROVE  GpuWork
BY DEF GpuWork, Earlier

LEMMA OneLess ==
    ASSUME TimelineTyped, gpu # <<>>, gpu' = Tail(gpu)
    PROVE  GpuWork
<1>1. /\ Len(gpu) \in Nat
      /\ DOMAIN gpu = 1..Len(gpu) /\ DOMAIN gpu' = 1..(Len(gpu) - 1)
      /\ \A i \in 1..(Len(gpu) - 1) : gpu'[i] = gpu[i + 1]
  BY GpuShrinks
<1>2. \A i \in DOMAIN gpu' : i + 1 \in DOMAIN gpu /\ gpu'[i] = gpu[i + 1]
  BY <1>1
<1>3. QED
  BY <1>2 DEF GpuWork, Earlier

LEMMA GpuSteps == ListsTyped /\ RefsTyped /\ TimelineTyped /\ [Next]_vars => GpuWork
<1> SUFFICES ASSUME ListsTyped, RefsTyped, TimelineTyped, [Next]_vars PROVE GpuWork
  OBVIOUS
<1> USE DEF lists, recording, submitter, timeline, device
<1>1. ASSUME NEW b \in Buffers, NEW r \in Resources, RecordTracked(b, r) PROVE GpuWork
  BY <1>1, GpuKept DEF RecordTracked
<1>2. ASSUME NEW b \in Buffers, NEW r \in Resources, RecordRaw(b, r) PROVE GpuWork
  BY <1>2, GpuKept DEF RecordRaw
<1>3. ASSUME NEW b \in Buffers, FinishEncoder(b) PROVE GpuWork
  BY <1>3, GpuKept DEF FinishEncoder
<1>4. ASSUME NEW b \in Buffers, ReleaseBuffer(b) PROVE GpuWork
  BY <1>4, GpuKept DEF ReleaseBuffer
<1>5. ASSUME NEW r \in Resources, ReleaseResource(r) PROVE GpuWork
  BY <1>5, GpuKept DEF ReleaseResource
<1>6. ASSUME ReleaseDevice PROVE GpuWork
  BY <1>6, GpuKept DEF ReleaseDevice
<1>7. ASSUME NEW r \in Resources, BreakDeviceReference(r) PROVE GpuWork
  BY <1>7, GpuKept DEF BreakDeviceReference
<1>8. ASSUME NEW b \in Buffers, CreateEncoder(b), backend = "CUDA" => pool # <<>> PROVE
   GpuWork
  BY <1>8, GpuKept DEF CreateEncoder, PoolAfterTake
<1>9. ASSUME NEW b \in Buffers, DropEncoder(b) PROVE GpuWork
  BY <1>9, GpuKept DEF DropEncoder
<1>10. ASSUME NEW bs \in SUBSET Buffers, backend # "CUDA", BeginSubmit(bs) PROVE GpuWork
  BY <1>10, GpuKept DEF BeginSubmit
<1>11. ASSUME backend = "Vulkan", QueueSubmit PROVE GpuWork
  <2>1. UNCHANGED <<lastSubmitted, tracked, owned, resource, deferred>> /\ sending' = {}
    BY <1>11 DEF QueueSubmit
  <2>2. CASE gpu' = Append(gpu, Work(lastSubmitted, sending, TRUE, Default))
    <3>1. Work(lastSubmitted, sending, TRUE, Default) \in Submission
      BY WorkTyped DEF TimelineTyped, ListsTyped
    <3>2. Sent(Work(lastSubmitted, sending, TRUE, Default))
      BY <2>1, WorkIsSent
    <3>3. QED
      BY <2>2, <3>1, <3>2, OneMoreSent
  <2>3. CASE gpu' = gpu
    BY <2>3, GpuKept
  <2>4. QED
    BY <1>11, <2>2, <2>3 DEF QueueSubmit
<1>12. ASSUME backend = "Vulkan", VulkanWaitOnHost PROVE GpuWork
  BY <1>12, GpuKept DEF VulkanWaitOnHost
<1>13. ASSUME backend = "Vulkan", VulkanRetireCommandBuffers PROVE GpuWork
  BY <1>13, GpuKept DEF VulkanRetireCommandBuffers
<1>14. ASSUME backend = "Vulkan", VulkanGpuFinish PROVE GpuWork
  BY <1>14, OneLess DEF VulkanGpuFinish
<1>15. ASSUME backend = "Vulkan", VulkanDestroyDevice PROVE GpuWork
  BY <1>15 DEF VulkanDestroyDevice, GpuWork
<1>16. ASSUME backend = "D3D12", FailToWaitForFence PROVE GpuWork
  BY <1>16, GpuKept DEF FailToWaitForFence
<1>17. ASSUME backend = "D3D12", Execute PROVE GpuWork
  <2>1. UNCHANGED <<lastSubmitted, tracked, owned, resource, deferred>> /\ sending' = {}
    BY <1>17 DEF Execute
  <2>2. PICK s \in BOOLEAN : gpu' = Append(gpu, Work(lastSubmitted, sending, s, Default))
    BY <1>17 DEF Execute
  <2>3. Work(lastSubmitted, sending, s, Default) \in Submission
    BY WorkTyped DEF TimelineTyped, ListsTyped
  <2>4. Sent(Work(lastSubmitted, sending, s, Default))
    BY <2>1, WorkIsSent
  <2>5. QED
    BY <2>2, <2>3, <2>4, OneMoreSent
<1>18. ASSUME backend = "D3D12", BeginWait PROVE GpuWork
  <2>1. UNCHANGED <<tracked, owned, resource, deferred>> /\ lastSubmitted' = lastSubmitted + 1
    BY <1>18 DEF BeginWait
  <2>2. CASE gpu' = Append(gpu, Work(lastSubmitted + 1, {}, TRUE, Default))
    <3>1. Work(lastSubmitted + 1, {}, TRUE, Default) \in Submission
      <4>1. lastSubmitted + 1 \in Nat
        BY DEF TimelineTyped
      <4>2. QED
        BY <4>1, SignalTyped
    <3>2. Sent(Work(lastSubmitted + 1, {}, TRUE, Default))
      BY <2>1, WorkIsSent
    <3>3. QED
      BY <2>2, <3>1, <3>2, OneMoreSent
  <2>3. CASE gpu' = gpu
    BY <2>3, GpuKept
  <2>4. QED
    BY <1>18, <2>2, <2>3 DEF BeginWait
<1>19. ASSUME backend = "D3D12", EndWait PROVE GpuWork
  BY <1>19, GpuKept DEF EndWait
<1>20. ASSUME backend = "D3D12", D3D12RetireCommandBuffers PROVE GpuWork
  BY <1>20, GpuKept DEF D3D12RetireCommandBuffers
<1>21. ASSUME backend = "D3D12", D3D12GpuFinish PROVE GpuWork
  BY <1>21, OneLess DEF D3D12GpuFinish
<1>22. ASSUME backend = "D3D12", D3D12DestroyDevice PROVE GpuWork
  BY <1>22 DEF D3D12DestroyDevice, GpuWork
<1>23. ASSUME backend = "Metal", Commit PROVE GpuWork
  <2>1. UNCHANGED <<lastSubmitted, tracked, owned, resource, deferred>> /\ sending' = {}
    BY <1>23 DEF Commit
  <2>2. CASE gpu' = gpu \o Committed(sending)
    <3>1. sending \in SUBSET Buffers /\ gpu \in Seq(Submission)
      BY DEF ListsTyped, TimelineTyped
    <3>2. /\ Committed(sending) \in Seq(Submission)
          /\ \A i \in DOMAIN Committed(sending) :
                \E c \in SUBSET sending, b \in BOOLEAN :
                   Committed(sending)[i] = Work(lastSubmitted, c, b, Default)
      BY <3>1, CommittedAre
    <3>3. PICK t \in Seq(Submission) : t = Committed(sending)
      BY <3>2
    <3>4. \A i \in DOMAIN t : Sent(t[i])
      BY <2>1, <3>2, <3>3, WorkIsSent, SMTT(20)
    <3>5. /\ Len(gpu) \in Nat /\ Len(t) \in Nat /\ DOMAIN t = 1..Len(t)
          /\ DOMAIN gpu = 1..Len(gpu) /\ DOMAIN gpu' = 1..(Len(gpu) + Len(t))
          /\ \A i \in 1..Len(gpu) : gpu'[i] = gpu[i]
          /\ \A i \in 1..Len(t) : gpu'[Len(gpu) + i] = t[i]
      BY <2>2, <3>1, <3>3, Concatenation
    <3>6. ASSUME NEW i \in DOMAIN gpu' PROVE Earlier(gpu'[i]) \/ Sent(gpu'[i])
      <4>1. CASE i <= Len(gpu)
        <5>1. i \in DOMAIN gpu /\ gpu'[i] = gpu[i]
          BY <3>5, <3>6, <4>1
        <5>2. QED
          BY <5>1 DEF Earlier
      <4>2. CASE ~(i <= Len(gpu))
        <5>1. i - Len(gpu) \in 1..Len(t) /\ Len(gpu) + (i - Len(gpu)) = i
          BY <3>5, <3>6, <4>2
        <5>2. gpu'[i] = t[i - Len(gpu)]
          BY <3>5, <5>1
        <5>3. QED
          BY <3>4, <3>5, <5>1, <5>2
      <4>3. QED
        BY <4>1, <4>2
    <3>7. QED
      BY <3>6 DEF GpuWork
  <2>3. CASE gpu' = gpu
    BY <2>3, GpuKept
  <2>4. QED
    BY <1>23, <2>2, <2>3 DEF Commit
<1>24. ASSUME backend = "Metal", MetalWaitOnHost PROVE GpuWork
  BY <1>24, GpuKept DEF MetalWaitOnHost
<1>25. ASSUME backend = "Metal", MetalRetireCommandBuffers PROVE GpuWork
  BY <1>25, GpuKept DEF MetalRetireCommandBuffers
<1>26. ASSUME backend = "Metal", GpuSignal PROVE GpuWork
  <2>1. gpu # <<>> /\ gpu' = [gpu EXCEPT ![1].signals = FALSE, ![1].uses = {}]
    BY <1>26 DEF GpuSignal
  <2>2. /\ gpu \in Seq(Submission) /\ gpu[1] \in Submission /\ Len(gpu) \in Nat
        /\ 1 \in 1..Len(gpu) /\ DOMAIN gpu = 1..Len(gpu)
    BY <2>1, GpuFirst
  <2>3. /\ DOMAIN gpu' = DOMAIN gpu
        /\ \A i \in DOMAIN gpu : i # 1 => gpu'[i] = gpu[i]
        /\ gpu'[1].id = gpu[1].id /\ gpu'[1].buffers = gpu[1].buffers /\ gpu'[1].uses = {}
    BY <2>1, <2>2 DEF Submission
  <2>4. QED
    BY <2>2, <2>3 DEF GpuWork, Earlier
<1>27. ASSUME backend = "Metal", GpuComplete PROVE GpuWork
  BY <1>27, OneLess DEF GpuComplete
<1>28. ASSUME backend = "Metal", MetalDestroyDevice PROVE GpuWork
  BY <1>28, GpuKept DEF MetalDestroyDevice
<1>29. ASSUME NEW b \in Buffers, backend = "CUDA", CreateEncoderFromEmptyPool(b) PROVE
   GpuWork
  BY <1>29, GpuKept DEF CreateEncoderFromEmptyPool
<1>30. ASSUME NEW bs \in SUBSET Buffers, NEW s \in Streams \cup {Default}, backend =
   "CUDA", BeginSubmitTo(bs, s) PROVE GpuWork
  BY <1>30, GpuKept DEF BeginSubmitTo
<1>31. ASSUME NEW b \in Buffers, backend = "CUDA", ExecuteBuffer(b) PROVE GpuWork
  <2>1. /\ UNCHANGED <<tracked, owned, resource, deferred>> /\ lastSubmitted' = lastSubmitted + 1
        /\ b \in sending /\ sending' = sending \ {b}
        /\ gpu' = Append(gpu, Work(lastSubmitted + 1, {b}, TRUE, stream))
    BY <1>31 DEF ExecuteBuffer
  <2>2. Work(lastSubmitted + 1, {b}, TRUE, stream) \in Submission
    <3>1. lastSubmitted + 1 \in Nat
      BY DEF TimelineTyped
    <3>2. b \in Buffers /\ TRUE \in BOOLEAN /\ stream \in Streams \cup {Default}
      BY DEF TimelineTyped
    <3>3. QED
      BY <3>1, <3>2, OneTyped
  <2>3. Sent(Work(lastSubmitted + 1, {b}, TRUE, stream))
    BY <2>1, WorkIsSent
  <2>4. QED
    BY <2>1, <2>2, <2>3, OneMoreSent
<1>32. ASSUME backend = "CUDA", EndSubmit PROVE GpuWork
  BY <1>32, GpuKept DEF EndSubmit
<1>33. ASSUME backend = "CUDA", CUDARetireCommandBuffers PROVE GpuWork
  BY <1>33, GpuKept DEF CUDARetireCommandBuffers
<1>34. ASSUME backend = "CUDA", CUDAWaitOnHost PROVE GpuWork
  BY <1>34, GpuKept DEF CUDAWaitOnHost
<1>35. ASSUME NEW i \in DOMAIN gpu, backend = "CUDA", CUDAGpuFinish(i) PROVE GpuWork
  <2>1. gpu \in Seq(Submission) /\ gpu' = RemoveAt(gpu, i) /\ i \in 1..Len(gpu)
    BY <1>35, LenProperties DEF CUDAGpuFinish, TimelineTyped
  <2>2. /\ DOMAIN gpu = 1..Len(gpu) /\ Len(gpu) \in Nat
        /\ DOMAIN gpu' = 1..(Len(gpu) - 1)
        /\ \A j \in 1..(Len(gpu) - 1) : gpu'[j] = IF j < i THEN gpu[j] ELSE gpu[j + 1]
    BY <2>1, RemovedAt
  <2>3. \A j \in DOMAIN gpu' : \E k \in DOMAIN gpu : gpu'[j] = gpu[k]
    BY <2>2
  <2>4. QED
    BY <2>3 DEF GpuWork, Earlier
<1>36. ASSUME backend = "CUDA", CUDADestroyDevice PROVE GpuWork
  BY <1>36, GpuKept DEF CUDADestroyDevice
<1>37. CASE UNCHANGED vars
  BY <1>37, GpuKept DEF vars
<1>38. QED
  BY <1>1, <1>2, <1>3, <1>4, <1>5, <1>6, <1>7, <1>8, <1>9, <1>10, <1>11, <1>12, <1>13,
     <1>14, <1>15, <1>16, <1>17, <1>18, <1>19, <1>20, <1>21, <1>22, <1>23, <1>24, <1>25,
     <1>26, <1>27, <1>28, <1>29, <1>30, <1>31, <1>32, <1>33, <1>34, <1>35, <1>36, <1>37,
     CommandQueueAssumption DEF Next, ClientStep, SubmitterStep, GpuStep, DestroyDevice,
     VulkanClientStep, VulkanSubmitterStep, D3D12ClientStep, D3D12SubmitterStep,
     MetalClientStep, MetalSubmitterStep, MetalGpuStep, CUDAClientStep,
     CUDASubmitterStep, CUDAGpuStep

(* What the GPU uses stays live, or waits behind it to be deleted.         *)
LEMMA UsesNext ==
    ASSUME RefsTyped, TimelineTyped, TimelineTyped', LiveInv, DeferredInv, RecordedInv, IdsInv,
           UsesInv, ListsTyped, RefsStep, GpuWork
    PROVE  UsesInv'
<1> DEFINE Kept(r, id) ==
              \/ resource'[r] = "live"
              \/ \E k \in DOMAIN deferred' : deferred'[k].res = r /\ deferred'[k].id >= id
<1>1. ASSUME NEW j \in DOMAIN gpu, NEW r \in gpu[j].uses, gpu' # <<>> PROVE Kept(r, gpu[j].id)
  <2>1. resource[r] = "live"
           \/ \E k \in DOMAIN deferred : deferred[k].res = r /\ deferred[k].id >= gpu[j].id
    BY <1>1 DEF UsesInv
  <2>2. gpu[j] \in Submission
    BY ElementOfSeq, LenProperties DEF TimelineTyped
  <2>3. r \in Resources /\ gpu[j].id \in Nat /\ lastSubmitted \in Nat
    BY <1>1, <2>2 DEF Submission, TimelineTyped
  <2>4. gpu[j].id <= lastSubmitted
    BY DEF IdsInv
  <2> DEFINE id == gpu[j].id
  <2> HIDE DEF id
  <2>5. id \in Nat /\ id <= lastSubmitted
    BY <2>3, <2>4 DEF id
  <2>6. resource[r] = "live" \/ \E k \in DOMAIN deferred : deferred[k].res = r /\ deferred[k].id >= id
    BY <2>1 DEF id
  <2>7. ASSUME UNCHANGED <<resource, deferred>> PROVE Kept(r, id)
    BY <2>6, <2>7
  <2>8. ASSUME NEW ok \in SUBSET Buffers, ResetBuffers(ok) PROVE Kept(r, id)
    <3>1. PICK d \in Deferred(LastReferenced(ok)) : deferred' = deferred \o d
      BY <2>8 DEF ResetBuffers
    <3>2. LastReferenced(ok) \in SUBSET Resources /\ \A s \in LastReferenced(ok) : resource[s] = "live"
      BY GoneIsLive
    <3>3. /\ \A k \in DOMAIN deferred : k \in DOMAIN deferred' /\ deferred'[k] = deferred[k]
          /\ \A s \in LastReferenced(ok) : \E k \in DOMAIN deferred' :
                deferred'[k].res = s /\ deferred'[k].id = lastSubmitted
      BY <3>1, <3>2, DeferAppends
    <3>4. resource'[r] = IF r \in LastReferenced(ok) THEN "deferred" ELSE resource[r]
      BY <2>3, <2>8 DEF ResetBuffers
    <3>5. CASE resource[r] = "live" /\ r \notin LastReferenced(ok)
      BY <3>4, <3>5
    <3>6. CASE r \in LastReferenced(ok)
      <4>1. PICK k \in DOMAIN deferred' : deferred'[k].res = r /\ deferred'[k].id = lastSubmitted
        BY <3>3, <3>6
      <4>2. deferred'[k].id >= id
        BY <2>3, <2>5, <4>1
      <4>3. QED
        BY <4>1, <4>2
    <3>7. CASE \E k \in DOMAIN deferred : deferred[k].res = r /\ deferred[k].id >= id
      BY <3>3, <3>7
    <3>8. QED
      BY <2>6, <3>5, <3>6, <3>7
  <2>9. ASSUME Retired PROVE Kept(r, id)
    <3>1. PICK done \in Seq(Buffers), ok \in SUBSET Buffers, finished \in Nat :
             \E d \in Deferred(LastReferenced(ok)) :
                RetireWith(done, finished, ok, d) /\ NotFinished(finished)
      BY <2>9 DEF Retired
    <3>2. PICK d \in Deferred(LastReferenced(ok)) : RetireWith(done, finished, ok, d)
      BY <3>1
    <3>3. id > finished
      BY <1>1, <3>1 DEF NotFinished, id
    <3>40. PICK q \in Seq(Entries), deleted \in SUBSET Resources :
            Retirement(ok, finished, q, deleted)
      BY <3>2, RetirementIs
    <3>4.
             /\ \A s \in Resources :
                   Waiting(q, s) <=> resource[s] \in {"pushed", "deferred"} \/ s \in LastReferenced(ok)
             /\ \A k \in DOMAIN deferred : k \in DOMAIN q /\ q[k] = deferred[k]
             /\ \A s \in LastReferenced(ok) :
                   \E k \in DOMAIN q : q[k].res = s /\ q[k].id = lastSubmitted
             /\ \A k \in DOMAIN q : q[k].id > finished =>
                   \E l \in DOMAIN deferred' : deferred'[l] = q[k]
             /\ \A s \in deleted : Waiting(q, s)
             /\ resource' = [s \in Resources |->
                                IF s \in deleted THEN "deleted"
                                ELSE IF s \in LastReferenced(ok) THEN "deferred" ELSE resource[s]]
      BY <3>40 DEF Retirement
    <3>5. CASE resource[r] = "live" /\ r \notin LastReferenced(ok)
      <4>1. r \notin deleted
        BY <2>3, <3>4, <3>5
      <4>2. QED
        BY <2>3, <3>4, <3>5, <4>1
    <3>6. ASSUME NEW k \in DOMAIN q, q[k].res = r, q[k].id >= id PROVE Kept(r, id)
      <4>1. q[k].id \in Nat
        BY EntriesTyped
      <4>2. q[k].id > finished
        BY <2>5, <3>3, <3>6, <4>1
      <4>3. PICK l \in DOMAIN deferred' : deferred'[l] = q[k]
        BY <3>4, <4>2
      <4>4. QED
        BY <3>6, <4>3
    <3>7. CASE r \in LastReferenced(ok)
      <4>1. PICK k \in DOMAIN q : q[k].res = r /\ q[k].id = lastSubmitted
        BY <3>4, <3>7
      <4>2. q[k].id >= id
        BY <2>3, <2>5, <4>1
      <4>3. QED
        BY <3>6, <4>1, <4>2
    <3>8. CASE \E k \in DOMAIN deferred : deferred[k].res = r /\ deferred[k].id >= id
      <4>1. PICK k \in DOMAIN deferred : deferred[k].res = r /\ deferred[k].id >= id
        BY <3>8
      <4>2. k \in DOMAIN q /\ q[k] = deferred[k]
        BY <3>4, <4>1
      <4>3. QED
        BY <3>6, <4>1, <4>2
    <3>9. QED
      BY <2>6, <3>5, <3>7, <3>8
  <2>10. ASSUME NEW s \in Resources, ReleaseResource(s) PROVE Kept(r, id)
    <3>1. /\ s \in owned
          /\ \E d \in Deferred({s}) :
                deferred' = IF \A b \in Buffers : s \notin tracked[b] THEN deferred \o d ELSE deferred
          /\ resource' = IF \A b \in Buffers : s \notin tracked[b]
                         THEN [resource EXCEPT ![s] = "pushed"] ELSE resource
      BY <2>10 DEF ReleaseResource
    <3>2. PICK d \in Deferred({s}) :
             deferred' = IF \A b \in Buffers : s \notin tracked[b] THEN deferred \o d ELSE deferred
      BY <3>1
    <3>3. CASE \A b \in Buffers : s \notin tracked[b]
      <4>1. resource'[r] = IF r = s THEN "pushed" ELSE resource[r]
        BY <2>3, <3>1, <3>3 DEF RefsTyped
      <4>2. {s} \in SUBSET Resources /\ \A t \in {s} : resource[t] = "live"
        BY <3>1 DEF LiveInv
      <4>3. deferred' = deferred \o d
        BY <3>2, <3>3
      <4>4. /\ \A k \in DOMAIN deferred : k \in DOMAIN deferred' /\ deferred'[k] = deferred[k]
            /\ \A t \in {s} : \E k \in DOMAIN deferred' :
                  deferred'[k].res = t /\ deferred'[k].id = lastSubmitted
        BY <4>2, <4>3, DeferAppends
      <4>5. CASE r = s
        <5>1. PICK k \in DOMAIN deferred' : deferred'[k].res = r /\ deferred'[k].id = lastSubmitted
          BY <4>4, <4>5
        <5>2. deferred'[k].id >= id
          BY <2>3, <2>5, <5>1
        <5>3. QED
          BY <5>1, <5>2
      <4>6. CASE r # s
        BY <2>6, <4>1, <4>4, <4>6
      <4>7. QED
        BY <4>5, <4>6
    <3>4. CASE ~(\A b \in Buffers : s \notin tracked[b])
      BY <2>6, <3>1, <3>2, <3>4
    <3>5. QED
      BY <3>3, <3>4
  <2>11. ASSUME NEW s \in Resources, BreakDeviceReference(s) PROVE Kept(r, id)
    <3>1. /\ resource[s] = "pushed" /\ deferred' = deferred
          /\ resource' = [resource EXCEPT ![s] = "deferred"]
      BY <2>11 DEF BreakDeviceReference
    <3>2. resource[r] = "live" => resource'[r] = "live"
      BY <2>3, <3>1 DEF RefsTyped
    <3>3. QED
      BY <2>6, <3>1, <3>2
  <2>12. ASSUME NEW b \in Buffers, NEW s \in Resources, RecordTracked(b, s)
         PROVE  UNCHANGED <<resource, deferred>>
    BY <2>12 DEF RecordTracked
  <2>13. gpu' # <<>>
    BY <1>1
  <2>14. Kept(r, id)
    <3> HIDE DEF Kept
    <3>1. CASE UNCHANGED <<tracked, owned, resource, deferred>>
      BY <2>7, <3>1
    <3>2. CASE \E b \in Buffers, s \in Resources : RecordTracked(b, s)
      BY <2>7, <2>12, <3>2
    <3>3. CASE \E ok \in SUBSET Buffers : ResetBuffers(ok)
      BY <2>8, <3>3
    <3>4. CASE Retired
      BY <2>9, <3>4
    <3>5. CASE \E s \in Resources : ReleaseResource(s)
      BY <2>10, <3>5
    <3>6. CASE \E s \in Resources : BreakDeviceReference(s)
      BY <2>11, <3>6
    <3>7. QED
      BY <2>13, <3>1, <3>2, <3>3, <3>4, <3>5, <3>6 DEF RefsStep
  <2>15. QED
    BY <2>14 DEF id
<1>2. ASSUME NEW i \in DOMAIN gpu', NEW r \in gpu'[i].uses PROVE Kept(r, gpu'[i].id)
  <2>1. CASE Earlier(gpu'[i])
    <3>1. PICK j \in DOMAIN gpu : gpu'[i].id = gpu[j].id /\ gpu'[i].uses \subseteq gpu[j].uses
      BY <2>1 DEF Earlier
    <3>2. r \in gpu[j].uses
      BY <1>2, <3>1
    <3> HIDE DEF Kept
    <3>3. gpu' # <<>>
      BY <1>2
    <3>4. QED
      BY <1>1, <3>1, <3>2, <3>3
  <2>2. CASE Sent(gpu'[i])
    <3>1. PICK b \in sending : r \in recorded[b]
      BY <1>2, <2>2 DEF Sent
    <3>2. r \in Resources
      BY <3>1 DEF RefsTyped, ListsTyped
    <3>3. r \in owned \/ r \in tracked[b]
      BY <3>1 DEF RecordedInv
    <3>4. b \in Buffers
      BY <3>1 DEF ListsTyped
    <3>5. resource[r] = "live"
      BY <3>2, <3>3, <3>4 DEF LiveInv
    <3>6. resource' = resource
      BY <2>2 DEF Sent
    <3>7. QED
      BY <3>5, <3>6
  <2>3. QED
    BY <2>1, <2>2 DEF GpuWork
<1>3. QED
  BY <1>2 DEF UsesInv

(* What was on the GPU stays in flight, and what is sent there already is. *)
LEMMA BuffersKept ==
    ASSUME BuffersInv, SendInv, GpuWork,
           \/ sending' = sending \/ gpu' = gpu
           \/ backend # "CUDA" /\ lastSubmitted' = lastSubmitted,
           Range(inFlight) \subseteq Range(inFlight'),
           \A b \in Range(inFlight) : submissionID'[b] = submissionID[b]
    PROVE  BuffersInv'
<1>1. SUFFICES ASSUME NEW i \in DOMAIN gpu', NEW b \in gpu'[i].buffers
               PROVE  b \in Range(inFlight') /\ submissionID'[b] = gpu'[i].id
  BY DEF BuffersInv
<1>2. CASE gpu' = gpu
  BY <1>1, <1>2 DEF BuffersInv
<1>3. CASE Earlier(gpu'[i])
  <2>1. PICK j \in DOMAIN gpu : gpu'[i].id = gpu[j].id /\ b \in gpu[j].buffers
    BY <1>1, <1>3 DEF Earlier
  <2>2. b \in Range(inFlight) /\ submissionID[b] = gpu[j].id
    BY <2>1 DEF BuffersInv
  <2>3. QED
    BY <2>1, <2>2
<1>4. CASE gpu' # gpu /\ Sent(gpu'[i])
  <2>1. backend # "CUDA" /\ lastSubmitted' = lastSubmitted /\ b \in sending /\ gpu'[i].id = lastSubmitted
    BY <1>1, <1>4 DEF Sent
  <2>2. b \in Range(inFlight) /\ submissionID[b] = lastSubmitted
    BY <2>1 DEF SendInv
  <2>3. QED
    BY <2>1, <2>2
<1>5. QED
  BY <1>2, <1>3, <1>4 DEF GpuWork

LEMMA BuffersRetired ==
    ASSUME ListsTyped, RefsTyped, OwnerInv, BuffersInv, gpu' = gpu, NEW done \in Seq(Buffers),
           NEW finished, NEW newPool, Retire(done, finished, newPool),
           \A i \in DOMAIN gpu : gpu[i].buffers \cap Range(done) = {}
    PROVE  BuffersInv'
<1>1. Range(inFlight') = Range(inFlight) \ Range(done) /\ Range(inFlight) \subseteq Buffers
  BY RetireLists, RangeTyped DEF ListsTyped
<1>2. PICK ok \in SUBSET Range(done) : \E d \in Deferred(LastReferenced(ok)) :
         RetireWith(done, finished, ok, d)
  BY RetireSplit
<1>3. \A b \in Buffers \ Range(done) : submissionID'[b] = submissionID[b]
  BY <1>2 DEF RetireWith
<1>4. QED
  BY <1>1, <1>3 DEF BuffersInv

(* Every submission on the GPU has an ID above a number no larger than the *)
(* one that is reached.                                                    *)
LEMMA IdsTyped ==
    ASSUME TimelineTyped
    PROVE  \A i \in DOMAIN gpu : gpu[i].id \in Nat /\ gpu[i].buffers \in SUBSET Buffers
                                 /\ gpu[i].uses \in SUBSET Resources
<1> SUFFICES ASSUME NEW i \in DOMAIN gpu
             PROVE  gpu[i].id \in Nat /\ gpu[i].buffers \in SUBSET Buffers
                    /\ gpu[i].uses \in SUBSET Resources
  OBVIOUS
<1>1. i \in 1..Len(gpu)
  BY LenProperties DEF TimelineTyped
<1>2. gpu[i] \in Submission
  BY <1>1, ElementOfSeq DEF TimelineTyped
<1>3. QED
  BY <1>2 DEF Submission

LEMMA CUDAUnfinished ==
    ASSUME TimelineTyped, IdsInv, EventsInv, BuffersInv, backend = "CUDA", NEW s,
           Range(s) = Range(inFlight) \cap {b \in Buffers : submissionID[b] <= FinishedNow}
    PROVE  \A i \in DOMAIN gpu : gpu[i].buffers \cap Range(s) = {}
<1>1. SUFFICES ASSUME NEW i \in DOMAIN gpu, NEW b \in gpu[i].buffers PROVE b \notin Range(s)
  OBVIOUS
<1>2. gpu[i].id > FinishedNow /\ gpu[i].id \in Nat /\ FinishedNow \in Nat
  BY NothingFinishedOnGpu, IdsTyped, FinishedNowTyped DEF TimelineTyped
<1>3. submissionID[b] = gpu[i].id
  BY <1>1 DEF BuffersInv
<1> HIDE DEF FinishedNow
<1>4. QED
  BY <1>2, <1>3

LEMMA BuffersNext == ListsTyped /\ RefsTyped /\ TimelineTyped /\ OwnerInv /\ SendInv /\
   IdsInv /\ EventsInv /\ BuffersInv /\ GpuWork /\ [Next]_vars => BuffersInv'
<1> SUFFICES ASSUME ListsTyped, RefsTyped, TimelineTyped, OwnerInv, SendInv, IdsInv,
   EventsInv, BuffersInv, GpuWork, [Next]_vars PROVE BuffersInv'
  OBVIOUS
<1> USE DEF lists, recording, submitter, timeline, device
<1>1. ASSUME NEW b \in Buffers, NEW r \in Resources, RecordTracked(b, r) PROVE
   BuffersInv'
  <2>1. UNCHANGED <<inFlight, submissionID, sending>>
    BY <1>1 DEF RecordTracked
  <2>2. QED
    BY <2>1, BuffersKept
<1>2. ASSUME NEW b \in Buffers, NEW r \in Resources, RecordRaw(b, r) PROVE BuffersInv'
  <2>1. UNCHANGED <<inFlight, submissionID, sending>>
    BY <1>2 DEF RecordRaw
  <2>2. QED
    BY <2>1, BuffersKept
<1>3. ASSUME NEW b \in Buffers, FinishEncoder(b) PROVE BuffersInv'
  <2>1. UNCHANGED <<inFlight, submissionID, sending>>
    BY <1>3 DEF FinishEncoder
  <2>2. QED
    BY <2>1, BuffersKept
<1>4. ASSUME NEW b \in Buffers, ReleaseBuffer(b) PROVE BuffersInv'
  <2>1. CASE handles[b] = 1 /\ b \notin Range(pool) \cup Range(inFlight) \cup encoding
    <3>1. UNCHANGED <<inFlight, gpu>> /\ b \notin Range(inFlight)
      BY <1>4, <2>1 DEF ReleaseBuffer
    <3>2. ResetBuffers({b})
      BY <1>4, <2>1 DEF ReleaseBuffer
    <3>3. \A c \in Buffers \ {b} : submissionID'[c] = submissionID[c]
      BY <3>2 DEF ResetBuffers
    <3>4. Range(inFlight) \subseteq Buffers
      BY RangeTyped DEF ListsTyped
    <3>5. QED
      BY <3>1, <3>3, <3>4, BuffersKept
  <2>2. CASE ~(handles[b] = 1 /\ b \notin Range(pool) \cup Range(inFlight) \cup encoding)
    <3>1. UNCHANGED <<inFlight, submissionID, gpu>>
      BY <1>4, <2>2 DEF ReleaseBuffer
    <3>2. QED
      BY <3>1, BuffersKept
  <2>3. QED
    BY <2>1, <2>2
<1>5. ASSUME NEW r \in Resources, ReleaseResource(r) PROVE BuffersInv'
  <2>1. UNCHANGED <<inFlight, submissionID, sending>>
    BY <1>5 DEF ReleaseResource
  <2>2. QED
    BY <2>1, BuffersKept
<1>6. ASSUME ReleaseDevice PROVE BuffersInv'
  <2>1. UNCHANGED <<inFlight, submissionID, sending>>
    BY <1>6 DEF ReleaseDevice
  <2>2. QED
    BY <2>1, BuffersKept
<1>7. ASSUME NEW r \in Resources, BreakDeviceReference(r) PROVE BuffersInv'
  <2>1. UNCHANGED <<inFlight, submissionID, sending>>
    BY <1>7 DEF BreakDeviceReference
  <2>2. QED
    BY <2>1, BuffersKept
<1>8. ASSUME NEW b \in Buffers, CreateEncoder(b), backend = "CUDA" => pool # <<>> PROVE
   BuffersInv'
  <2>1. UNCHANGED <<inFlight, submissionID, sending>>
    BY <1>8 DEF CreateEncoder, PoolAfterTake
  <2>2. QED
    BY <2>1, BuffersKept
<1>9. ASSUME NEW b \in Buffers, DropEncoder(b) PROVE BuffersInv'
  <2>1. PICK ok \in Resets({b}) : ResetBuffers(ok)
    BY <1>9 DEF DropEncoder
  <2>2. ok \subseteq {b}
    BY <2>1 DEF Resets
  <2>3. UNCHANGED <<inFlight, gpu>> /\ b \in encoding
    BY <1>9 DEF DropEncoder
  <2>4. b \notin Range(inFlight)
    BY <2>3 DEF OwnerInv
  <2>5. \A c \in Buffers \ {b} : submissionID'[c] = submissionID[c]
    BY <2>1, <2>2 DEF ResetBuffers
  <2>6. Range(inFlight) \subseteq Buffers
    BY RangeTyped DEF ListsTyped
  <2>7. QED
    BY <2>3, <2>4, <2>5, <2>6, BuffersKept
<1>10. ASSUME NEW bs \in SUBSET Buffers, backend # "CUDA", BeginSubmit(bs) PROVE
   BuffersInv'
  <2>1. PICK s \in SetToSeqs(bs) : inFlight' = inFlight \o s
    BY <1>10 DEF BeginSubmit
  <2>2. /\ gpu' = gpu /\ bs \subseteq unsubmitted
        /\ \A b \in Buffers \ bs : submissionID'[b] = submissionID[b]
    BY <1>10 DEF BeginSubmit
  <2>3. IsFiniteSet(bs)
    BY FS_Subset, CommandQueueAssumption DEF CommandQueueAssumption
  <2>4. s \in Seq(Buffers)
    BY <2>1, <2>3, OrdersOf, SeqMonotonic
  <2>5. Range(inFlight) \subseteq Range(inFlight')
    BY <2>1, <2>4, Concatenation DEF ListsTyped
  <2>6. Range(inFlight) \subseteq Buffers \ bs
    BY <2>2, RangeTyped DEF OwnerInv, ListsTyped
  <2>7. QED
    BY <2>2, <2>5, <2>6, BuffersKept
<1>11. ASSUME backend = "Vulkan", QueueSubmit PROVE BuffersInv'
  <2>1. UNCHANGED <<inFlight, submissionID, lastSubmitted>>
    BY <1>11 DEF QueueSubmit
  <2>2. QED
    BY <1>11, <2>1, BuffersKept
<1>12. ASSUME backend = "Vulkan", VulkanWaitOnHost PROVE BuffersInv'
  <2>1. UNCHANGED <<inFlight, submissionID, sending>>
    BY <1>12 DEF VulkanWaitOnHost
  <2>2. QED
    BY <2>1, BuffersKept
<1>13. ASSUME backend = "Vulkan", VulkanRetireCommandBuffers PROVE BuffersInv'
  <2>1. PICK done \in Seq(Buffers) :
           /\ Range(done) = Range(inFlight) \cap {b \in Buffers : VulkanRetires(b)}
           /\ Retire(done, semaphore, pool \o done)
    BY <1>13, VulkanRetiring
  <2>2. gpu' = gpu
    BY <1>13 DEF VulkanRetireCommandBuffers
  <2>3. \A i \in DOMAIN gpu : gpu[i].id \in Nat /\ gpu[i].id > semaphore /\ semaphore \in Nat
    BY <1>13, IdsTyped DEF IdsInv, Reached, TimelineTyped
  <2>4. ASSUME NEW i \in DOMAIN gpu, NEW b \in gpu[i].buffers PROVE b \notin Range(done)
    <3>1. submissionID[b] = gpu[i].id
      BY <2>4 DEF BuffersInv
    <3>2. ~VulkanRetires(b)
      BY <2>3, <3>1 DEF VulkanRetires
    <3>3. QED
      BY <2>1, <3>2
  <2>5. QED
    BY <2>1, <2>2, <2>4, BuffersRetired
<1>14. ASSUME backend = "Vulkan", VulkanGpuFinish PROVE BuffersInv'
  <2>1. UNCHANGED <<inFlight, submissionID, sending>>
    BY <1>14 DEF VulkanGpuFinish
  <2>2. QED
    BY <2>1, BuffersKept
<1>15. ASSUME backend = "Vulkan", VulkanDestroyDevice PROVE BuffersInv'
  <2>1. gpu' = <<>>
    BY <1>15 DEF VulkanDestroyDevice
  <2>2. QED
    BY <2>1 DEF BuffersInv
<1>16. ASSUME backend = "D3D12", FailToWaitForFence PROVE BuffersInv'
  <2>1. UNCHANGED <<inFlight, submissionID, sending>>
    BY <1>16 DEF FailToWaitForFence
  <2>2. QED
    BY <2>1, BuffersKept
<1>17. ASSUME backend = "D3D12", Execute PROVE BuffersInv'
  <2>1. UNCHANGED <<inFlight, submissionID, lastSubmitted>>
    BY <1>17 DEF Execute
  <2>2. QED
    BY <1>17, <2>1, BuffersKept
<1>18. ASSUME backend = "D3D12", BeginWait PROVE BuffersInv'
  <2>1. UNCHANGED <<inFlight, submissionID, sending>>
    BY <1>18 DEF BeginWait, Work
  <2>2. QED
    BY <2>1, BuffersKept
<1>19. ASSUME backend = "D3D12", EndWait PROVE BuffersInv'
  <2>1. UNCHANGED <<inFlight, submissionID, sending>>
    BY <1>19 DEF EndWait
  <2>2. QED
    BY <2>1, BuffersKept
<1>20. ASSUME backend = "D3D12", D3D12RetireCommandBuffers PROVE BuffersInv'
  <2>1. PICK done \in Seq(Buffers) :
           /\ Range(done) = Range(inFlight) \cap {b \in Buffers : D3D12Retires(b)}
           /\ Retire(done, semaphore, pool \o done)
    BY <1>20, D3D12Retiring
  <2>2. gpu' = gpu
    BY <1>20 DEF D3D12RetireCommandBuffers
  <2>3. \A i \in DOMAIN gpu : gpu[i].id \in Nat /\ gpu[i].id > semaphore /\ semaphore \in Nat
    BY <1>20, IdsTyped DEF IdsInv, Reached, TimelineTyped
  <2>4. ASSUME NEW i \in DOMAIN gpu, NEW b \in gpu[i].buffers PROVE b \notin Range(done)
    <3>1. submissionID[b] = gpu[i].id
      BY <2>4 DEF BuffersInv
    <3>2. ~D3D12Retires(b)
      BY <2>3, <3>1 DEF D3D12Retires
    <3>3. QED
      BY <2>1, <3>2
  <2>5. QED
    BY <2>1, <2>2, <2>4, BuffersRetired
<1>21. ASSUME backend = "D3D12", D3D12GpuFinish PROVE BuffersInv'
  <2>1. UNCHANGED <<inFlight, submissionID, sending>>
    BY <1>21 DEF D3D12GpuFinish
  <2>2. QED
    BY <2>1, BuffersKept
<1>22. ASSUME backend = "D3D12", D3D12DestroyDevice PROVE BuffersInv'
  <2>1. gpu' = <<>>
    BY <1>22 DEF D3D12DestroyDevice
  <2>2. QED
    BY <2>1 DEF BuffersInv
<1>23. ASSUME backend = "Metal", Commit PROVE BuffersInv'
  <2>1. UNCHANGED <<inFlight, submissionID, lastSubmitted>>
    BY <1>23 DEF Commit
  <2>2. QED
    BY <1>23, <2>1, BuffersKept
<1>24. ASSUME backend = "Metal", MetalWaitOnHost PROVE BuffersInv'
  <2>1. UNCHANGED <<inFlight, submissionID, sending>>
    BY <1>24 DEF MetalWaitOnHost
  <2>2. QED
    BY <2>1, BuffersKept
<1>25. ASSUME backend = "Metal", MetalRetireCommandBuffers PROVE BuffersInv'
  <2>1. PICK done \in Seq(Buffers) :
           /\ Range(done) = Range(inFlight) \cap {b \in Buffers : Completed(b)}
           /\ Retire(done, semaphore, pool)
    BY <1>25, MetalRetiring
  <2>2. gpu' = gpu
    BY <1>25 DEF MetalRetireCommandBuffers
  <2>3. \A i \in DOMAIN gpu : gpu[i].buffers \cap Range(done) = {}
    BY <2>1 DEF Completed
  <2>4. QED
    BY <2>1, <2>2, <2>3, BuffersRetired
<1>26. ASSUME backend = "Metal", GpuSignal PROVE BuffersInv'
  <2>1. UNCHANGED <<inFlight, submissionID, sending>>
    BY <1>26 DEF GpuSignal
  <2>2. QED
    BY <2>1, BuffersKept
<1>27. ASSUME backend = "Metal", GpuComplete PROVE BuffersInv'
  <2>1. UNCHANGED <<inFlight, submissionID, sending>>
    BY <1>27 DEF GpuComplete
  <2>2. QED
    BY <2>1, BuffersKept
<1>28. ASSUME backend = "Metal", MetalDestroyDevice PROVE BuffersInv'
  <2>1. gpu' = <<>>
    BY <1>28 DEF MetalDestroyDevice
  <2>2. QED
    BY <2>1 DEF BuffersInv
<1>29. ASSUME NEW b \in Buffers, backend = "CUDA", CreateEncoderFromEmptyPool(b) PROVE
   BuffersInv'
  <2>1. PICK done \in Seq(Buffers), newPool \in Seq(Buffers) :
           done = Finished(FinishedNow) /\ Retire(done, FinishedNow, newPool)
    BY <1>29, FromEmptyPool
  <2>2. gpu' = gpu
    BY <1>29 DEF CreateEncoderFromEmptyPool
  <2>3. Range(done) = Range(inFlight) \cap {c \in Buffers : submissionID[c] <= FinishedNow}
    BY <2>1, FinishedAre
  <2>4. \A i \in DOMAIN gpu : gpu[i].buffers \cap Range(done) = {}
    BY <1>29, <2>3, CUDAUnfinished
  <2>5. QED
    BY <2>1, <2>2, <2>4, BuffersRetired
<1>30. ASSUME NEW bs \in SUBSET Buffers, NEW s \in Streams \cup {Default}, backend =
   "CUDA", BeginSubmitTo(bs, s) PROVE BuffersInv'
  <2>1. UNCHANGED <<inFlight, submissionID, gpu>>
    BY <1>30 DEF BeginSubmitTo
  <2>2. QED
    BY <2>1, BuffersKept
<1>31. ASSUME NEW b \in Buffers, backend = "CUDA", ExecuteBuffer(b) PROVE BuffersInv'
  <2>1. /\ gpu' = Append(gpu, Work(lastSubmitted + 1, {b}, TRUE, stream)) /\ b \in sending
        /\ submissionID' = [submissionID EXCEPT ![b] = lastSubmitted + 1]
        /\ inFlight' = Append(inFlight, b)
    BY <1>31 DEF ExecuteBuffer
  <2>2. b \notin Range(inFlight)
    BY <1>31, <2>1 DEF SendInv
  <2>3. Range(inFlight') = Range(inFlight) \cup {b}
    BY <2>1, <2>2, DistinctAppend DEF OwnerInv, ListsTyped
  <2>4. Work(lastSubmitted + 1, {b}, TRUE, stream) \in Submission
    <3>1. lastSubmitted + 1 \in Nat
      BY DEF TimelineTyped
    <3>2. b \in Buffers /\ TRUE \in BOOLEAN /\ stream \in Streams \cup {Default}
      BY DEF TimelineTyped
    <3>3. QED
      BY <3>1, <3>2, OneTyped
  <2>5. /\ Len(gpu) \in Nat
        /\ DOMAIN gpu = 1..Len(gpu) /\ DOMAIN gpu' = 1..(Len(gpu) + 1)
        /\ \A i \in 1..Len(gpu) : gpu'[i] = gpu[i]
        /\ gpu'[Len(gpu) + 1] = Work(lastSubmitted + 1, {b}, TRUE, stream)
    BY <2>1, <2>4, GpuGrows
  <2>6. ASSUME NEW i \in DOMAIN gpu', NEW c \in gpu'[i].buffers
        PROVE  c \in Range(inFlight') /\ submissionID'[c] = gpu'[i].id
    <3>1. CASE i \in DOMAIN gpu
      <4>1. gpu'[i] = gpu[i]
        BY <2>5, <3>1
      <4>2. c \in Range(inFlight) /\ submissionID[c] = gpu[i].id
        BY <2>6, <3>1, <4>1 DEF BuffersInv
      <4>3. c \in Buffers /\ c # b
        BY <2>2, <4>2, RangeTyped DEF ListsTyped
      <4>4. submissionID'[c] = submissionID[c]
        BY <2>1, <4>3 DEF ListsTyped
      <4>5. QED
        BY <2>3, <4>1, <4>2, <4>4
    <3>2. CASE i = Len(gpu) + 1
      <4>1. c = b /\ gpu'[i].id = lastSubmitted + 1
        BY <2>5, <2>6, <3>2 DEF Work
      <4>2. submissionID'[b] = lastSubmitted + 1
        BY <2>1 DEF ListsTyped
      <4>3. QED
        BY <2>3, <4>1, <4>2
    <3>3. QED
      BY <2>5, <3>1, <3>2
  <2>7. QED
    BY <2>6 DEF BuffersInv
<1>32. ASSUME backend = "CUDA", EndSubmit PROVE BuffersInv'
  <2>1. UNCHANGED <<inFlight, submissionID, gpu>>
    BY <1>32 DEF EndSubmit
  <2>2. QED
    BY <2>1, BuffersKept
<1>33. ASSUME backend = "CUDA", CUDARetireCommandBuffers PROVE BuffersInv'
  <2>1. /\ Finished(FinishedNow) \in Seq(Buffers)
        /\ Range(Finished(FinishedNow)) = Range(inFlight) \cap {b \in Buffers : submissionID[b] <= FinishedNow}
    BY FinishedAre
  <2>2. Retire(Finished(FinishedNow), FinishedNow, pool \o Finished(FinishedNow)) /\ gpu' = gpu
    BY <1>33 DEF CUDARetireCommandBuffers
  <2>3. \A i \in DOMAIN gpu : gpu[i].buffers \cap Range(Finished(FinishedNow)) = {}
    BY <1>33, <2>1, CUDAUnfinished
  <2>4. QED
    BY <2>1, <2>2, <2>3, BuffersRetired
<1>34. ASSUME backend = "CUDA", CUDAWaitOnHost PROVE BuffersInv'
  <2>1. gpu' = <<>>
    BY <1>34 DEF CUDAWaitOnHost
  <2>2. QED
    BY <2>1 DEF BuffersInv
<1>35. ASSUME NEW i \in DOMAIN gpu, backend = "CUDA", CUDAGpuFinish(i) PROVE BuffersInv'
  <2>1. UNCHANGED <<inFlight, submissionID, sending>>
    BY <1>35 DEF CUDAGpuFinish
  <2>2. QED
    BY <2>1, BuffersKept
<1>36. ASSUME backend = "CUDA", CUDADestroyDevice PROVE BuffersInv'
  <2>1. gpu' = <<>>
    BY <1>36 DEF CUDADestroyDevice
  <2>2. QED
    BY <2>1 DEF BuffersInv
<1>37. CASE UNCHANGED vars
  <2>1. UNCHANGED <<inFlight, submissionID, sending>>
    BY <1>37 DEF vars
  <2>2. QED
    BY <2>1, BuffersKept
<1>38. QED
  BY <1>1, <1>2, <1>3, <1>4, <1>5, <1>6, <1>7, <1>8, <1>9, <1>10, <1>11, <1>12, <1>13,
     <1>14, <1>15, <1>16, <1>17, <1>18, <1>19, <1>20, <1>21, <1>22, <1>23, <1>24, <1>25,
     <1>26, <1>27, <1>28, <1>29, <1>30, <1>31, <1>32, <1>33, <1>34, <1>35, <1>36, <1>37,
     CommandQueueAssumption DEF Next, ClientStep, SubmitterStep, GpuStep, DestroyDevice,
     VulkanClientStep, VulkanSubmitterStep, D3D12ClientStep, D3D12SubmitterStep,
     MetalClientStep, MetalSubmitterStep, MetalGpuStep, CUDAClientStep,
     CUDASubmitterStep, CUDAGpuStep

-----------------------------------------------------------------------------
(* The IDs of submissions.                                                 *)

LEMMA IdsKept ==
    ASSUME TimelineTyped, TimelineTyped', IdsInv, UNCHANGED <<backend, gpu, semaphore>>,
           \/ lastSubmitted' = lastSubmitted /\ (pc' = pc \/ pc' # "send" \/ backend = "CUDA")
           \/ lastSubmitted' = lastSubmitted + 1,
           backend = "CUDA" => \A i \in DOMAIN gpu : gpu[i].id > lastFinished'
    PROVE  IdsInv'
<1>1. \A i \in DOMAIN gpu : gpu[i].id \in Nat
  BY IdsTyped
<1>2. lastSubmitted \in Nat /\ lastSubmitted' \in Nat /\ semaphore \in Nat /\ semaphore <= lastSubmitted
  BY DEF TimelineTyped
<1>3. pc' = "send" /\ backend # "CUDA" => semaphore < lastSubmitted'
  BY <1>2 DEF IdsInv
<1>4. \A i \in DOMAIN gpu :
         gpu[i].id <= lastSubmitted' /\ (pc' = "send" /\ backend # "CUDA" => gpu[i].id < lastSubmitted')
  BY <1>1, <1>2 DEF IdsInv
<1>5. \A i \in DOMAIN gpu : backend # "Metal" \/ gpu[i].uses # {} => gpu[i].id > Reached'
  BY DEF IdsInv, Reached
<1>6. QED
  BY <1>3, <1>4, <1>5 DEF IdsInv

(* Work that is sent has the last ID, and nothing behind it waits for it.  *)
LEMMA IdsGrow ==
    ASSUME TimelineTyped, TimelineTyped', IdsInv, UNCHANGED <<backend, semaphore, lastFinished>>,
           NEW t \in Seq(Submission), gpu' = gpu \o t,
           \A i \in DOMAIN t :
              /\ t[i].id = lastSubmitted' /\ (t[i].signals => i = Len(t))
              /\ backend \in {"Vulkan", "CUDA"} => t[i].signals,
           pc' # "send" \/ backend = "CUDA",
           lastSubmitted' >= lastSubmitted,
           semaphore < lastSubmitted', backend = "CUDA" => lastFinished < lastSubmitted',
           \A i \in DOMAIN gpu : gpu[i].id < lastSubmitted'
    PROVE  IdsInv'
<1>1. /\ Len(gpu) \in Nat /\ Len(t) \in Nat /\ DOMAIN t = 1..Len(t)
      /\ DOMAIN gpu = 1..Len(gpu) /\ DOMAIN gpu' = 1..(Len(gpu) + Len(t))
      /\ \A i \in 1..Len(gpu) : gpu'[i] = gpu[i]
      /\ \A i \in 1..Len(t) : gpu'[Len(gpu) + i] = t[i]
  BY Concatenation DEF TimelineTyped
<1>2. /\ \A i \in DOMAIN gpu : gpu[i].id \in Nat
      /\ lastSubmitted \in Nat /\ lastSubmitted' \in Nat /\ semaphore \in Nat /\ lastFinished \in Nat
  BY IdsTyped DEF TimelineTyped
<1>3. \A i \in (Len(gpu) + 1)..(Len(gpu) + Len(t)) :
         i - Len(gpu) \in DOMAIN t /\ gpu'[i] = t[i - Len(gpu)]
  <2>1. SUFFICES ASSUME NEW i \in (Len(gpu) + 1)..(Len(gpu) + Len(t))
                 PROVE  i - Len(gpu) \in DOMAIN t /\ gpu'[i] = t[i - Len(gpu)]
    OBVIOUS
  <2>2. i - Len(gpu) \in 1..Len(t) /\ Len(gpu) + (i - Len(gpu)) = i
    BY <1>1
  <2>3. QED
    BY <1>1, <2>2
<1>4. \A i \in DOMAIN gpu' : i \in 1..Len(gpu) \/ i \in (Len(gpu) + 1)..(Len(gpu) + Len(t))
  BY <1>1
<1>5. ASSUME NEW i \in (Len(gpu) + 1)..(Len(gpu) + Len(t))
      PROVE  /\ gpu'[i].id = lastSubmitted'
             /\ gpu'[i].signals => i = Len(gpu) + Len(t)
             /\ backend \in {"Vulkan", "CUDA"} => gpu'[i].signals
  <2>1. i - Len(gpu) \in DOMAIN t /\ gpu'[i] = t[i - Len(gpu)]
    BY <1>3
  <2>2. gpu'[i].signals => i - Len(gpu) = Len(t)
    BY <2>1
  <2>3. i - Len(gpu) = Len(t) => i = Len(gpu) + Len(t)
    BY <1>1
  <2>4. QED
    BY <2>1, <2>2, <2>3
<1>6. Reached' = Reached /\ Reached < lastSubmitted'
  BY DEF Reached
<1>7. ASSUME NEW i \in DOMAIN gpu'
      PROVE  /\ gpu'[i].id <= lastSubmitted'
             /\ backend # "Metal" \/ gpu'[i].uses # {} => gpu'[i].id > Reached
             /\ backend = "Metal" => gpu'[i].id >= semaphore
             /\ gpu'[i].signals => gpu'[i].id > semaphore
             /\ backend \in {"Vulkan", "CUDA"} => gpu'[i].signals
  <2>1. CASE i \in 1..Len(gpu)
    <3>1. gpu'[i] = gpu[i] /\ i \in DOMAIN gpu
      BY <1>1, <2>1
    <3>2. gpu[i].id <= lastSubmitted'
      BY <1>2, <3>1
    <3>3. QED
      BY <3>1, <3>2 DEF IdsInv
  <2>2. CASE i \in (Len(gpu) + 1)..(Len(gpu) + Len(t))
    <3>1. gpu'[i].id = lastSubmitted' /\ (backend \in {"Vulkan", "CUDA"} => gpu'[i].signals)
      BY <1>5, <2>2
    <3>2. lastSubmitted' > Reached /\ lastSubmitted' >= semaphore /\ lastSubmitted' > semaphore
      BY <1>2, <1>6 DEF Reached
    <3>3. QED
      BY <1>2, <3>1, <3>2
  <2>3. QED
    BY <1>4, <2>1, <2>2
<1>8. ASSUME NEW i \in DOMAIN gpu', NEW j \in DOMAIN gpu', i < j
      PROVE  gpu'[i].id <= gpu'[j].id /\ (gpu'[i].signals => gpu'[i].id < gpu'[j].id)
  <2>1. CASE j \in 1..Len(gpu)
    <3>1. i \in DOMAIN gpu /\ j \in DOMAIN gpu /\ gpu'[i] = gpu[i] /\ gpu'[j] = gpu[j]
      BY <1>1, <1>8, <2>1
    <3>2. QED
      BY <1>8, <3>1 DEF IdsInv
  <2>2. CASE i \in 1..Len(gpu) /\ j \in (Len(gpu) + 1)..(Len(gpu) + Len(t))
    <3>1. gpu'[i] = gpu[i] /\ i \in DOMAIN gpu /\ gpu'[j].id = lastSubmitted'
      BY <1>1, <1>5, <2>2
    <3>2. gpu[i].id < lastSubmitted' /\ gpu[i].id \in Nat
      BY <1>2, <3>1
    <3>3. QED
      BY <1>2, <3>1, <3>2
  <2>3. CASE i \in (Len(gpu) + 1)..(Len(gpu) + Len(t)) /\ j \in (Len(gpu) + 1)..(Len(gpu) + Len(t))
    <3>1. gpu'[i].id = lastSubmitted' /\ gpu'[j].id = lastSubmitted'
      BY <1>5, <2>3
    <3>2. gpu'[i].signals => i = Len(gpu) + Len(t)
      BY <1>5, <2>3
    <3>3. i # Len(gpu) + Len(t)
      BY <1>1, <1>8, <2>3
    <3>4. QED
      BY <1>2, <3>1, <3>2, <3>3
  <2>4. QED
    <3>1. ~(i \in (Len(gpu) + 1)..(Len(gpu) + Len(t)) /\ j \in 1..Len(gpu))
      BY <1>1, <1>8
    <3>2. QED
      BY <1>4, <2>1, <2>2, <2>3, <3>1
<1>9. QED
  BY <1>6, <1>7, <1>8 DEF IdsInv

LEMMA OneMoreID ==
    ASSUME TimelineTyped, TimelineTyped', IdsInv, UNCHANGED <<backend, semaphore, lastFinished>>,
           NEW w \in Submission, gpu' = Append(gpu, w), w.id = lastSubmitted',
           backend \in {"Vulkan", "CUDA"} => w.signals,
           pc' # "send" \/ backend = "CUDA", lastSubmitted' >= lastSubmitted,
           semaphore < lastSubmitted', backend = "CUDA" => lastFinished < lastSubmitted',
           \A i \in DOMAIN gpu : gpu[i].id < lastSubmitted'
    PROVE  IdsInv'
<1>1. <<w>> \in Seq(Submission) /\ DOMAIN <<w>> = {1} /\ <<w>>[1] = w /\ Len(<<w>>) = 1
  OBVIOUS
<1>2. gpu' = gpu \o <<w>>
  BY AppendIsConcat DEF TimelineTyped
<1>3. PICK t \in Seq(Submission) : t = <<w>>
  BY <1>1
<1>4. /\ gpu' = gpu \o t
      /\ \A i \in DOMAIN t :
            /\ t[i].id = lastSubmitted' /\ (t[i].signals => i = Len(t))
            /\ backend \in {"Vulkan", "CUDA"} => t[i].signals
  BY <1>1, <1>2, <1>3
<1>5. QED
  BY <1>4, IdsGrow

(* The oldest submission is done, and may have signalled its ID.           *)
LEMMA OneLessID ==
    ASSUME TimelineTyped, IdsInv, backend # "CUDA", UNCHANGED <<backend, pc, lastSubmitted>>,
           gpu # <<>>, gpu' = Tail(gpu),
           semaphore' = semaphore \/ (gpu[1].signals /\ semaphore' = gpu[1].id)
    PROVE  IdsInv'
<1>1. /\ Len(gpu) \in Nat /\ Len(gpu) >= 1
      /\ DOMAIN gpu = 1..Len(gpu) /\ DOMAIN gpu' = 1..(Len(gpu) - 1)
      /\ \A i \in 1..(Len(gpu) - 1) : gpu'[i] = gpu[i + 1]
  BY GpuShrinks
<1>2. \A i \in DOMAIN gpu' : i + 1 \in DOMAIN gpu /\ 1 < i + 1 /\ gpu'[i] = gpu[i + 1]
  BY <1>1
<1>3. 1 \in DOMAIN gpu /\ \A i \in DOMAIN gpu : gpu[i].id \in Nat
  BY <1>1, IdsTyped
<1>4. semaphore \in Nat /\ lastSubmitted \in Nat
  BY DEF TimelineTyped
<1>5. pc' = "send" /\ backend # "CUDA" => semaphore' < lastSubmitted'
  BY <1>3 DEF IdsInv
<1>6. Reached = semaphore /\ Reached' = semaphore'
  BY DEF Reached
<1>7. ASSUME NEW i \in DOMAIN gpu'
      PROVE  /\ gpu'[i].id <= lastSubmitted'
             /\ pc' = "send" => gpu'[i].id < lastSubmitted'
             /\ backend # "Metal" \/ gpu'[i].uses # {} => gpu'[i].id > semaphore'
             /\ backend = "Metal" => gpu'[i].id >= semaphore'
             /\ gpu'[i].signals => gpu'[i].id > semaphore'
             /\ backend \in {"Vulkan", "CUDA"} => gpu'[i].signals
  <2>1. i + 1 \in DOMAIN gpu /\ 1 < i + 1 /\ gpu'[i] = gpu[i + 1]
    BY <1>2
  <2>2. gpu[1].signals => gpu[1].id < gpu[i + 1].id
    BY <1>3, <2>1 DEF IdsInv
  <2>3. gpu[1].signals /\ semaphore' = gpu[1].id =>
           gpu[i + 1].id > semaphore' /\ gpu[i + 1].id >= semaphore'
    BY <1>3, <2>1, <2>2
  <2>4. semaphore' = semaphore =>
           /\ backend # "Metal" \/ gpu[i + 1].uses # {} => gpu[i + 1].id > semaphore'
           /\ backend = "Metal" => gpu[i + 1].id >= semaphore'
           /\ gpu[i + 1].signals => gpu[i + 1].id > semaphore'
    BY <1>6, <2>1 DEF IdsInv
  <2>5. QED
    BY <2>1, <2>3, <2>4 DEF IdsInv
<1>8. ASSUME NEW i \in DOMAIN gpu', NEW j \in DOMAIN gpu', i < j
      PROVE  gpu'[i].id <= gpu'[j].id /\ (gpu'[i].signals => gpu'[i].id < gpu'[j].id)
  <2>1. /\ i + 1 \in DOMAIN gpu /\ j + 1 \in DOMAIN gpu /\ i + 1 < j + 1
        /\ gpu'[i] = gpu[i + 1] /\ gpu'[j] = gpu[j + 1]
    BY <1>1, <1>2, <1>8
  <2>2. QED
    BY <2>1 DEF IdsInv
<1>9. QED
  BY <1>5, <1>6, <1>7, <1>8 DEF IdsInv

LEMMA IdsNext == ListsTyped /\ RefsTyped /\ TimelineTyped /\ TimelineTyped' /\ IdsInv /\
   EventsInv /\ EndInv /\ [Next]_vars => IdsInv'
<1> SUFFICES ASSUME ListsTyped, RefsTyped, TimelineTyped, TimelineTyped', IdsInv,
   EventsInv, EndInv, [Next]_vars PROVE IdsInv'
  OBVIOUS
<1> USE DEF lists, recording, submitter, timeline, device
<1>1. ASSUME NEW b \in Buffers, NEW r \in Resources, RecordTracked(b, r) PROVE IdsInv'
  <2>1. UNCHANGED <<backend, gpu, semaphore, lastSubmitted, lastFinished, pc>>
    BY <1>1 DEF RecordTracked
  <2>2. QED
    BY <2>1, IdsKept DEF IdsInv, Reached
<1>2. ASSUME NEW b \in Buffers, NEW r \in Resources, RecordRaw(b, r) PROVE IdsInv'
  <2>1. UNCHANGED <<backend, gpu, semaphore, lastSubmitted, lastFinished, pc>>
    BY <1>2 DEF RecordRaw
  <2>2. QED
    BY <2>1, IdsKept DEF IdsInv, Reached
<1>3. ASSUME NEW b \in Buffers, FinishEncoder(b) PROVE IdsInv'
  <2>1. UNCHANGED <<backend, gpu, semaphore, lastSubmitted, lastFinished, pc>>
    BY <1>3 DEF FinishEncoder
  <2>2. QED
    BY <2>1, IdsKept DEF IdsInv, Reached
<1>4. ASSUME NEW b \in Buffers, ReleaseBuffer(b) PROVE IdsInv'
  <2>1. UNCHANGED <<backend, gpu, semaphore, lastSubmitted, lastFinished, pc>>
    BY <1>4 DEF ReleaseBuffer
  <2>2. QED
    BY <2>1, IdsKept DEF IdsInv, Reached
<1>5. ASSUME NEW r \in Resources, ReleaseResource(r) PROVE IdsInv'
  <2>1. UNCHANGED <<backend, gpu, semaphore, lastSubmitted, lastFinished, pc>>
    BY <1>5 DEF ReleaseResource
  <2>2. QED
    BY <2>1, IdsKept DEF IdsInv, Reached
<1>6. ASSUME ReleaseDevice PROVE IdsInv'
  <2>1. UNCHANGED <<backend, gpu, semaphore, lastSubmitted, lastFinished, pc>>
    BY <1>6 DEF ReleaseDevice
  <2>2. QED
    BY <2>1, IdsKept DEF IdsInv, Reached
<1>7. ASSUME NEW r \in Resources, BreakDeviceReference(r) PROVE IdsInv'
  <2>1. UNCHANGED <<backend, gpu, semaphore, lastSubmitted, lastFinished, pc>>
    BY <1>7 DEF BreakDeviceReference
  <2>2. QED
    BY <2>1, IdsKept DEF IdsInv, Reached
<1>8. ASSUME NEW b \in Buffers, CreateEncoder(b), backend = "CUDA" => pool # <<>> PROVE
   IdsInv'
  <2>1. UNCHANGED <<backend, gpu, semaphore, lastSubmitted, lastFinished, pc>>
    BY <1>8 DEF CreateEncoder, PoolAfterTake
  <2>2. QED
    BY <2>1, IdsKept DEF IdsInv, Reached
<1>9. ASSUME NEW b \in Buffers, DropEncoder(b) PROVE IdsInv'
  <2>1. UNCHANGED <<backend, gpu, semaphore, lastSubmitted, lastFinished, pc>>
    BY <1>9 DEF DropEncoder
  <2>2. QED
    BY <2>1, IdsKept DEF IdsInv, Reached
<1>10. ASSUME NEW bs \in SUBSET Buffers, backend # "CUDA", BeginSubmit(bs) PROVE IdsInv'
  <2>1. UNCHANGED <<backend, gpu, semaphore, lastFinished>> /\ lastSubmitted' = lastSubmitted + 1
    BY <1>10 DEF BeginSubmit
  <2>2. QED
    BY <2>1, IdsKept DEF IdsInv, Reached
<1>11. ASSUME backend = "Vulkan", QueueSubmit PROVE IdsInv'
  <2>1. /\ UNCHANGED <<backend, semaphore, lastFinished, lastSubmitted>>
        /\ pc = "send" /\ pc' # "send" /\ backend = "Vulkan"
    BY <1>11 DEF QueueSubmit
  <2>2. CASE gpu' = gpu
    BY <2>1, <2>2, IdsKept
  <2>3. CASE gpu' = Append(gpu, Work(lastSubmitted, sending, TRUE, Default))
    <3>1. PICK x \in Submission : x = Work(lastSubmitted, sending, TRUE, Default)
      BY WorkTyped DEF TimelineTyped, ListsTyped
    <3>2. x.id = lastSubmitted' /\ x.signals /\ lastSubmitted' >= lastSubmitted
      BY <2>1, <3>1 DEF Work, TimelineTyped
    <3>3. semaphore < lastSubmitted' /\ \A i \in DOMAIN gpu : gpu[i].id < lastSubmitted'
      BY <2>1 DEF IdsInv
    <3>4. QED
      BY <2>1, <2>3, <3>1, <3>2, <3>3, OneMoreID
  <2>4. QED
    BY <1>11, <2>2, <2>3 DEF QueueSubmit
<1>12. ASSUME backend = "Vulkan", VulkanWaitOnHost PROVE IdsInv'
  <2>1. /\ UNCHANGED <<backend, gpu, semaphore, lastSubmitted, lastFinished>>
        /\ pc' # "send" \/ backend = "CUDA"
    BY <1>12 DEF VulkanWaitOnHost
  <2>2. QED
    BY <2>1, IdsKept DEF IdsInv, Reached
<1>13. ASSUME backend = "Vulkan", VulkanRetireCommandBuffers PROVE IdsInv'
  <2>1. UNCHANGED <<backend, gpu, semaphore, lastSubmitted>> /\ pc' # "send" /\ backend # "CUDA"
    BY <1>13 DEF VulkanRetireCommandBuffers
  <2>2. QED
    BY <2>1, IdsKept
<1>14. ASSUME backend = "Vulkan", VulkanGpuFinish PROVE IdsInv'
  <2>1. /\ gpu # <<>> /\ gpu' = Tail(gpu) /\ UNCHANGED <<backend, pc, lastSubmitted>>
        /\ backend # "CUDA"
    BY <1>14 DEF VulkanGpuFinish
  <2>2. Head(gpu) = gpu[1] /\ 1 \in DOMAIN gpu
    BY <2>1, GpuFirst
  <2>3. semaphore' = semaphore \/ (gpu[1].signals /\ semaphore' = gpu[1].id)
    BY <1>14, <2>2 DEF VulkanGpuFinish, IdsInv
  <2>4. QED
    BY <2>1, <2>3, OneLessID
<1>15. ASSUME backend = "Vulkan", VulkanDestroyDevice PROVE IdsInv'
  <2>1. gpu' = <<>> /\ ~deviceHeld /\ UNCHANGED pc
    BY <1>15 DEF VulkanDestroyDevice, ShutDown, DeviceReferenced
  <2>2. pc' = "idle"
    BY <2>1 DEF EndInv
  <2>3. QED
    BY <2>1, <2>2 DEF IdsInv
<1>16. ASSUME backend = "D3D12", FailToWaitForFence PROVE IdsInv'
  <2>1. UNCHANGED <<backend, gpu, semaphore, lastFinished>> /\ lastSubmitted' = lastSubmitted + 1
    BY <1>16 DEF FailToWaitForFence
  <2>2. QED
    BY <2>1, IdsKept DEF IdsInv, Reached
<1>17. ASSUME backend = "D3D12", Execute PROVE IdsInv'
  <2>1. /\ UNCHANGED <<backend, semaphore, lastFinished, lastSubmitted>>
        /\ pc = "send" /\ pc' # "send" /\ backend = "D3D12"
    BY <1>17 DEF Execute
  <2>2. PICK s \in BOOLEAN : gpu' = Append(gpu, Work(lastSubmitted, sending, s, Default))
    BY <1>17 DEF Execute
  <2>3. PICK x \in Submission : x = Work(lastSubmitted, sending, s, Default)
    BY WorkTyped DEF TimelineTyped, ListsTyped
  <2>4. x.id = lastSubmitted' /\ lastSubmitted' >= lastSubmitted
    BY <2>1, <2>3 DEF Work, TimelineTyped
  <2>5. semaphore < lastSubmitted' /\ \A i \in DOMAIN gpu : gpu[i].id < lastSubmitted'
    BY <2>1 DEF IdsInv
  <2>6. QED
    BY <2>1, <2>2, <2>3, <2>4, <2>5, OneMoreID
<1>18. ASSUME backend = "D3D12", BeginWait PROVE IdsInv'
  <2>1. /\ UNCHANGED <<backend, semaphore, lastFinished>> /\ lastSubmitted' = lastSubmitted + 1
        /\ pc' # "send" /\ backend = "D3D12"
    BY <1>18 DEF BeginWait
  <2>2. CASE gpu' = gpu
    BY <2>1, <2>2, IdsKept
  <2>3. CASE gpu' = Append(gpu, Work(lastSubmitted + 1, {}, TRUE, Default))
    <3>1. PICK x \in Submission : x = Work(lastSubmitted + 1, {}, TRUE, Default)
      <4>1. lastSubmitted + 1 \in Nat
        BY DEF TimelineTyped
      <4>2. QED
        BY <4>1, SignalTyped
    <3>2. x.id = lastSubmitted' /\ lastSubmitted' >= lastSubmitted /\ semaphore < lastSubmitted'
      BY <2>1, <3>1 DEF Work, TimelineTyped
    <3>3. \A i \in DOMAIN gpu : gpu[i].id < lastSubmitted'
      BY <2>1, IdsTyped DEF IdsInv, TimelineTyped
    <3>4. QED
      BY <2>1, <2>3, <3>1, <3>2, <3>3, OneMoreID
  <2>4. QED
    BY <1>18, <2>2, <2>3 DEF BeginWait
<1>19. ASSUME backend = "D3D12", EndWait PROVE IdsInv'
  <2>1. /\ UNCHANGED <<backend, gpu, semaphore, lastSubmitted, lastFinished>>
        /\ pc' # "send" \/ backend = "CUDA"
    BY <1>19 DEF EndWait
  <2>2. QED
    BY <2>1, IdsKept DEF IdsInv, Reached
<1>20. ASSUME backend = "D3D12", D3D12RetireCommandBuffers PROVE IdsInv'
  <2>1. UNCHANGED <<backend, gpu, semaphore, lastSubmitted>> /\ pc' # "send" /\ backend # "CUDA"
    BY <1>20 DEF D3D12RetireCommandBuffers
  <2>2. QED
    BY <2>1, IdsKept
<1>21. ASSUME backend = "D3D12", D3D12GpuFinish PROVE IdsInv'
  <2>1. /\ gpu # <<>> /\ gpu' = Tail(gpu) /\ UNCHANGED <<backend, pc, lastSubmitted>>
        /\ backend # "CUDA"
    BY <1>21 DEF D3D12GpuFinish
  <2>2. Head(gpu) = gpu[1] /\ 1 \in DOMAIN gpu
    BY <2>1, GpuFirst
  <2>3. semaphore' = semaphore \/ (gpu[1].signals /\ semaphore' = gpu[1].id)
    BY <1>21, <2>2 DEF D3D12GpuFinish, IdsInv
  <2>4. QED
    BY <2>1, <2>3, OneLessID
<1>22. ASSUME backend = "D3D12", D3D12DestroyDevice PROVE IdsInv'
  <2>1. gpu' = <<>> /\ ~deviceHeld /\ UNCHANGED pc
    BY <1>22 DEF D3D12DestroyDevice, ShutDown, DeviceReferenced
  <2>2. pc' = "idle"
    BY <2>1 DEF EndInv
  <2>3. QED
    BY <2>1, <2>2 DEF IdsInv
<1>23. ASSUME backend = "Metal", Commit PROVE IdsInv'
  <2>1. /\ UNCHANGED <<backend, semaphore, lastFinished, lastSubmitted>>
        /\ pc = "send" /\ pc' # "send" /\ backend = "Metal"
    BY <1>23 DEF Commit
  <2>2. CASE gpu' = gpu
    BY <2>1, <2>2, IdsKept
  <2>3. CASE gpu' = gpu \o Committed(sending)
    <3>1. sending \in SUBSET Buffers
      BY DEF ListsTyped
    <3>2. /\ Committed(sending) \in Seq(Submission)
          /\ \A i \in DOMAIN Committed(sending) :
                \E c \in SUBSET sending, b \in BOOLEAN :
                   /\ Committed(sending)[i] = Work(lastSubmitted, c, b, Default)
                   /\ b <=> i = Len(Committed(sending))
      BY <3>1, CommittedAre
    <3>3. PICK t \in Seq(Submission) : t = Committed(sending)
      BY <3>2
    <3>4. \A i \in DOMAIN t : t[i].id = lastSubmitted' /\ (t[i].signals => i = Len(t))
      BY <2>1, <3>2, <3>3 DEF Work
    <3>5. semaphore < lastSubmitted' /\ \A i \in DOMAIN gpu : gpu[i].id < lastSubmitted'
      BY <2>1 DEF IdsInv
    <3>6. lastSubmitted' >= lastSubmitted
      BY <2>1 DEF TimelineTyped
    <3>7. QED
      BY <2>1, <2>3, <3>3, <3>4, <3>5, <3>6, IdsGrow
  <2>4. QED
    BY <1>23, <2>2, <2>3 DEF Commit
<1>24. ASSUME backend = "Metal", MetalWaitOnHost PROVE IdsInv'
  <2>1. /\ UNCHANGED <<backend, gpu, semaphore, lastSubmitted, lastFinished>>
        /\ pc' # "send" \/ backend = "CUDA"
    BY <1>24 DEF MetalWaitOnHost
  <2>2. QED
    BY <2>1, IdsKept DEF IdsInv, Reached
<1>25. ASSUME backend = "Metal", MetalRetireCommandBuffers PROVE IdsInv'
  <2>1. UNCHANGED <<backend, gpu, semaphore, lastSubmitted>> /\ pc' # "send" /\ backend # "CUDA"
    BY <1>25 DEF MetalRetireCommandBuffers
  <2>2. QED
    BY <2>1, IdsKept
<1>26. ASSUME backend = "Metal", GpuSignal PROVE IdsInv'
  <2>1. /\ gpu # <<>> /\ gpu' = [gpu EXCEPT ![1].signals = FALSE, ![1].uses = {}]
        /\ UNCHANGED <<backend, pc, lastSubmitted>> /\ backend = "Metal"
        /\ Head(gpu).signals /\ semaphore' = Head(gpu).id
    BY <1>26 DEF GpuSignal
  <2>2. /\ gpu \in Seq(Submission) /\ Head(gpu) = gpu[1] /\ gpu[1] \in Submission
        /\ Len(gpu) \in Nat /\ 1 \in 1..Len(gpu) /\ DOMAIN gpu = 1..Len(gpu)
    BY <2>1, GpuFirst
  <2>3. /\ DOMAIN gpu' = DOMAIN gpu
        /\ \A i \in DOMAIN gpu : i # 1 => gpu'[i] = gpu[i]
        /\ gpu'[1].id = gpu[1].id /\ gpu'[1].uses = {} /\ gpu'[1].signals = FALSE
    BY <2>1, <2>2 DEF Submission
  <2>4. \A i \in DOMAIN gpu : gpu[i].id \in Nat /\ (i # 1 => 1 < i)
    BY <2>2, IdsTyped
  <2>5. semaphore' = gpu[1].id /\ gpu[1].signals /\ 1 \in DOMAIN gpu
    BY <2>1, <2>2
  <2>6. \A i \in DOMAIN gpu : i # 1 => gpu[i].id > semaphore' /\ gpu[i].id >= semaphore'
    <3>1. SUFFICES ASSUME NEW i \in DOMAIN gpu, i # 1
                   PROVE  gpu[i].id > semaphore' /\ gpu[i].id >= semaphore'
      OBVIOUS
    <3>2. gpu[1].id < gpu[i].id
      BY <2>4, <2>5, <3>1 DEF IdsInv
    <3>3. QED
      BY <2>4, <2>5, <3>1, <3>2
  <2>7. pc' = "send" /\ backend' # "CUDA" => semaphore' < lastSubmitted'
    BY <2>1, <2>5 DEF IdsInv
  <2>8. Reached' = semaphore'
    BY <2>1 DEF Reached
  <2>9. ASSUME NEW i \in DOMAIN gpu'
        PROVE  /\ gpu'[i].id <= lastSubmitted'
               /\ pc' = "send" => gpu'[i].id < lastSubmitted'
               /\ gpu'[i].uses # {} => gpu'[i].id > semaphore'
               /\ gpu'[i].id >= semaphore'
               /\ gpu'[i].signals => gpu'[i].id > semaphore'
    <3>1. CASE i = 1
      <4>1. gpu[1].id <= lastSubmitted /\ (pc = "send" => gpu[1].id < lastSubmitted)
        BY <2>1, <2>5 DEF IdsInv
      <4>2. gpu[1].id >= gpu[1].id
        BY <2>4, <2>5
      <4>3. QED
        BY <2>1, <2>3, <2>5, <3>1, <4>1, <4>2
    <3>2. CASE i # 1
      <4>1. gpu'[i] = gpu[i] /\ i \in DOMAIN gpu
        BY <2>3, <3>2
      <4>2. gpu[i].id <= lastSubmitted /\ (pc = "send" => gpu[i].id < lastSubmitted)
        BY <2>1, <4>1 DEF IdsInv
      <4>3. QED
        BY <2>1, <2>6, <3>2, <4>1, <4>2
    <3>3. QED
      BY <3>1, <3>2
  <2>10. ASSUME NEW i \in DOMAIN gpu', NEW j \in DOMAIN gpu', i < j
         PROVE  gpu'[i].id <= gpu'[j].id /\ (gpu'[i].signals => gpu'[i].id < gpu'[j].id)
    <3>1. i \in DOMAIN gpu /\ j \in DOMAIN gpu /\ j # 1
      BY <2>2, <2>3, <2>10
    <3>2. gpu'[i].id = gpu[i].id /\ gpu'[j].id = gpu[j].id /\ (gpu'[i].signals => gpu[i].signals)
      BY <2>3, <3>1
    <3>3. gpu[i].id <= gpu[j].id /\ (gpu[i].signals => gpu[i].id < gpu[j].id)
      BY <2>10, <3>1 DEF IdsInv
    <3>4. QED
      BY <3>2, <3>3
  <2>11. QED
    BY <2>1, <2>7, <2>8, <2>9, <2>10 DEF IdsInv
<1>27. ASSUME backend = "Metal", GpuComplete PROVE IdsInv'
  <2>1. /\ gpu # <<>> /\ gpu' = Tail(gpu) /\ UNCHANGED <<backend, pc, lastSubmitted, semaphore>>
        /\ backend # "CUDA"
    BY <1>27 DEF GpuComplete
  <2>2. QED
    BY <2>1, OneLessID
<1>28. ASSUME backend = "Metal", MetalDestroyDevice PROVE IdsInv'
  <2>1. gpu' = <<>> /\ ~deviceHeld /\ UNCHANGED pc
    BY <1>28 DEF MetalDestroyDevice, ShutDown, DeviceReferenced
  <2>2. pc' = "idle"
    BY <2>1 DEF EndInv
  <2>3. QED
    BY <2>1, <2>2 DEF IdsInv
<1>29. ASSUME NEW b \in Buffers, backend = "CUDA", CreateEncoderFromEmptyPool(b) PROVE
   IdsInv'
  <2>1. /\ UNCHANGED <<backend, gpu, semaphore, lastSubmitted>> /\ backend = "CUDA"
        /\ lastFinished' = FinishedNow
    BY <1>29 DEF CreateEncoderFromEmptyPool, Retire
  <2>2. \A i \in DOMAIN gpu : gpu[i].id > lastFinished'
    BY <2>1, NothingFinishedOnGpu
  <2>3. QED
    BY <2>1, <2>2, IdsKept
<1>30. ASSUME NEW bs \in SUBSET Buffers, NEW s \in Streams \cup {Default}, backend =
   "CUDA", BeginSubmitTo(bs, s) PROVE IdsInv'
  <2>1. /\ UNCHANGED <<backend, gpu, semaphore, lastSubmitted, lastFinished>>
        /\ pc' # "send" \/ backend = "CUDA"
    BY <1>30 DEF BeginSubmitTo
  <2>2. QED
    BY <2>1, IdsKept DEF IdsInv, Reached
<1>31. ASSUME NEW b \in Buffers, backend = "CUDA", ExecuteBuffer(b) PROVE IdsInv'
  <2>1. /\ UNCHANGED <<backend, semaphore, lastFinished>> /\ lastSubmitted' = lastSubmitted + 1
        /\ backend = "CUDA" /\ gpu' = Append(gpu, Work(lastSubmitted + 1, {b}, TRUE, stream))
    BY <1>31 DEF ExecuteBuffer
  <2>2. PICK x \in Submission : x = Work(lastSubmitted + 1, {b}, TRUE, stream)
    <3>1. lastSubmitted + 1 \in Nat
      BY DEF TimelineTyped
    <3>2. b \in Buffers /\ TRUE \in BOOLEAN /\ stream \in Streams \cup {Default}
      BY DEF TimelineTyped
    <3>3. QED
      BY <3>1, <3>2, OneTyped
  <2>3. /\ x.id = lastSubmitted' /\ x.signals /\ lastSubmitted' >= lastSubmitted
        /\ semaphore < lastSubmitted' /\ lastFinished < lastSubmitted'
    BY <2>1, <2>2 DEF Work, TimelineTyped
  <2>4. \A i \in DOMAIN gpu : gpu[i].id < lastSubmitted'
    BY <2>1, IdsTyped DEF IdsInv, TimelineTyped
  <2>5. QED
    BY <2>1, <2>2, <2>3, <2>4, OneMoreID
<1>32. ASSUME backend = "CUDA", EndSubmit PROVE IdsInv'
  <2>1. /\ UNCHANGED <<backend, gpu, semaphore, lastSubmitted, lastFinished>>
        /\ pc' # "send" \/ backend = "CUDA"
    BY <1>32 DEF EndSubmit
  <2>2. QED
    BY <2>1, IdsKept DEF IdsInv, Reached
<1>33. ASSUME backend = "CUDA", CUDARetireCommandBuffers PROVE IdsInv'
  <2>1. /\ UNCHANGED <<backend, gpu, semaphore, lastSubmitted>> /\ backend = "CUDA"
        /\ lastFinished' = FinishedNow
    BY <1>33 DEF CUDARetireCommandBuffers, Retire
  <2>2. \A i \in DOMAIN gpu : gpu[i].id > lastFinished'
    BY <2>1, NothingFinishedOnGpu
  <2>3. QED
    BY <2>1, <2>2, IdsKept
<1>34. ASSUME backend = "CUDA", CUDAWaitOnHost PROVE IdsInv'
  <2>1. UNCHANGED <<backend, gpu, semaphore, lastSubmitted>> /\ backend = "CUDA" /\ gpu = <<>>
    BY <1>34 DEF CUDAWaitOnHost
  <2>2. QED
    BY <2>1, IdsKept
<1>35. ASSUME NEW i \in DOMAIN gpu, backend = "CUDA", CUDAGpuFinish(i) PROVE IdsInv'
  <2>1. /\ gpu \in Seq(Submission) /\ gpu' = RemoveAt(gpu, i) /\ i \in 1..Len(gpu)
        /\ UNCHANGED <<backend, semaphore, lastSubmitted, lastFinished, pc>>
    BY <1>35, LenProperties DEF CUDAGpuFinish, TimelineTyped
  <2>2. /\ DOMAIN gpu = 1..Len(gpu) /\ Len(gpu) \in Nat
        /\ DOMAIN gpu' = 1..(Len(gpu) - 1)
        /\ \A j \in 1..(Len(gpu) - 1) : gpu'[j] = IF j < i THEN gpu[j] ELSE gpu[j + 1]
    BY <2>1, RemovedAt
  <2>3. \A j \in DOMAIN gpu' : \E k \in DOMAIN gpu : gpu'[j] = gpu[k]
    BY <2>2
  <2>4. \A j, k \in DOMAIN gpu' : j < k =>
           \E l, m \in DOMAIN gpu : l < m /\ gpu'[j] = gpu[l] /\ gpu'[k] = gpu[m]
    <3>1. SUFFICES ASSUME NEW j \in DOMAIN gpu', NEW k \in DOMAIN gpu', j < k
                   PROVE  \E l, m \in DOMAIN gpu : l < m /\ gpu'[j] = gpu[l] /\ gpu'[k] = gpu[m]
      OBVIOUS
    <3>2. CASE k < i
      BY <2>2, <3>1, <3>2
    <3>3. CASE ~(k < i) /\ j < i
      <4>1. j \in DOMAIN gpu /\ k + 1 \in DOMAIN gpu /\ j < k + 1
        BY <2>2, <3>1
      <4>2. gpu'[j] = gpu[j] /\ gpu'[k] = gpu[k + 1]
        BY <2>2, <3>1, <3>3
      <4>3. QED
        BY <4>1, <4>2
    <3>4. CASE ~(j < i)
      <4>1. j + 1 \in DOMAIN gpu /\ k + 1 \in DOMAIN gpu /\ j + 1 < k + 1 /\ ~(k < i)
        BY <2>1, <2>2, <3>1, <3>4
      <4>2. gpu'[j] = gpu[j + 1] /\ gpu'[k] = gpu[k + 1]
        BY <2>2, <3>1, <3>4, <4>1
      <4>3. QED
        BY <4>1, <4>2
    <3>5. QED
      BY <3>2, <3>3, <3>4
  <2>5. Reached' = Reached
    BY <2>1 DEF Reached
  <2>6. QED
    BY <2>1, <2>3, <2>4, <2>5 DEF IdsInv
<1>36. ASSUME backend = "CUDA", CUDADestroyDevice PROVE IdsInv'
  <2>1. gpu' = <<>> /\ ~deviceHeld /\ UNCHANGED pc
    BY <1>36 DEF CUDADestroyDevice, ShutDown, DeviceReferenced
  <2>2. pc' = "idle"
    BY <2>1 DEF EndInv
  <2>3. QED
    BY <2>1, <2>2 DEF IdsInv
<1>37. CASE UNCHANGED vars
  <2>1. UNCHANGED <<backend, gpu, semaphore, lastSubmitted, lastFinished, pc>>
    BY <1>37 DEF vars
  <2>2. QED
    BY <2>1, IdsKept DEF IdsInv, Reached
<1>38. QED
  BY <1>1, <1>2, <1>3, <1>4, <1>5, <1>6, <1>7, <1>8, <1>9, <1>10, <1>11, <1>12, <1>13,
     <1>14, <1>15, <1>16, <1>17, <1>18, <1>19, <1>20, <1>21, <1>22, <1>23, <1>24, <1>25,
     <1>26, <1>27, <1>28, <1>29, <1>30, <1>31, <1>32, <1>33, <1>34, <1>35, <1>36, <1>37,
     CommandQueueAssumption DEF Next, ClientStep, SubmitterStep, GpuStep, DestroyDevice,
     VulkanClientStep, VulkanSubmitterStep, D3D12ClientStep, D3D12SubmitterStep,
     MetalClientStep, MetalSubmitterStep, MetalGpuStep, CUDAClientStep,
     CUDASubmitterStep, CUDAGpuStep


-----------------------------------------------------------------------------
(* The events of CUDA.                                                     *)

LEMMA EventsKept ==
    ASSUME EventsInv, UNCHANGED <<backend, gpu, events, semaphore>>,
           backend = "CUDA" => pc' \in {"idle", "send"}
    PROVE  EventsInv'
BY DEF EventsInv, OnGpu

LEMMA EventsOfOthers ==
    ASSUME backend # "CUDA", backend' = backend
    PROVE  EventsInv'
BY DEF EventsInv

LEMMA EventsAre ==
    ASSUME TimelineTyped
    PROVE  /\ DOMAIN events = 1..Len(events) /\ Len(events) \in Nat
           /\ \A k \in DOMAIN events : events[k] \in Nat /\ events[k] <= lastSubmitted
<1>1. DOMAIN events = 1..Len(events) /\ Len(events) \in Nat
  BY LenProperties DEF TimelineTyped
<1>2. \A k \in 1..Len(events) : events[k] \in 0..lastSubmitted
  BY ElementOfSeq DEF TimelineTyped
<1>3. QED
  BY <1>1, <1>2 DEF TimelineTyped

(* The events of what is done leave the front of the list.                 *)
LEMMA EventsLeave ==
    ASSUME TimelineTyped, EventsInv, UNCHANGED <<backend, pc, gpu, semaphore>>, DropEvents
    PROVE  EventsInv'
<1>1. /\ DOMAIN events = 1..Len(events) /\ Len(events) \in Nat
      /\ \A k \in DOMAIN events : events[k] \in Nat
  BY EventsAre
<1>2. PICK n \in 0..Len(events) :
         /\ \A k \in 1..n : ~OnGpu(events[k])
         /\ DOMAIN events' = 1..(Len(events) - n)
         /\ \A k \in DOMAIN events' : events'[k] = events[n + k]
  BY EventsComplete, EventsDropped
<1>3. \A k \in DOMAIN events' : n + k \in DOMAIN events /\ events'[k] = events[n + k]
  BY <1>1, <1>2
<1>4. \A id : OnGpu(id)' <=> OnGpu(id)
  BY DEF OnGpu
<1>5. SUFFICES ASSUME backend = "CUDA"
               PROVE  /\ \A k, l \in DOMAIN events' : k < l => events'[k] < events'[l]
                      /\ \A i \in DOMAIN gpu :
                            gpu[i].stream # Default =>
                               \E k \in DOMAIN events' : events'[k] = gpu[i].id
                      /\ \A i \in DOMAIN gpu, k \in DOMAIN events' :
                            gpu[i].stream = Default /\ gpu[i].id < events'[k] => OnGpu(events'[k])
  BY <1>4 DEF EventsInv
<1>6. ASSUME NEW k \in DOMAIN events', NEW l \in DOMAIN events', k < l
      PROVE  events'[k] < events'[l]
  <2>1. n + k < n + l
    BY <1>1, <1>2, <1>6
  <2>2. QED
    BY <1>3, <1>5, <2>1 DEF EventsInv
<1>7. ASSUME NEW i \in DOMAIN gpu, gpu[i].stream # Default
      PROVE  \E k \in DOMAIN events' : events'[k] = gpu[i].id
  <2>1. PICK k \in DOMAIN events : events[k] = gpu[i].id
    BY <1>5, <1>7 DEF EventsInv
  <2>2. k \notin 1..n
    BY <1>2, <2>1 DEF OnGpu
  <2>3. k - n \in 1..(Len(events) - n) /\ n + (k - n) = k
    BY <1>1, <1>2, <2>2
  <2>4. k - n \in DOMAIN events' /\ events'[k - n] = events[k]
    BY <1>2, <2>3
  <2>5. QED
    BY <2>1, <2>4
<1>8. ASSUME NEW i \in DOMAIN gpu, NEW k \in DOMAIN events',
             gpu[i].stream = Default, gpu[i].id < events'[k]
      PROVE  OnGpu(events'[k])
  BY <1>3, <1>5, <1>8 DEF EventsInv
<1>9. QED
  BY <1>6, <1>7, <1>8

(* A command buffer is sent, with an event behind it or without.           *)
LEMMA EventsGrow ==
    ASSUME ListsTyped, RefsTyped, TimelineTyped, EventsInv, backend = "CUDA",
           NEW b \in Buffers, ExecuteBuffer(b)
    PROVE  EventsInv'
<1> DEFINE id == lastSubmitted + 1
           Sends(e) == \E i \in DOMAIN gpu' : gpu'[i].id = e
<1>1. PICK x \in Submission : x = Work(id, {b}, TRUE, stream)
  <2>1. id \in Nat /\ b \in Buffers /\ TRUE \in BOOLEAN /\ stream \in Streams \cup {Default}
    BY DEF TimelineTyped
  <2>2. QED
    BY <2>1, OneTyped
<1>2. x.id = id /\ x.stream = stream
  BY <1>1 DEF Work
<1>3. gpu' = Append(gpu, x) /\ UNCHANGED <<backend, pc, semaphore>>
  BY <1>1 DEF ExecuteBuffer, device
<1>4. /\ Len(gpu) \in Nat /\ DOMAIN gpu = 1..Len(gpu) /\ DOMAIN gpu' = 1..(Len(gpu) + 1)
      /\ \A i \in 1..Len(gpu) : gpu'[i] = gpu[i]
      /\ gpu'[Len(gpu) + 1] = x
  BY <1>3, GpuGrows
<1>5. /\ events \in Seq(Nat) /\ DOMAIN events = 1..Len(events) /\ Len(events) \in Nat
      /\ \A k \in DOMAIN events : events[k] \in Nat /\ events[k] <= lastSubmitted
  <2>1. \A k \in 1..Len(events) : events[k] \in Nat
    BY EventsAre
  <2>2. QED
    BY <2>1, EventsAre DEF TimelineTyped
<1>6. lastSubmitted \in Nat
  BY DEF TimelineTyped
<1>7. id \in Nat
  BY <1>6
<1>8. \/ events' = events /\ stream = Default
      \/ events' = Append(events, id)
  BY DEF ExecuteBuffer
<1>9. \A k \in DOMAIN events : events[k] < id
  BY <1>5, <1>6
<1> HIDE DEF id
<1>10. /\ DOMAIN events' = 1..Len(events')
       /\ Len(events') = Len(events) \/ (Len(events') = Len(events) + 1 /\ events'[Len(events) + 1] = id)
       /\ \A k \in 1..Len(events) : k \in DOMAIN events' /\ events'[k] = events[k]
       /\ stream # Default => Len(events') = Len(events) + 1
  <2>1. CASE events' = events /\ stream = Default
    BY <1>5, <2>1
  <2>2. CASE events' = Append(events, id)
    <3>1. /\ events' \in Seq(Nat) /\ Len(events') = Len(events) + 1
          /\ \A k \in 1..Len(events) : events'[k] = events[k]
          /\ events'[Len(events) + 1] = id
      BY <1>5, <1>7, <2>2, AppendProperties
    <3>2. DOMAIN events' = 1..Len(events')
      BY <3>1, LenProperties
    <3>3. QED
      BY <1>5, <3>1, <3>2
  <2>3. QED
    BY <1>8, <2>1, <2>2
<1>11. ASSUME NEW k \in DOMAIN events'
       PROVE  \/ k \in DOMAIN events /\ events'[k] = events[k]
              \/ events'[k] = id /\ k = Len(events) + 1
  <2>1. CASE k \in DOMAIN events
    BY <1>5, <1>10, <2>1
  <2>2. CASE k \notin DOMAIN events
    <3>1. k \in 1..Len(events') /\ k \notin 1..Len(events) /\ Len(events) \in Nat
      BY <1>5, <1>10, <2>2
    <3>2. Len(events') # Len(events)
      BY <3>1
    <3>3. Len(events') = Len(events) + 1 /\ events'[Len(events) + 1] = id
      BY <1>10, <3>2
    <3>4. k = Len(events) + 1
      BY <3>1, <3>3
    <3>5. QED
      BY <3>3, <3>4
  <2>3. QED
    BY <2>1, <2>2
<1>12. /\ Sends(id)
       /\ \A e : OnGpu(e) => Sends(e)
  <2>1. Len(gpu) + 1 \in DOMAIN gpu' /\ gpu'[Len(gpu) + 1].id = id
    BY <1>2, <1>4
  <2>2. \A i \in DOMAIN gpu : i \in DOMAIN gpu' /\ gpu'[i].id = gpu[i].id
    BY <1>4
  <2>3. QED
    BY <2>1, <2>2 DEF OnGpu
<1>13. ASSUME NEW k \in DOMAIN events', NEW l \in DOMAIN events', k < l
       PROVE  events'[k] < events'[l]
  <2>1. k \in DOMAIN events /\ events'[k] = events[k]
    <3>1. k # Len(events) + 1
      <4>1. k \in 1..Len(events') /\ l \in 1..Len(events') /\ Len(events) \in Nat
        BY <1>5, <1>10, <1>13
      <4>2. Len(events') = Len(events) \/ Len(events') = Len(events) + 1
        BY <1>10
      <4>3. QED
        BY ONLY <1>13, <4>1, <4>2
    <3>2. QED
      BY <1>11, <3>1
  <2>2. CASE l \in DOMAIN events /\ events'[l] = events[l]
    BY <1>13, <2>1, <2>2 DEF EventsInv
  <2>3. CASE events'[l] = id
    BY <1>9, <2>1, <2>3
  <2>4. QED
    BY <1>11, <2>2, <2>3
<1>14. ASSUME NEW i \in DOMAIN gpu', gpu'[i].stream # Default
       PROVE  \E k \in DOMAIN events' : events'[k] = gpu'[i].id
  <2>1. CASE i \in 1..Len(gpu)
    <3>1. i \in DOMAIN gpu /\ gpu'[i] = gpu[i]
      BY <1>4, <2>1
    <3>2. PICK k \in DOMAIN events : events[k] = gpu[i].id
      BY <1>14, <3>1 DEF EventsInv
    <3>3. k \in DOMAIN events' /\ events'[k] = events[k]
      BY <1>5, <1>10
    <3>4. QED
      BY <3>1, <3>2, <3>3
  <2>2. CASE i = Len(gpu) + 1
    <3>1. gpu'[i].id = id /\ stream # Default
      BY <1>2, <1>4, <1>14, <2>2
    <3>2. Len(events') = Len(events) + 1 /\ Len(events) \in Nat
      BY <1>5, <1>10, <3>1
    <3>3. Len(events) + 1 \in DOMAIN events' /\ events'[Len(events) + 1] = id
      BY <1>10, <3>2
    <3>4. QED
      BY <3>1, <3>3
  <2>3. QED
    BY <1>4, <2>1, <2>2
<1>15. ASSUME NEW i \in DOMAIN gpu', NEW k \in DOMAIN events',
              gpu'[i].stream = Default, gpu'[i].id < events'[k]
       PROVE  Sends(events'[k])
  <2>1. CASE events'[k] = id
    BY <1>12, <2>1
  <2>2. CASE k \in DOMAIN events /\ events'[k] = events[k]
    <3>1. CASE i \in 1..Len(gpu)
      <4>1. i \in DOMAIN gpu /\ gpu'[i] = gpu[i]
        BY <1>4, <3>1
      <4>2. OnGpu(events[k])
        BY <1>15, <2>2, <4>1 DEF EventsInv
      <4>3. QED
        BY <1>12, <2>2, <4>2
    <3>2. CASE i = Len(gpu) + 1
      <4>1. gpu'[i].id = id
        BY <1>2, <1>4, <3>2
      <4>2. events[k] < id /\ events[k] \in Nat
        BY <1>5, <1>9, <2>2
      <4>3. QED
        BY <1>7, <1>15, <2>2, <4>1, <4>2
    <3>3. QED
      BY <1>4, <3>1, <3>2
  <2>3. QED
    BY <1>11, <2>1, <2>2
<1>16. pc' \in {"idle", "send"} /\ semaphore' = 0
  BY <1>3 DEF EventsInv
<1>17. QED
  BY <1>13, <1>14, <1>15, <1>16 DEF EventsInv, OnGpu

(* Where streams block, work leaves the default stream before anything     *)
(* that was sent after it.                                                 *)
LEMMA EventsInOrder ==
    ASSUME Blocking, TimelineTyped, IdsInv, EventsInv, backend = "CUDA",
           NEW i \in DOMAIN gpu, CUDAGpuFinish(i)
    PROVE  EventsInv'
<1>1. gpu \in Seq(Submission) /\ gpu' = RemoveAt(gpu, i) /\ i \in 1..Len(gpu)
  BY LenProperties DEF CUDAGpuFinish, TimelineTyped
<1>2. UNCHANGED <<backend, pc, semaphore, events>>
  BY DEF CUDAGpuFinish, submitter, device
<1>3. /\ DOMAIN gpu = 1..Len(gpu) /\ Len(gpu) \in Nat /\ DOMAIN gpu' = 1..(Len(gpu) - 1)
      /\ \A j \in DOMAIN gpu' : gpu'[j] = IF j < i THEN gpu[j] ELSE gpu[j + 1]
  BY <1>1, RemovedAt
<1>4. \A j \in DOMAIN gpu' : \E m \in DOMAIN gpu : m # i /\ gpu'[j] = gpu[m]
  <2>1. SUFFICES ASSUME NEW j \in DOMAIN gpu'
                 PROVE  \E m \in DOMAIN gpu : m # i /\ gpu'[j] = gpu[m]
    OBVIOUS
  <2>2. CASE j < i
    BY <1>1, <1>3, <2>2
  <2>3. CASE ~(j < i)
    <3>1. j + 1 \in DOMAIN gpu /\ j + 1 # i
      BY <1>1, <1>3, <2>3
    <3>2. QED
      BY <1>3, <2>3, <3>1
  <2>4. QED
    BY <2>2, <2>3
<1>5. \A m \in DOMAIN gpu : m # i => \E j \in DOMAIN gpu' : gpu'[j] = gpu[m]
  <2>1. SUFFICES ASSUME NEW m \in DOMAIN gpu, m # i
                 PROVE  \E j \in DOMAIN gpu' : gpu'[j] = gpu[m]
    OBVIOUS
  <2>2. CASE m < i
    BY <1>1, <1>3, <2>2
  <2>3. CASE ~(m < i)
    <3>1. m - 1 \in DOMAIN gpu' /\ ~(m - 1 < i) /\ (m - 1) + 1 = m
      BY <1>1, <1>3, <2>1, <2>3
    <3>2. QED
      BY <1>3, <3>1
  <2>4. QED
    BY <2>2, <2>3
<1>6. StreamsBlock
  <2>1. "CUDA" \in Backends
    BY DEF TimelineTyped
  <2>2. QED
    BY <2>1 DEF Blocking
<1>7. \A m \in 1..(i - 1) : gpu[m].stream # Default
  BY <1>6 DEF CUDAGpuFinish, InOrder
<1>8. ASSUME NEW j \in DOMAIN gpu', gpu'[j].stream # Default
      PROVE  \E k \in DOMAIN events' : events'[k] = gpu'[j].id
  BY <1>2, <1>4, <1>8 DEF EventsInv
<1>9. ASSUME NEW j \in DOMAIN gpu', NEW k \in DOMAIN events',
             gpu'[j].stream = Default, gpu'[j].id < events'[k]
      PROVE  \E l \in DOMAIN gpu' : gpu'[l].id = events'[k]
  <2>1. PICK m \in DOMAIN gpu : m # i /\ gpu'[j] = gpu[m]
    BY <1>4
  <2>2. k \in DOMAIN events /\ events'[k] = events[k] /\ gpu[m].stream = Default /\ gpu[m].id < events[k]
    BY <1>2, <1>9, <2>1
  <2>3. PICK n \in DOMAIN gpu : gpu[n].id = events[k]
    BY <2>2 DEF EventsInv, OnGpu
  <2>4. ~(m < i)
    <3>1. m < i => m \in 1..(i - 1)
      BY <1>1, <1>3
    <3>2. QED
      BY <1>7, <2>2, <3>1
  <2>5. n # i
    <3>1. SUFFICES ASSUME n = i PROVE FALSE
      OBVIOUS
    <3>2. i < m
      BY <1>1, <1>3, <2>1, <2>4
    <3>3. gpu[i].id <= gpu[m].id
      BY <3>2 DEF IdsInv
    <3>4. gpu[i].id \in Nat /\ gpu[m].id \in Nat
      BY IdsTyped
    <3>5. QED
      BY <2>2, <2>3, <3>1, <3>3, <3>4
  <2>6. PICK l \in DOMAIN gpu' : gpu'[l] = gpu[n]
    BY <1>5, <2>5
  <2>7. QED
    BY <2>2, <2>3, <2>6
<1>10. QED
  BY <1>2, <1>8, <1>9 DEF EventsInv, OnGpu

LEMMA EventsNext == Blocking /\ ListsTyped /\ RefsTyped /\ TimelineTyped /\ IdsInv /\
   EventsInv /\ [Next]_vars => EventsInv'
<1> SUFFICES ASSUME Blocking, ListsTyped, RefsTyped, TimelineTyped, IdsInv, EventsInv,
   [Next]_vars PROVE EventsInv'
  OBVIOUS
<1> USE DEF lists, recording, submitter, timeline, device
<1>1. ASSUME NEW b \in Buffers, NEW r \in Resources, RecordTracked(b, r) PROVE
   EventsInv'
  <2>1. UNCHANGED <<backend, gpu, events, semaphore, pc>>
    BY <1>1 DEF RecordTracked
  <2>2. QED
    BY <2>1, EventsKept DEF EventsInv
<1>2. ASSUME NEW b \in Buffers, NEW r \in Resources, RecordRaw(b, r) PROVE EventsInv'
  <2>1. UNCHANGED <<backend, gpu, events, semaphore, pc>>
    BY <1>2 DEF RecordRaw
  <2>2. QED
    BY <2>1, EventsKept DEF EventsInv
<1>3. ASSUME NEW b \in Buffers, FinishEncoder(b) PROVE EventsInv'
  <2>1. UNCHANGED <<backend, gpu, events, semaphore, pc>>
    BY <1>3 DEF FinishEncoder
  <2>2. QED
    BY <2>1, EventsKept DEF EventsInv
<1>4. ASSUME NEW b \in Buffers, ReleaseBuffer(b) PROVE EventsInv'
  <2>1. UNCHANGED <<backend, gpu, events, semaphore, pc>>
    BY <1>4 DEF ReleaseBuffer
  <2>2. QED
    BY <2>1, EventsKept DEF EventsInv
<1>5. ASSUME NEW r \in Resources, ReleaseResource(r) PROVE EventsInv'
  <2>1. UNCHANGED <<backend, gpu, events, semaphore, pc>>
    BY <1>5 DEF ReleaseResource
  <2>2. QED
    BY <2>1, EventsKept DEF EventsInv
<1>6. ASSUME ReleaseDevice PROVE EventsInv'
  <2>1. UNCHANGED <<backend, gpu, events, semaphore, pc>>
    BY <1>6 DEF ReleaseDevice
  <2>2. QED
    BY <2>1, EventsKept DEF EventsInv
<1>7. ASSUME NEW r \in Resources, BreakDeviceReference(r) PROVE EventsInv'
  <2>1. UNCHANGED <<backend, gpu, events, semaphore, pc>>
    BY <1>7 DEF BreakDeviceReference
  <2>2. QED
    BY <2>1, EventsKept DEF EventsInv
<1>8. ASSUME NEW b \in Buffers, CreateEncoder(b), backend = "CUDA" => pool # <<>> PROVE
   EventsInv'
  <2>1. UNCHANGED <<backend, gpu, events, semaphore, pc>>
    BY <1>8 DEF CreateEncoder, PoolAfterTake
  <2>2. QED
    BY <2>1, EventsKept DEF EventsInv
<1>9. ASSUME NEW b \in Buffers, DropEncoder(b) PROVE EventsInv'
  <2>1. UNCHANGED <<backend, gpu, events, semaphore, pc>>
    BY <1>9 DEF DropEncoder
  <2>2. QED
    BY <2>1, EventsKept DEF EventsInv
<1>10. ASSUME NEW bs \in SUBSET Buffers, backend # "CUDA", BeginSubmit(bs) PROVE
   EventsInv'
  <2>1. backend # "CUDA" /\ backend' = backend
    BY <1>10 DEF BeginSubmit
  <2>2. QED
    BY <2>1, EventsOfOthers
<1>11. ASSUME backend = "Vulkan", QueueSubmit PROVE EventsInv'
  <2>1. backend # "CUDA" /\ backend' = backend
    BY <1>11 DEF QueueSubmit, Work
  <2>2. QED
    BY <2>1, EventsOfOthers
<1>12. ASSUME backend = "Vulkan", VulkanWaitOnHost PROVE EventsInv'
  <2>1. backend # "CUDA" /\ backend' = backend
    BY <1>12 DEF VulkanWaitOnHost
  <2>2. QED
    BY <2>1, EventsOfOthers
<1>13. ASSUME backend = "Vulkan", VulkanRetireCommandBuffers PROVE EventsInv'
  <2>1. backend # "CUDA" /\ backend' = backend
    BY <1>13 DEF VulkanRetireCommandBuffers
  <2>2. QED
    BY <2>1, EventsOfOthers
<1>14. ASSUME backend = "Vulkan", VulkanGpuFinish PROVE EventsInv'
  <2>1. backend # "CUDA" /\ backend' = backend
    BY <1>14 DEF VulkanGpuFinish
  <2>2. QED
    BY <2>1, EventsOfOthers
<1>15. ASSUME backend = "Vulkan", VulkanDestroyDevice PROVE EventsInv'
  <2>1. backend # "CUDA" /\ backend' = backend
    BY <1>15 DEF VulkanDestroyDevice, ShutDown
  <2>2. QED
    BY <2>1, EventsOfOthers
<1>16. ASSUME backend = "D3D12", FailToWaitForFence PROVE EventsInv'
  <2>1. backend # "CUDA" /\ backend' = backend
    BY <1>16 DEF FailToWaitForFence
  <2>2. QED
    BY <2>1, EventsOfOthers
<1>17. ASSUME backend = "D3D12", Execute PROVE EventsInv'
  <2>1. backend # "CUDA" /\ backend' = backend
    BY <1>17 DEF Execute, Work
  <2>2. QED
    BY <2>1, EventsOfOthers
<1>18. ASSUME backend = "D3D12", BeginWait PROVE EventsInv'
  <2>1. backend # "CUDA" /\ backend' = backend
    BY <1>18 DEF BeginWait, Work
  <2>2. QED
    BY <2>1, EventsOfOthers
<1>19. ASSUME backend = "D3D12", EndWait PROVE EventsInv'
  <2>1. backend # "CUDA" /\ backend' = backend
    BY <1>19 DEF EndWait
  <2>2. QED
    BY <2>1, EventsOfOthers
<1>20. ASSUME backend = "D3D12", D3D12RetireCommandBuffers PROVE EventsInv'
  <2>1. backend # "CUDA" /\ backend' = backend
    BY <1>20 DEF D3D12RetireCommandBuffers
  <2>2. QED
    BY <2>1, EventsOfOthers
<1>21. ASSUME backend = "D3D12", D3D12GpuFinish PROVE EventsInv'
  <2>1. backend # "CUDA" /\ backend' = backend
    BY <1>21 DEF D3D12GpuFinish
  <2>2. QED
    BY <2>1, EventsOfOthers
<1>22. ASSUME backend = "D3D12", D3D12DestroyDevice PROVE EventsInv'
  <2>1. backend # "CUDA" /\ backend' = backend
    BY <1>22 DEF D3D12DestroyDevice, ShutDown
  <2>2. QED
    BY <2>1, EventsOfOthers
<1>23. ASSUME backend = "Metal", Commit PROVE EventsInv'
  <2>1. backend # "CUDA" /\ backend' = backend
    BY <1>23 DEF Commit
  <2>2. QED
    BY <2>1, EventsOfOthers
<1>24. ASSUME backend = "Metal", MetalWaitOnHost PROVE EventsInv'
  <2>1. backend # "CUDA" /\ backend' = backend
    BY <1>24 DEF MetalWaitOnHost
  <2>2. QED
    BY <2>1, EventsOfOthers
<1>25. ASSUME backend = "Metal", MetalRetireCommandBuffers PROVE EventsInv'
  <2>1. backend # "CUDA" /\ backend' = backend
    BY <1>25 DEF MetalRetireCommandBuffers
  <2>2. QED
    BY <2>1, EventsOfOthers
<1>26. ASSUME backend = "Metal", GpuSignal PROVE EventsInv'
  <2>1. backend # "CUDA" /\ backend' = backend
    BY <1>26 DEF GpuSignal
  <2>2. QED
    BY <2>1, EventsOfOthers
<1>27. ASSUME backend = "Metal", GpuComplete PROVE EventsInv'
  <2>1. backend # "CUDA" /\ backend' = backend
    BY <1>27 DEF GpuComplete
  <2>2. QED
    BY <2>1, EventsOfOthers
<1>28. ASSUME backend = "Metal", MetalDestroyDevice PROVE EventsInv'
  <2>1. backend # "CUDA" /\ backend' = backend
    BY <1>28 DEF MetalDestroyDevice, ShutDown
  <2>2. QED
    BY <2>1, EventsOfOthers
<1>29. ASSUME NEW b \in Buffers, backend = "CUDA", CreateEncoderFromEmptyPool(b) PROVE
   EventsInv'
  <2>1. UNCHANGED <<backend, gpu, semaphore, pc>> /\ DropEvents
    BY <1>29 DEF CreateEncoderFromEmptyPool
  <2>2. QED
    BY <2>1, EventsLeave
<1>30. ASSUME NEW bs \in SUBSET Buffers, NEW s \in Streams \cup {Default}, backend =
   "CUDA", BeginSubmitTo(bs, s) PROVE EventsInv'
  <2>1. UNCHANGED <<backend, gpu, events, semaphore>> /\ pc' \in {"idle", "send"}
    BY <1>30 DEF BeginSubmitTo
  <2>2. QED
    BY <2>1, EventsKept
<1>31. ASSUME NEW b \in Buffers, backend = "CUDA", ExecuteBuffer(b) PROVE EventsInv'
  BY <1>31, EventsGrow
<1>32. ASSUME backend = "CUDA", EndSubmit PROVE EventsInv'
  <2>1. UNCHANGED <<backend, gpu, events, semaphore>> /\ pc' \in {"idle", "send"}
    BY <1>32 DEF EndSubmit
  <2>2. QED
    BY <2>1, EventsKept
<1>33. ASSUME backend = "CUDA", CUDARetireCommandBuffers PROVE EventsInv'
  <2>1. UNCHANGED <<backend, gpu, semaphore, pc>> /\ DropEvents
    BY <1>33 DEF CUDARetireCommandBuffers
  <2>2. QED
    BY <2>1, EventsLeave
<1>34. ASSUME backend = "CUDA", CUDAWaitOnHost PROVE EventsInv'
  <2>1. UNCHANGED <<backend, gpu, semaphore, pc>> /\ events' = <<>> /\ gpu = <<>>
    BY <1>34 DEF CUDAWaitOnHost
  <2>2. QED
    BY <2>1 DEF EventsInv
<1>35. ASSUME NEW i \in DOMAIN gpu, backend = "CUDA", CUDAGpuFinish(i) PROVE EventsInv'
  BY <1>35, EventsInOrder
<1>36. ASSUME backend = "CUDA", CUDADestroyDevice PROVE EventsInv'
  <2>1. UNCHANGED <<backend, gpu, semaphore, pc>> /\ events' = <<>> /\ gpu = <<>>
    BY <1>36 DEF CUDADestroyDevice, ShutDown
  <2>2. QED
    BY <2>1 DEF EventsInv
<1>37. CASE UNCHANGED vars
  <2>1. UNCHANGED <<backend, gpu, events, semaphore, pc>>
    BY <1>37 DEF vars
  <2>2. QED
    BY <2>1, EventsKept DEF EventsInv
<1>38. QED
  BY <1>1, <1>2, <1>3, <1>4, <1>5, <1>6, <1>7, <1>8, <1>9, <1>10, <1>11, <1>12, <1>13,
     <1>14, <1>15, <1>16, <1>17, <1>18, <1>19, <1>20, <1>21, <1>22, <1>23, <1>24, <1>25,
     <1>26, <1>27, <1>28, <1>29, <1>30, <1>31, <1>32, <1>33, <1>34, <1>35, <1>36, <1>37,
     CommandQueueAssumption DEF Next, ClientStep, SubmitterStep, GpuStep, DestroyDevice,
     VulkanClientStep, VulkanSubmitterStep, D3D12ClientStep, D3D12SubmitterStep,
     MetalClientStep, MetalSubmitterStep, MetalGpuStep, CUDAClientStep,
     CUDASubmitterStep, CUDAGpuStep



-----------------------------------------------------------------------------
(* The end of the device.                                                  *)

(* Who still has something to do keeps the device.                         *)
LEMMA NotDestroyed ==
    ASSUME LiveInv, EndInv,
           \/ deviceHeld \/ pc # "idle" \/ gpu # <<>> \/ encoding # {}
           \/ \E b \in Buffers : handles[b] > 0
           \/ \E r \in Resources : r \in owned \/ resource[r] = "pushed"
    PROVE  ~destroyed
<1>1. SUFFICES ASSUME destroyed PROVE FALSE
  OBVIOUS
<1>2. /\ ~deviceHeld /\ pc = "idle" /\ encoding = {} /\ gpu = <<>>
      /\ \A b \in Buffers : handles[b] = 0
      /\ \A r \in Resources : resource[r] \in {"deferred", "deleted"}
  BY <1>1 DEF EndInv
<1>3. CASE \E b \in Buffers : handles[b] > 0
  BY <1>2, <1>3
<1>4. CASE \E r \in Resources : r \in owned \/ resource[r] = "pushed"
  BY <1>2, <1>4 DEF LiveInv
<1>5. QED
  BY <1>2, <1>3, <1>4

LEMMA EndKept ==
    ASSUME EndInv, ~destroyed, UNCHANGED <<deviceHeld, destroyed>>,
           pc' = pc \/ pc' = "idle" \/ deviceHeld
    PROVE  EndInv'
BY DEF EndInv

LEMMA EndReached ==
    ASSUME ListsTyped, RefsTyped, TimelineTyped, LiveInv, DeferredInv, EndInv,
           NEW finished \in Nat, ShutDown(finished), gpu' = <<>>,
           (backend \in {"Vulkan", "D3D12"} => semaphore' = lastSubmitted')
              => lastSubmitted <= finished
    PROVE  EndInv'
<1>1. /\ ~deviceHeld /\ encoding = {} /\ ~(\E b \in Buffers : handles[b] > 0)
      /\ \A r \in Resources : resource[r] \notin {"live", "pushed"}
  BY DEF ShutDown, DeviceReferenced
<1>2. /\ destroyed' = TRUE /\ pool' = <<>> /\ inFlight' = <<>>
      /\ UNCHANGED <<encoding, handles, pc, backend, deviceHeld>>
  BY DEF ShutDown, recording, submitter
<1>3. \A b \in Buffers : handles[b] = 0
  <2>1. \A b \in Buffers : handles[b] \in Nat
    BY DEF ListsTyped
  <2>2. QED
    BY <1>1, <2>1
<1>4. pc = "idle"
  BY <1>1 DEF EndInv
<1>5. \A r \in Resources : resource[r] \in {"deferred", "deleted"}
  BY <1>1 DEF RefsTyped
<1>6. PICK deleted :
         /\ \A r : Waiting(deferred', r) <=> Waiting(deferred, r) /\ r \notin deleted
         /\ resource' = [r \in Resources |-> IF r \in deleted THEN "deleted" ELSE resource[r]]
         /\ lastSubmitted <= finished => deferred' = <<>>
  BY ShutDownIs
<1>7. \A r \in Resources : resource'[r] \in {"deferred", "deleted"}
  BY <1>5, <1>6
<1>8. ASSUME lastSubmitted <= finished
      PROVE  deferred' = <<>> /\ \A r \in Resources : resource'[r] = "deleted"
  <2>1. deferred' = <<>>
    BY <1>6, <1>8
  <2>2. \A r : ~Waiting(deferred', r)
    BY <2>1 DEF Waiting
  <2>3. \A r \in Resources : resource[r] = "deferred" => Waiting(deferred, r)
    BY DEF DeferredInv
  <2>4. \A r \in Resources : resource[r] = "deferred" => r \in deleted
    BY <1>6, <2>2, <2>3
  <2>5. QED
    BY <1>5, <1>6, <2>1, <2>4
<1>9. ShutdownAfterSuccess'
  BY <1>2, <1>8 DEF ShutdownAfterSuccess, ShutdownLeavesNothing
<1>10. QED
  BY <1>1, <1>2, <1>3, <1>4, <1>7, <1>9 DEF EndInv


LEMMA EndNext == ListsTyped /\ RefsTyped /\ TimelineTyped /\ LiveInv /\ DeferredInv /\
   EndInv /\ [Next]_vars => EndInv'
<1> SUFFICES ASSUME ListsTyped, RefsTyped, TimelineTyped, LiveInv, DeferredInv, EndInv,
   [Next]_vars PROVE EndInv'
  OBVIOUS
<1> USE DEF lists, recording, submitter, timeline, device
<1>1. ASSUME NEW b \in Buffers, NEW r \in Resources, RecordTracked(b, r) PROVE EndInv'
  <2>1. encoding # {} /\ UNCHANGED <<deviceHeld, destroyed>> /\ pc' = pc
    BY <1>1 DEF RecordTracked
  <2>2. ~destroyed
    BY <2>1, NotDestroyed
  <2>3. QED
    BY <2>1, <2>2, EndKept
<1>2. ASSUME NEW b \in Buffers, NEW r \in Resources, RecordRaw(b, r) PROVE EndInv'
  <2>1. encoding # {} /\ UNCHANGED <<deviceHeld, destroyed>> /\ pc' = pc
    BY <1>2 DEF RecordRaw
  <2>2. ~destroyed
    BY <2>1, NotDestroyed
  <2>3. QED
    BY <2>1, <2>2, EndKept
<1>3. ASSUME NEW b \in Buffers, FinishEncoder(b) PROVE EndInv'
  <2>1. encoding # {} /\ UNCHANGED <<deviceHeld, destroyed>> /\ pc' = pc
    BY <1>3 DEF FinishEncoder
  <2>2. ~destroyed
    BY <2>1, NotDestroyed
  <2>3. QED
    BY <2>1, <2>2, EndKept
<1>4. ASSUME NEW b \in Buffers, ReleaseBuffer(b) PROVE EndInv'
  <2>1. handles[b] > 0 /\ UNCHANGED <<deviceHeld, destroyed>> /\ pc' = pc
    BY <1>4 DEF ReleaseBuffer
  <2>2. ~destroyed
    BY <2>1, NotDestroyed
  <2>3. QED
    BY <2>1, <2>2, EndKept
<1>5. ASSUME NEW r \in Resources, ReleaseResource(r) PROVE EndInv'
  <2>1. r \in owned /\ UNCHANGED <<deviceHeld, destroyed>> /\ pc' = pc
    BY <1>5 DEF ReleaseResource
  <2>2. ~destroyed
    BY <2>1, NotDestroyed
  <2>3. QED
    BY <2>1, <2>2, EndKept
<1>6. ASSUME ReleaseDevice PROVE EndInv'
  <2>1. deviceHeld /\ pc = "idle" /\ UNCHANGED <<pc, destroyed>>
    BY <1>6 DEF ReleaseDevice
  <2>2. ~destroyed
    BY <2>1, NotDestroyed
  <2>3. QED
    BY <2>1, <2>2 DEF EndInv
<1>7. ASSUME NEW r \in Resources, BreakDeviceReference(r) PROVE EndInv'
  <2>1. resource[r] = "pushed" /\ UNCHANGED <<deviceHeld, destroyed>> /\ pc' = pc
    BY <1>7 DEF BreakDeviceReference
  <2>2. ~destroyed
    BY <2>1, NotDestroyed
  <2>3. QED
    BY <2>1, <2>2, EndKept
<1>8. ASSUME NEW b \in Buffers, CreateEncoder(b), backend = "CUDA" => pool # <<>> PROVE
   EndInv'
  <2>1. deviceHeld /\ UNCHANGED <<deviceHeld, destroyed>>
    BY <1>8 DEF CreateEncoder
  <2>2. ~destroyed
    BY <2>1, NotDestroyed
  <2>3. QED
    BY <2>1, <2>2, EndKept
<1>9. ASSUME NEW b \in Buffers, DropEncoder(b) PROVE EndInv'
  <2>1. encoding # {} /\ UNCHANGED <<deviceHeld, destroyed>> /\ pc' = pc
    BY <1>9 DEF DropEncoder
  <2>2. ~destroyed
    BY <2>1, NotDestroyed
  <2>3. QED
    BY <2>1, <2>2, EndKept
<1>10. ASSUME NEW bs \in SUBSET Buffers, backend # "CUDA", BeginSubmit(bs) PROVE EndInv'
  <2>1. deviceHeld /\ UNCHANGED <<deviceHeld, destroyed>>
    BY <1>10 DEF BeginSubmit
  <2>2. ~destroyed
    BY <2>1, NotDestroyed
  <2>3. QED
    BY <2>1, <2>2, EndKept
<1>11. ASSUME backend = "Vulkan", QueueSubmit PROVE EndInv'
  <2>1. pc # "idle" /\ UNCHANGED <<deviceHeld, destroyed>>
    BY <1>11 DEF QueueSubmit
  <2>2. deviceHeld /\ ~destroyed
    BY <2>1, NotDestroyed DEF EndInv
  <2>3. QED
    BY <2>2, <2>1, EndKept
<1>12. ASSUME backend = "Vulkan", VulkanWaitOnHost PROVE EndInv'
  <2>1. deviceHeld /\ UNCHANGED <<deviceHeld, destroyed>>
    BY <1>12 DEF VulkanWaitOnHost
  <2>2. ~destroyed
    BY <2>1, NotDestroyed
  <2>3. QED
    BY <2>1, <2>2, EndKept
<1>13. ASSUME backend = "Vulkan", VulkanRetireCommandBuffers PROVE EndInv'
  <2>1. pc # "idle" /\ UNCHANGED <<deviceHeld, destroyed>>
    BY <1>13 DEF VulkanRetireCommandBuffers
  <2>2. deviceHeld /\ ~destroyed
    BY <2>1, NotDestroyed DEF EndInv
  <2>3. QED
    BY <2>2, <2>1, EndKept
<1>14. ASSUME backend = "Vulkan", VulkanGpuFinish PROVE EndInv'
  <2>1. gpu # <<>> /\ UNCHANGED <<deviceHeld, destroyed>> /\ pc' = pc
    BY <1>14 DEF VulkanGpuFinish
  <2>2. ~destroyed
    BY <2>1, NotDestroyed
  <2>3. QED
    BY <2>1, <2>2, EndKept
<1>15. ASSUME backend = "Vulkan", VulkanDestroyDevice PROVE EndInv'
  <2>1. gpu' = <<>> /\ ShutDown(semaphore) /\ UNCHANGED <<semaphore, lastSubmitted>>
    BY <1>15 DEF VulkanDestroyDevice
  <2>2. PICK finished \in Nat : finished = semaphore
    BY DEF TimelineTyped
  <2>3. ShutDown(finished)
    BY <2>1, <2>2
  <2>4. (backend \in {"Vulkan", "D3D12"} => semaphore' = lastSubmitted') => lastSubmitted <= finished
    BY <1>15, <2>1, <2>2 DEF TimelineTyped
  <2>5. QED
    BY <2>1, <2>3, <2>4, EndReached
<1>16. ASSUME backend = "D3D12", FailToWaitForFence PROVE EndInv'
  <2>1. deviceHeld /\ UNCHANGED <<deviceHeld, destroyed>>
    BY <1>16 DEF FailToWaitForFence
  <2>2. ~destroyed
    BY <2>1, NotDestroyed
  <2>3. QED
    BY <2>1, <2>2, EndKept
<1>17. ASSUME backend = "D3D12", Execute PROVE EndInv'
  <2>1. pc # "idle" /\ UNCHANGED <<deviceHeld, destroyed>>
    BY <1>17 DEF Execute
  <2>2. deviceHeld /\ ~destroyed
    BY <2>1, NotDestroyed DEF EndInv
  <2>3. QED
    BY <2>2, <2>1, EndKept
<1>18. ASSUME backend = "D3D12", BeginWait PROVE EndInv'
  <2>1. deviceHeld /\ UNCHANGED <<deviceHeld, destroyed>>
    BY <1>18 DEF BeginWait
  <2>2. ~destroyed
    BY <2>1, NotDestroyed
  <2>3. QED
    BY <2>1, <2>2, EndKept
<1>19. ASSUME backend = "D3D12", EndWait PROVE EndInv'
  <2>1. pc # "idle" /\ UNCHANGED <<deviceHeld, destroyed>>
    BY <1>19 DEF EndWait
  <2>2. deviceHeld /\ ~destroyed
    BY <2>1, NotDestroyed DEF EndInv
  <2>3. QED
    BY <2>2, <2>1, EndKept
<1>20. ASSUME backend = "D3D12", D3D12RetireCommandBuffers PROVE EndInv'
  <2>1. pc # "idle" /\ UNCHANGED <<deviceHeld, destroyed>>
    BY <1>20 DEF D3D12RetireCommandBuffers
  <2>2. deviceHeld /\ ~destroyed
    BY <2>1, NotDestroyed DEF EndInv
  <2>3. QED
    BY <2>2, <2>1, EndKept
<1>21. ASSUME backend = "D3D12", D3D12GpuFinish PROVE EndInv'
  <2>1. gpu # <<>> /\ UNCHANGED <<deviceHeld, destroyed>> /\ pc' = pc
    BY <1>21 DEF D3D12GpuFinish
  <2>2. ~destroyed
    BY <2>1, NotDestroyed
  <2>3. QED
    BY <2>1, <2>2, EndKept
<1>22. ASSUME backend = "D3D12", D3D12DestroyDevice PROVE EndInv'
  <2>1. gpu' = <<>> /\ lastSubmitted' = lastSubmitted + 1
    BY <1>22 DEF D3D12DestroyDevice
  <2>2. PICK finished \in Nat : finished = semaphore' /\ ShutDown(finished)
    BY <1>22, D3D12Ends
  <2>3. (backend \in {"Vulkan", "D3D12"} => semaphore' = lastSubmitted') => lastSubmitted <= finished
    BY <1>22, <2>1, <2>2 DEF TimelineTyped
  <2>4. QED
    BY <2>1, <2>2, <2>3, EndReached
<1>23. ASSUME backend = "Metal", Commit PROVE EndInv'
  <2>1. pc # "idle" /\ UNCHANGED <<deviceHeld, destroyed>>
    BY <1>23 DEF Commit
  <2>2. deviceHeld /\ ~destroyed
    BY <2>1, NotDestroyed DEF EndInv
  <2>3. QED
    BY <2>2, <2>1, EndKept
<1>24. ASSUME backend = "Metal", MetalWaitOnHost PROVE EndInv'
  <2>1. deviceHeld /\ UNCHANGED <<deviceHeld, destroyed>>
    BY <1>24 DEF MetalWaitOnHost
  <2>2. ~destroyed
    BY <2>1, NotDestroyed
  <2>3. QED
    BY <2>1, <2>2, EndKept
<1>25. ASSUME backend = "Metal", MetalRetireCommandBuffers PROVE EndInv'
  <2>1. pc # "idle" /\ UNCHANGED <<deviceHeld, destroyed>>
    BY <1>25 DEF MetalRetireCommandBuffers
  <2>2. deviceHeld /\ ~destroyed
    BY <2>1, NotDestroyed DEF EndInv
  <2>3. QED
    BY <2>2, <2>1, EndKept
<1>26. ASSUME backend = "Metal", GpuSignal PROVE EndInv'
  <2>1. gpu # <<>> /\ UNCHANGED <<deviceHeld, destroyed>> /\ pc' = pc
    BY <1>26 DEF GpuSignal
  <2>2. ~destroyed
    BY <2>1, NotDestroyed
  <2>3. QED
    BY <2>1, <2>2, EndKept
<1>27. ASSUME backend = "Metal", GpuComplete PROVE EndInv'
  <2>1. gpu # <<>> /\ UNCHANGED <<deviceHeld, destroyed>> /\ pc' = pc
    BY <1>27 DEF GpuComplete
  <2>2. ~destroyed
    BY <2>1, NotDestroyed
  <2>3. QED
    BY <2>1, <2>2, EndKept
<1>28. ASSUME backend = "Metal", MetalDestroyDevice PROVE EndInv'
  <2>1. gpu' = <<>> /\ ShutDown(semaphore) /\ semaphore >= lastSubmitted
    BY <1>28 DEF MetalDestroyDevice
  <2>2. PICK finished \in Nat : finished = semaphore
    BY DEF TimelineTyped
  <2>3. ShutDown(finished)
    BY <2>1, <2>2
  <2>4. (backend \in {"Vulkan", "D3D12"} => semaphore' = lastSubmitted') => lastSubmitted <= finished
    BY <1>28, <2>1, <2>2 DEF TimelineTyped
  <2>5. QED
    BY <2>1, <2>3, <2>4, EndReached
<1>29. ASSUME NEW b \in Buffers, backend = "CUDA", CreateEncoderFromEmptyPool(b) PROVE
   EndInv'
  <2>1. deviceHeld /\ UNCHANGED <<deviceHeld, destroyed>>
    BY <1>29 DEF CreateEncoderFromEmptyPool
  <2>2. ~destroyed
    BY <2>1, NotDestroyed
  <2>3. QED
    BY <2>1, <2>2, EndKept
<1>30. ASSUME NEW bs \in SUBSET Buffers, NEW s \in Streams \cup {Default}, backend =
   "CUDA", BeginSubmitTo(bs, s) PROVE EndInv'
  <2>1. deviceHeld /\ UNCHANGED <<deviceHeld, destroyed>>
    BY <1>30 DEF BeginSubmitTo
  <2>2. ~destroyed
    BY <2>1, NotDestroyed
  <2>3. QED
    BY <2>1, <2>2, EndKept
<1>31. ASSUME NEW b \in Buffers, backend = "CUDA", ExecuteBuffer(b) PROVE EndInv'
  <2>1. pc # "idle" /\ UNCHANGED <<deviceHeld, destroyed>>
    BY <1>31 DEF ExecuteBuffer
  <2>2. deviceHeld /\ ~destroyed
    BY <2>1, NotDestroyed DEF EndInv
  <2>3. QED
    BY <2>2, <2>1, EndKept
<1>32. ASSUME backend = "CUDA", EndSubmit PROVE EndInv'
  <2>1. pc # "idle" /\ UNCHANGED <<deviceHeld, destroyed>>
    BY <1>32 DEF EndSubmit
  <2>2. deviceHeld /\ ~destroyed
    BY <2>1, NotDestroyed DEF EndInv
  <2>3. QED
    BY <2>2, <2>1, EndKept
<1>33. ASSUME backend = "CUDA", CUDARetireCommandBuffers PROVE EndInv'
  <2>1. deviceHeld /\ UNCHANGED <<deviceHeld, destroyed>>
    BY <1>33 DEF CUDARetireCommandBuffers
  <2>2. ~destroyed
    BY <2>1, NotDestroyed
  <2>3. QED
    BY <2>1, <2>2, EndKept
<1>34. ASSUME backend = "CUDA", CUDAWaitOnHost PROVE EndInv'
  <2>1. deviceHeld /\ UNCHANGED <<deviceHeld, destroyed>>
    BY <1>34 DEF CUDAWaitOnHost
  <2>2. ~destroyed
    BY <2>1, NotDestroyed
  <2>3. QED
    BY <2>1, <2>2, EndKept
<1>35. ASSUME NEW i \in DOMAIN gpu, backend = "CUDA", CUDAGpuFinish(i) PROVE EndInv'
  <2>1. gpu # <<>> /\ UNCHANGED <<deviceHeld, destroyed, pc>>
    BY <1>35 DEF CUDAGpuFinish
  <2>2. ~destroyed
    BY <2>1, NotDestroyed
  <2>3. QED
    BY <2>1, <2>2, EndKept
<1>36. ASSUME backend = "CUDA", CUDADestroyDevice PROVE EndInv'
  <2>1. gpu' = <<>> /\ ShutDown(lastSubmitted) 
    BY <1>36 DEF CUDADestroyDevice
  <2>2. PICK finished \in Nat : finished = lastSubmitted
    BY DEF TimelineTyped
  <2>3. ShutDown(finished)
    BY <2>1, <2>2
  <2>4. (backend \in {"Vulkan", "D3D12"} => semaphore' = lastSubmitted') => lastSubmitted <= finished
    BY <1>36, <2>1, <2>2 DEF TimelineTyped
  <2>5. QED
    BY <2>1, <2>3, <2>4, EndReached
<1>37. CASE UNCHANGED vars
  <2>1. UNCHANGED <<deviceHeld, destroyed, pc, encoding, gpu, pool, inFlight, handles, resource,
                    deferred, backend, semaphore, lastSubmitted>>
    BY <1>37 DEF vars
  <2>2. QED
    BY <2>1 DEF EndInv, ShutdownAfterSuccess, ShutdownLeavesNothing
<1>38. QED
  BY <1>1, <1>2, <1>3, <1>4, <1>5, <1>6, <1>7, <1>8, <1>9, <1>10, <1>11, <1>12, <1>13,
     <1>14, <1>15, <1>16, <1>17, <1>18, <1>19, <1>20, <1>21, <1>22, <1>23, <1>24, <1>25,
     <1>26, <1>27, <1>28, <1>29, <1>30, <1>31, <1>32, <1>33, <1>34, <1>35, <1>36, <1>37,
     CommandQueueAssumption DEF Next, ClientStep, SubmitterStep, GpuStep, DestroyDevice,
     VulkanClientStep, VulkanSubmitterStep, D3D12ClientStep, D3D12SubmitterStep,
     MetalClientStep, MetalSubmitterStep, MetalGpuStep, CUDAClientStep,
     CUDASubmitterStep, CUDAGpuStep


-----------------------------------------------------------------------------
(* The invariant holds.                                                    *)

QueueInv ==
    /\ Typed
    /\ OwnerInv /\ SendInv
    /\ LiveInv /\ DeferredInv /\ RecordedInv
    /\ IdsInv /\ EventsInv /\ BuffersInv /\ UsesInv
    /\ EndInv

LEMMA QueueInit == Init => QueueInv
<1> SUFFICES ASSUME Init PROVE QueueInv
  OBVIOUS
<1>1. /\ gpu = <<>> /\ events = <<>> /\ deferred = <<>> /\ pool = <<>> /\ inFlight = <<>>
      /\ encoding = {} /\ unsubmitted = {} /\ sending = {}
      /\ pc = "idle" /\ stream = Default /\ sinceEvent = 0
      /\ deviceHeld = TRUE /\ destroyed = FALSE /\ backend \in Backends
  BY DEF Init
<1>2. owned \subseteq Resources
  BY DEF Init, kSubset
<1>3. FirstID(backend) \in Nat /\ (backend = "CUDA" => FirstID(backend) = 0)
  BY DEF FirstID
<1>4. /\ lastSubmitted = FirstID(backend) /\ lastFinished = FirstID(backend)
      /\ semaphore = FirstID(backend)
  BY DEF Init
<1>5. /\ submissionID \in [Buffers -> Nat] /\ handles \in [Buffers -> Nat]
      /\ tracked \in [Buffers -> SUBSET Resources] /\ recorded \in [Buffers -> SUBSET Resources]
      /\ \A b \in Buffers : tracked[b] = {} /\ recorded[b] = {}
  BY DEF Init
<1>6. /\ resource \in [Resources -> {"live", "pushed", "deferred", "deleted"}]
      /\ \A r \in Resources : resource[r] = IF r \in owned THEN "live" ELSE "deleted"
  BY DEF Init
<1>7. ListsTyped
  BY <1>1, <1>5, EmptySeq DEF ListsTyped
<1>8. RefsTyped
  BY <1>1, <1>2, <1>5, <1>6, EmptySeq DEF RefsTyped
<1>9. TimelineTyped
  <2>1. gpu \in Seq(Submission) /\ events \in Seq(0..lastSubmitted)
    BY <1>1, EmptySeq
  <2>2. lastSubmitted \in Nat /\ lastFinished \in 0..lastSubmitted /\ semaphore \in 0..lastSubmitted
    BY <1>3, <1>4
  <2>3. QED
    BY <1>1, <2>1, <2>2 DEF TimelineTyped
<1>10. OwnerInv /\ SendInv
  <2>1. Range(pool) = {} /\ Range(inFlight) = {} /\ Distinct(pool) /\ Distinct(inFlight)
    BY <1>1, EmptyRange
  <2>2. QED
    BY <1>1, <2>1 DEF OwnerInv, SendInv
<1>11. LiveInv
  BY <1>5, <1>6 DEF LiveInv
<1>12. DeferredInv
  <2>1. DOMAIN deferred = {} /\ \A r : ~Waiting(deferred, r)
    BY <1>1 DEF Waiting
  <2>2. QED
    BY <1>6, <2>1 DEF DeferredInv, Ordered
<1>13. RecordedInv
  BY <1>1, <1>5 DEF RecordedInv
<1>14. IdsInv /\ EventsInv /\ BuffersInv /\ UsesInv
  BY <1>1, <1>3, <1>4 DEF IdsInv, EventsInv, BuffersInv, UsesInv
<1>15. EndInv
  BY <1>1 DEF EndInv
<1>16. QED
  BY <1>7, <1>8, <1>9, <1>10, <1>11, <1>12, <1>13, <1>14, <1>15 DEF QueueInv, Typed

LEMMA QueueStep == Blocking /\ QueueInv /\ [Next]_vars => QueueInv'
<1> SUFFICES ASSUME Blocking, QueueInv, [Next]_vars
             PROVE  QueueInv'
  OBVIOUS
<1>1. /\ ListsTyped /\ RefsTyped /\ TimelineTyped /\ OwnerInv /\ SendInv
      /\ LiveInv /\ DeferredInv /\ RecordedInv
      /\ IdsInv /\ EventsInv /\ BuffersInv /\ UsesInv /\ EndInv
  BY DEF QueueInv, Typed
<1>2. ListsTyped' /\ RefsTyped' /\ TimelineTyped'
  BY <1>1, ListsNext, RefsNext, TimelineNext
<1>3. OwnerInv' /\ SendInv'
  BY <1>1, OwnerNext, SendNext
<1>4. RefsStep /\ GpuWork
  BY <1>1, RefsSteps, GpuSteps
<1>5. LiveInv' /\ DeferredInv'
  BY <1>1, <1>2, <1>4, LiveNext, DeferredNext
<1>6. RecordedInv'
  BY <1>1, RecordedNext
<1>7. IdsInv' /\ EventsInv'
  BY <1>1, <1>2, IdsNext, EventsNext
<1>8. BuffersInv'
  BY <1>1, <1>4, BuffersNext
<1>9. UsesInv'
  BY <1>1, <1>2, <1>4, UsesNext
<1>10. EndInv'
  BY <1>1, EndNext
<1>11. QED
  BY <1>2, <1>3, <1>5, <1>6, <1>7, <1>8, <1>9, <1>10 DEF QueueInv, Typed

(* The invariant holds in every reachable state, for any number of command *)
(* buffers, resources, streams and submissions, if the streams of clients  *)
(* wait for the default stream of CUDA and it for them.                    *)
THEOREM QueueInvariant == Blocking => (Spec => []QueueInv)
<1>1. Blocking /\ QueueInv /\ [Next]_vars => QueueInv'
  BY QueueStep
<1>2. ASSUME Blocking PROVE Spec => []QueueInv
  <2>1. QueueInv /\ [Next]_vars => QueueInv'
    BY <1>1, <1>2
  <2>2. QED
    BY <2>1, QueueInit, PTL DEF Spec
<1>3. QED
  BY <1>2

LEMMA UsedIsAlive == QueueInv => GpuResourcesAlive
<1> SUFFICES ASSUME QueueInv PROVE GpuResourcesAlive
  OBVIOUS
<1>1. RefsTyped /\ TimelineTyped /\ LiveInv /\ DeferredInv /\ UsesInv
  BY DEF QueueInv, Typed
<1>2. ASSUME NEW i \in DOMAIN gpu, NEW r \in gpu[i].uses PROVE resource[r] # "deleted"
  <2>1. r \in Resources
    BY <1>1, IdsTyped
  <2>2. resource[r] = "live" \/ Waiting(deferred, r)
    BY <1>1, <1>2 DEF UsesInv, Waiting
  <2>3. resource[r] = "live" \/ resource[r] \in {"pushed", "deferred"}
    BY <1>1, <2>1, <2>2 DEF DeferredInv
  <2>4. QED
    BY <2>3
<1>3. ASSUME NEW i \in DOMAIN deferred
      PROVE  /\ deferred[i].id <= lastSubmitted
             /\ deferred[i].res \notin owned \cup UNION Range(tracked)
  <2>1. deferred[i].res \in Resources
    BY <1>1, EntriesTyped DEF RefsTyped
  <2>2. Waiting(deferred, deferred[i].res)
    BY DEF Waiting
  <2>3. resource[deferred[i].res] # "live"
    BY <1>1, <2>1, <2>2 DEF DeferredInv
  <2>4. deferred[i].res \notin owned /\ \A b \in Buffers : deferred[i].res \notin tracked[b]
    BY <1>1, <2>1, <2>3 DEF LiveInv
  <2>5. Range(tracked) = {tracked[b] : b \in Buffers}
    BY <1>1 DEF RefsTyped, Range
  <2>6. deferred[i].id <= lastSubmitted
    BY <1>1 DEF DeferredInv
  <2>7. QED
    BY <2>4, <2>5, <2>6
<1>4. DeferredInOrder
  BY <1>1, <1>3 DEF DeferredInOrder, DeferredInv, Ordered
<1>5. QED
  BY <1>2, <1>4 DEF GpuResourcesAlive

LEMMA OwnersAreOne == QueueInv => InFlightUntouched
<1> SUFFICES ASSUME QueueInv PROVE InFlightUntouched
  OBVIOUS
<1>1. ListsTyped /\ OwnerInv /\ BuffersInv
  BY DEF QueueInv, Typed
<1>2. IsInjective(pool) /\ IsInjective(inFlight)
  BY <1>1, DistinctIsInjective DEF ListsTyped, OwnerInv
<1> DEFINE owners == <<Range(pool), Range(inFlight), encoding, unsubmitted>>
<1>3. /\ DOMAIN owners = 1..4
      /\ owners[1] = Range(pool) /\ owners[2] = Range(inFlight)
      /\ owners[3] = encoding /\ owners[4] = unsubmitted
  OBVIOUS
<1>4. /\ Range(pool) \cap Range(inFlight) = {}
      /\ Range(pool) \cap encoding = {} /\ Range(pool) \cap unsubmitted = {}
      /\ Range(inFlight) \cap encoding = {} /\ Range(inFlight) \cap unsubmitted = {}
      /\ encoding \cap unsubmitted = {}
  BY <1>1 DEF OwnerInv
<1> HIDE DEF owners
<1>5. ASSUME NEW i \in DOMAIN owners, NEW j \in DOMAIN owners, i # j
      PROVE  owners[i] \cap owners[j] = {}
  <2>1. i \in 1..4 /\ j \in 1..4
    BY <1>3
  <2>2. CASE i = 1
    BY <1>3, <1>4, <1>5, <2>1, <2>2
  <2>3. CASE i = 2
    BY <1>3, <1>4, <1>5, <2>1, <2>3
  <2>4. CASE i = 3
    BY <1>3, <1>4, <1>5, <2>1, <2>4
  <2>5. CASE i = 4
    BY <1>3, <1>4, <1>5, <2>1, <2>5
  <2>6. QED
    BY <2>1, <2>2, <2>3, <2>4, <2>5
<1>6. OneOwner
  BY <1>2, <1>5 DEF OneOwner, owners
<1>7. QED
  BY <1>1, <1>6 DEF InFlightUntouched, BuffersInv

(* The end of shutdown(): nothing is left to delete and no resource        *)
(* survives the device, unless Vulkan never signalled what was submitted   *)
(* last or the wait of D3D12's shutdown() failed (shutdown() of each vk-,  *)
(* d3d12-, metal- and cuda-command.cpp).                                   *)
LEMMA NothingSurvives == QueueInv => ShutdownAfterSuccess
<1>1. ASSUME EndInv, ~destroyed PROVE ShutdownAfterSuccess
  BY <1>1 DEF ShutdownAfterSuccess, ShutdownLeavesNothing
<1>2. ASSUME EndInv, destroyed PROVE ShutdownAfterSuccess
  BY <1>2 DEF EndInv
<1>3. QED
  BY <1>1, <1>2 DEF QueueInv

LEMMA NothingIsHeld == QueueInv => NoCycleLeft
<1> SUFFICES ASSUME QueueInv, ClientGone, inFlight = <<>>,
                    \A b \in Buffers : tracked[b] = {},
                    \A r \in Resources : resource[r] # "pushed"
             PROVE  ~DeviceReferenced
  BY DEF NoCycleLeft
<1>1. /\ ~deviceHeld /\ encoding = {} /\ ~(\E b \in Buffers : handles[b] > 0)
  BY DEF ClientGone
<1>2. \A r \in Resources : resource[r] # "live"
  BY DEF QueueInv, LiveInv, ClientGone
<1>3. QED
  BY <1>1, <1>2 DEF DeviceReferenced

(* No resource that work on the GPU uses is deleted, and the deferred      *)
(* deletes are in the order of their IDs (deferDelete() and                *)
(* executeDeferredDeletes() of each *-command.cpp).                        *)
THEOREM ResourcesAlive == Blocking => (Spec => []GpuResourcesAlive)
<1>1. ASSUME Blocking PROVE Spec => []GpuResourcesAlive
  <2>1. Spec => []QueueInv
    BY <1>1, QueueInvariant
  <2>2. QED
    BY <2>1, UsedIsAlive, PTL
<1>2. QED
  BY <1>1

(* A command buffer the GPU executes is in the in-flight list under its    *)
(* ID, and has no other owner: no encoder and no client rewrites it        *)
(* (retireCommandBuffers() and getOrCreateCommandBuffer()).                *)
THEOREM BuffersUntouched == Blocking => (Spec => []InFlightUntouched)
<1>1. ASSUME Blocking PROVE Spec => []InFlightUntouched
  <2>1. Spec => []QueueInv
    BY <1>1, QueueInvariant
  <2>2. QED
    BY <2>1, OwnersAreOne, PTL
<1>2. QED
  BY <1>1

(* When the device is destroyed nothing waits to be deleted and no         *)
(* resource is left: the assertion at the end of shutdown(), where the     *)
(* last ID of Vulkan or D3D12 was reached.                                 *)
THEOREM NothingLeft == Blocking => (Spec => []ShutdownAfterSuccess)
<1>1. ASSUME Blocking PROVE Spec => []ShutdownAfterSuccess
  <2>1. Spec => []QueueInv
    BY <1>1, QueueInvariant
  <2>2. QED
    BY <2>1, NothingSurvives, PTL
<1>2. QED
  BY <1>1

(* When the clients dropped everything and nothing is in flight, nothing   *)
(* of the device's own holds it (breakStrongReferenceToDevice()).          *)
THEOREM DeviceFreed == Blocking => (Spec => []NoCycleLeft)
<1>1. ASSUME Blocking PROVE Spec => []NoCycleLeft
  <2>1. Spec => []QueueInv
    BY <1>1, QueueInvariant
  <2>2. QED
    BY <2>1, NothingIsHeld, PTL
<1>2. QED
  BY <1>1
=============================================================================
